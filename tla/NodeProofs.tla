----------------------------- MODULE NodeProofs -----------------------------
(* Theorems about a node's command log and its part in the cluster: what a *)
(* restart makes of the log (Recovery), for every configuration and any    *)
(* number of threads, commands, rotations and crashes; the notifier's gate *)
(* (LeaderGate), for any set of nodes, any number of polling goroutines    *)
(* sharing a gate and any number of elections; and the streams of          *)
(* Transport, for any number of connections, of dialling goroutines and of *)
(* failures of the link.                                                   *)
EXTENDS Recovery, LeaderGate, Transport, WellFoundedInduction, TLAPS

\* A set of naturals that is not empty has a least element.
LEMMA LeastOf ==
    ASSUME NEW T \in SUBSET Nat, T # {}
    PROVE  Min(T) \in T /\ \A y \in T : Min(T) <= y
<1> DEFINE R == OpToRel(<, Nat)
<1>1. IsWellFoundedOn(R, Nat)
    BY Zenon, NatLessThanWellFounded
<1>2. PICK x \in T : \A y \in T : <<y, x>> \notin R
    BY Zenon, <1>1, WFMin
<1>3. R = {ss \in Nat \X Nat : ss[1] < ss[2]}
    BY Zenon DEF OpToRel
<1> HIDE DEF R
<1>4. ASSUME NEW y \in T PROVE x <= y
    <2>1. <<y, x>> \notin {ss \in Nat \X Nat : ss[1] < ss[2]}
        BY Zenon, <1>2, <1>3
    <2> QED BY <2>1
<1> QED BY Zenon, <1>4 DEF Min

(***************************************************************************)
(* The preambles of the command log.                                       *)
(***************************************************************************)
Record  == Command \cup {NoCommand, TornRecord} \cup {Preamble(h) : h \in Nat}
Segment == [fr : Seq(Record), safe : Nat]

\* Only the first record is a preamble, and it names the manifest id, which
\* is not 0.
Headed(fr, id) ==
  \A j \in DOMAIN fr : fr[j].op = "manifest" => j = 1 /\ fr[j].id = id /\ id # 0

LogHeaded(segs, id) ==
  segs \in Seq(Segment) /\ \A i \in DOMAIN segs : Headed(segs[i].fr, id)

States == {"down", "opening", "refused", "replaying", "restored", "up"}

\* The inductive invariant: a start that got past its manifest holds the hash
\* of the one on disk, so what it writes is headed by that; no preamble is
\* there before the manifest is; a thread at work belongs to a server that is
\* up, whose log has a segment to write to.
PreambleInv ==
  /\ conf \in Confs
  /\ disk = [segs |-> disk.segs, mani |-> disk.mani]
  /\ disk.mani.id \in Nat
  /\ LogHeaded(disk.segs, disk.mani.id)
  /\ srv = [f \in {"st", "mani", "hash", "store", "subs"} |-> srv[f]]
  /\ srv.st \in States
  /\ srv.st = "down" => srv.hash = 0
  /\ srv.st \notin {"down", "refused"} => srv.hash = disk.mani.id
  /\ srv.st \in {"replaying", "restored", "up"} => disk.segs # <<>>
  /\ past = [f \in {"n", "crashes", "hist", "overlap", "promised", "want"} |-> past[f]]
  /\ past.n \in Nat
  /\ pc = [t \in Threads |-> pc[t]]
  /\ \A t \in Threads : /\ pc[t] = [st |-> pc[t].st, c |-> pc[t].c]
                        /\ pc[t].st # "idle" => srv.st = "up" /\ pc[t].c \in Command

LEMMA RecordFacts ==
    /\ Command \subseteq Record /\ \A c \in Command : c.op # "manifest"
    /\ NoCommand \in Record /\ NoCommand.op # "manifest"
    /\ TornRecord \in Record /\ TornRecord.op # "manifest"
    /\ \A h \in Nat : Preamble(h) \in Record /\ Preamble(h).id = h
<1>1. \A c \in Command : c.op # "manifest"
    BY Zenon DEF Command, Operations
<1>2. ASSUME NEW b, NEW h
      PROVE  LET r == [op |-> "none", key |-> "none", at |-> 0, durable |-> b, id |-> 0]
             IN  /\ r.op = "none"
                 /\ [r EXCEPT !.op = "torn"].op = "torn"
                 /\ [r EXCEPT !.op = "manifest", !.id = h].id = h
    BY Zenon
<1>3. /\ NoCommand.op = "none" /\ TornRecord.op = "torn"
      /\ \A h \in Nat : Preamble(h).id = h
    BY Zenon, <1>2 DEF NoCommand, TornRecord, Preamble
<1> QED BY Zenon, <1>1, <1>3 DEF Record

LEMMA NewSegmentHeaded ==
    ASSUME NEW id \in Nat
    PROVE  NewSegment(id) \in Segment /\ Headed(NewSegment(id).fr, id)
<1>1. CASE id = 0
    BY <1>1 DEF NewSegment, Segment, Headed
<1>2. CASE id # 0
    <2>1. PICK r \in Record : r = Preamble(id) /\ r.id = id
        BY Zenon, RecordFacts
    <2>2. NewSegment(id) = [fr |-> <<r>>, safe |-> 0]
        BY Zenon, <1>2, <2>1 DEF NewSegment
    <2> QED BY <1>2, <2>1, <2>2 DEF Segment, Headed
<1> QED BY Zenon, <1>1, <1>2

LEMMA SyncedHeaded ==
    ASSUME NEW segs, NEW id \in Nat, LogHeaded(segs, id), segs # <<>>
    PROVE  LogHeaded(Synced(segs), id) /\ Synced(segs) # <<>>
<1>1. segs \in Seq(Segment) /\ Len(segs) \in DOMAIN segs
    BY DEF LogHeaded
<1>2. PICK n \in DOMAIN segs : n = Len(segs)
    BY Zenon, <1>1
<1>3. PICK s \in Segment : s = segs[n]
    BY <1>1, <1>2
<1>4. Len(s.fr) \in Nat
    BY <1>3 DEF Segment
<1>5. PICK m \in Nat : m = Len(s.fr)
    BY Zenon, <1>4
<1>6. Synced(segs) = [segs EXCEPT ![n].safe = m]
    BY Zenon, <1>2, <1>3, <1>5 DEF Synced
<1>7. [s EXCEPT !.safe = m] \in Segment /\ [s EXCEPT !.safe = m].fr = s.fr
    BY Zenon, <1>3, <1>5 DEF Segment
<1> QED BY <1>1, <1>2, <1>3, <1>6, <1>7 DEF LogHeaded

LEMMA AppendHeaded ==
    ASSUME NEW segs, NEW id \in Nat, LogHeaded(segs, id),
           NEW s \in Segment, Headed(s.fr, id)
    PROVE  LogHeaded(Append(segs, s), id) /\ Append(segs, s) # <<>>
BY DEF LogHeaded

LEMMA RotateHeaded ==
    ASSUME NEW segs, NEW id \in Nat, LogHeaded(segs, id), segs # <<>>
    PROVE  LogHeaded(rotateLog(segs, id), id) /\ rotateLog(segs, id) # <<>>
<1>1. LogHeaded(Synced(segs), id)
    BY Zenon, SyncedHeaded
<1>2. NewSegment(id) \in Segment /\ Headed(NewSegment(id).fr, id)
    BY Zenon, NewSegmentHeaded
<1> QED BY Zenon, <1>1, <1>2, AppendHeaded DEF rotateLog

\* Writing s in the place of the last segment.
LEMMA ReplaceHeaded ==
    ASSUME NEW segs, NEW id \in Nat, LogHeaded(segs, id), segs # <<>>,
           NEW s \in Segment, Headed(s.fr, id)
    PROVE  LogHeaded([segs EXCEPT ![Len(segs)] = s], id)
           /\ [segs EXCEPT ![Len(segs)] = s] # <<>>
BY DEF LogHeaded

LEMMA LogHeadedStep ==
    ASSUME NEW segs, NEW id \in Nat, LogHeaded(segs, id), segs # <<>>, NEW c \in Command
    PROVE  LogHeaded(LogCommandTo(segs, c, id), id) /\ LogCommandTo(segs, c, id) # <<>>
<1>1. PICK ss : /\ ss = (IF Len(segs[Len(segs)].fr) + 1 > conf.segMax
                         THEN rotateLog(segs, id) ELSE segs)
                /\ LogHeaded(ss, id) /\ ss # <<>>
    BY Zenon, RotateHeaded
<1>2. LogCommandTo(segs, c, id) = [ss EXCEPT ![Len(ss)].fr = Append(@, c)]
    BY Zenon, <1>1 DEF LogCommandTo
<1>3. Len(ss) \in DOMAIN ss /\ ss \in Seq(Segment)
    BY <1>1 DEF LogHeaded
<1>4. PICK s \in Segment : s = ss[Len(ss)] /\ Headed(s.fr, id)
    BY <1>1, <1>3 DEF LogHeaded
<1>5. c \in Record /\ c.op # "manifest"
    BY Zenon, RecordFacts
<1>6. PICK u : u = [s EXCEPT !.fr = Append(@, c)]
    BY Zenon
<1>7. u \in Segment /\ Headed(u.fr, id)
    <2>1. s.fr \in Seq(Record) /\ s = [fr |-> s.fr, safe |-> s.safe] /\ s.safe \in Nat
        BY Zenon, <1>4 DEF Segment
    <2>2. PICK fr \in Seq(Record) : fr = s.fr
        BY Zenon, <2>1
    <2>3. Append(fr, c) \in Seq(Record)
        BY <1>5
    <2>4. u = [fr |-> Append(fr, c), safe |-> s.safe]
        BY Zenon, <1>6, <2>1, <2>2
    <2>5. u \in Segment /\ u.fr = Append(fr, c)
        BY Zenon, <2>1, <2>3, <2>4 DEF Segment
    <2>6. Headed(fr, id)
        BY Zenon, <1>4, <2>2
    <2> QED BY <1>5, <2>5, <2>6 DEF Headed
<1>8. LogCommandTo(segs, c, id) = [ss EXCEPT ![Len(ss)] = u]
    BY Zenon, <1>2, <1>4, <1>6
<1> QED BY <1>1, <1>7, <1>8, ReplaceHeaded

LEMMA LeftHeaded ==
    ASSUME NEW s \in Segment, NEW id \in Nat, Headed(s.fr, id), NEW u \in Left(s)
    PROVE  u \in Segment /\ Headed(u.fr, id)
<1>0. s.fr \in Seq(Record) /\ s.safe \in Nat
    BY Zenon DEF Segment
<1> DEFINE Torn(n) == {<<>>} \cup (IF conf.tears /\ n < Len(s.fr) THEN {<<TornRecord>>} ELSE {})
           Ending(n, torn, kept) == [fr   |-> SubSeq(s.fr, 1, n) \o torn,
                                     safe |-> IF kept THEN s.safe ELSE n + Len(torn)]
           Ends(n) == {Ending(n, torn, kept) : torn \in Torn(n), kept \in BOOLEAN}
<1>1. Left(s) = UNION {Ends(n) : n \in s.safe .. Len(s.fr)}
    BY DEF Left
<1>2. \A n : Torn(n) \subseteq {<<>>, <<TornRecord>>}
    BY Zenon
<1>3. PICK n \in s.safe .. Len(s.fr) : \E torn \in {<<>>, <<TornRecord>>}, kept \in BOOLEAN :
          u = Ending(n, torn, kept)
    <2> HIDE DEF Torn, Ending
    <2> QED BY <1>1, <1>2
<1>4. PICK torn \in {<<>>, <<TornRecord>>}, kept \in BOOLEAN : u = Ending(n, torn, kept)
    BY Zenon, <1>3
<1>5. PICK fr \in Seq(Record) : fr = s.fr /\ Headed(fr, id)
    BY Zenon, <1>0
<1>6. n \in 0 .. Len(fr)
    BY <1>0, <1>3, <1>5
<1>7. PICK head : head = SubSeq(fr, 1, n)
    BY Zenon
<1>8. head \in Seq(Record) /\ Headed(head, id)
    <2>1. head \in Seq(Record) /\ Len(head) = n /\ \A j \in 1 .. n : head[j] = fr[j]
        BY <1>6, <1>7
    <2> QED BY <1>5, <1>6, <2>1 DEF Headed
<1>9. PICK r \in Record : r = TornRecord /\ r.op # "manifest"
    BY Zenon, RecordFacts
<1>10. torn \in Seq(Record) /\ Len(torn) \in Nat /\ \A j \in DOMAIN torn : torn[j].op # "manifest"
    <2>1. torn = <<>> \/ torn = <<r>>
        BY Zenon, <1>4, <1>9
    <2>2. torn = <<>> => torn \in Seq(Record) /\ Len(torn) = 0 /\ DOMAIN torn = {}
        OBVIOUS
    <2>3. torn = <<r>> => torn \in Seq(Record) /\ Len(torn) = 1 /\ DOMAIN torn = {1} /\ torn[1] = r
        BY <1>9
    <2> QED BY Zenon, <1>9, <2>1, <2>2, <2>3
<1>11. head \o torn \in Seq(Record) /\ Headed(head \o torn, id)
    BY SMTT(30), <1>8, <1>10 DEF Headed
<1>12. PICK m \in Nat : m = (IF kept THEN s.safe ELSE n + Len(torn))
    BY <1>0, <1>6, <1>10
<1>13. u = [fr |-> head \o torn, safe |-> m]
    BY Zenon, <1>4, <1>5, <1>7, <1>12
<1> HIDE DEF Torn, Ending, Ends
<1> QED BY Zenon, <1>11, <1>12, <1>13 DEF Segment

LEMMA CrashHeaded ==
    ASSUME NEW segs, NEW id \in Nat, LogHeaded(segs, id),
           NEW left, DOMAIN left = DOMAIN segs, left = [i \in DOMAIN segs |-> left[i]],
           \A i \in DOMAIN left : left[i] \in Left(segs[i])
    PROVE  LogHeaded(left, id)
<1>1. segs \in Seq(Segment)
    BY Zenon DEF LogHeaded
<1>2. ASSUME NEW i \in DOMAIN segs PROVE left[i] \in Segment /\ Headed(left[i].fr, id)
    <2>1. segs[i] \in Segment /\ Headed(segs[i].fr, id) /\ left[i] \in Left(segs[i])
        BY <1>1 DEF LogHeaded
    <2> QED BY Zenon, <2>1, LeftHeaded
<1>3. left \in Seq(Segment)
    BY <1>1, <1>2
<1> QED BY Zenon, <1>2, <1>3 DEF LogHeaded

LEMMA PreambleInvInit == RecoveryInit => PreambleInv
<1> SUFFICES ASSUME RecoveryInit PROVE PreambleInv
    OBVIOUS
<1>1. PICK segs : segs = (IF conf.legacy = NoCommand THEN <<>>
                          ELSE <<[fr |-> <<conf.legacy>>, safe |-> 1]>>)
    BY Zenon
<1>2. disk = [segs |-> segs, mani |-> NoManifest] /\ conf \in Confs
    BY Zenon, <1>1 DEF RecoveryInit
<1>3. NoManifest.id = 0
    BY Zenon DEF NoManifest
<1>4. LogHeaded(segs, 0)
    <2>1. CASE conf.legacy = NoCommand
        BY <1>1, <2>1 DEF LogHeaded
    <2>2. CASE conf.legacy # NoCommand
        <3>1. PICK c \in Record : c = conf.legacy /\ c.op # "manifest"
            BY Zenon, <1>2, <2>2, ConfsAssumption, RecordFacts
        <3>2. PICK s : s = [fr |-> <<c>>, safe |-> 1]
            BY Zenon
        <3>3. s \in Segment /\ Headed(s.fr, 0)
            BY <3>1, <3>2 DEF Segment, Headed
        <3>4. segs = <<s>>
            BY Zenon, <1>1, <2>2, <3>1, <3>2
        <3> QED BY <3>3, <3>4 DEF LogHeaded
    <2> QED BY Zenon, <2>1, <2>2
<1>5. PICK e, none : srv = [st |-> "down", mani |-> NoManifest, hash |-> 0, store |-> e, subs |-> none]
    BY Zenon DEF RecoveryInit, Down
<1>6. PICK w : w = [st |-> "idle", c |-> NoCommand] /\ pc = [t \in Threads |-> w]
    BY Zenon DEF RecoveryInit, Waiting
<1>7. PICK h, w0 : past = [n |-> 0, crashes |-> 0, hist |-> h, overlap |-> {}, promised |-> {}, want |-> w0]
    BY Zenon DEF RecoveryInit
<1>8. /\ srv = [f \in {"st", "mani", "hash", "store", "subs"} |-> srv[f]]
      /\ srv.st = "down" /\ srv.hash = 0
    BY Zenon, <1>5
<1>9. /\ past = [f \in {"n", "crashes", "hist", "overlap", "promised", "want"} |-> past[f]]
      /\ past.n = 0
    BY Zenon, <1>7
<1>10. /\ pc = [t \in Threads |-> pc[t]]
       /\ \A t \in Threads : pc[t] = [st |-> pc[t].st, c |-> pc[t].c] /\ pc[t].st = "idle"
    BY Zenon, <1>6
<1> QED BY <1>2, <1>3, <1>4, <1>8, <1>9, <1>10 DEF PreambleInv, States

ServerShape(s) == s = [f \in {"st", "mani", "hash", "store", "subs"} |-> s[f]]
PastShape(p) ==
  /\ p = [f \in {"n", "crashes", "hist", "overlap", "promised", "want"} |-> p[f]]
  /\ p.n \in Nat
ThreadsAt(p) ==
  /\ p = [t \in Threads |-> p[t]]
  /\ \A t \in Threads : /\ p[t] = [st |-> p[t].st, c |-> p[t].c]
                        /\ p[t].st # "idle" => p[t].c \in Command

LEMMA Shapes == PreambleInv => ServerShape(srv) /\ PastShape(past) /\ ThreadsAt(pc)
BY Zenon DEF PreambleInv, ServerShape, PastShape, ThreadsAt

\* A step of a server that is up, in which the log stays headed.
LEMMA UpKeeps ==
    ASSUME PreambleInv, conf' = conf, srv.st = "up", srv'.st = "up",
           srv'.hash = srv.hash, ServerShape(srv'), PastShape(past'), ThreadsAt(pc'),
           NEW segs, LogHeaded(segs, disk.mani.id), segs # <<>>,
           disk' = [disk EXCEPT !.segs = segs] \/ (disk' = disk /\ segs = disk.segs)
    PROVE  PreambleInv'
<1>1. disk' = [segs |-> segs, mani |-> disk.mani]
    BY Zenon DEF PreambleInv
<1> QED BY Zenon, <1>1 DEF PreambleInv, States, ServerShape, PastShape, ThreadsAt

\* A step of the start, or a crash, with all threads idle before and after.
LEMMA DownKeeps ==
    ASSUME PreambleInv, conf' = conf, PastShape(past'), ServerShape(srv'), srv'.st \in States,
           ThreadsAt(pc'), \A t \in Threads : pc'[t].st = "idle",
           disk' = [segs |-> disk'.segs, mani |-> disk'.mani], disk'.mani.id \in Nat,
           LogHeaded(disk'.segs, disk'.mani.id),
           srv'.st = "down" => srv'.hash = 0,
           srv'.st \notin {"down", "refused"} => srv'.hash = disk'.mani.id,
           srv'.st \in {"replaying", "restored", "up"} => disk'.segs # <<>>
    PROVE  PreambleInv'
BY Zenon DEF PreambleInv, ServerShape, PastShape, ThreadsAt

LEMMA Renamed ==
    ASSUME NEW O, NEW K, NEW A, NEW D, NEW I,
           NEW m \in [op : O, key : K, at : A, durable : D, id : I], NEW k \in K, NEW i \in I
    PROVE  [m EXCEPT !.id = i, !.key = k] \in [op : O, key : K, at : A, durable : D, id : I]
           /\ m.key \in K
BY Zenon

LEMMA ExecuteKeeps == ASSUME PreambleInv, NEW t \in Threads, Execute(t) PROVE PreambleInv'
<1>0. /\ srv.st = "up" /\ conf' = conf /\ disk' = disk
      /\ ServerShape(srv) /\ PastShape(past) /\ ThreadsAt(pc)
    BY Zenon, Shapes DEF Execute
<1>1. PICK m \in conf.menu :
        ExecuteCommand(t, [m EXCEPT !.id = past.n + 1, !.key = IF IsWatch(m) THEN t ELSE @])
    BY Zenon DEF Execute
<1>2. PICK c : /\ c = [m EXCEPT !.id = past.n + 1, !.key = IF IsWatch(m) THEN t ELSE @]
               /\ ExecuteCommand(t, c)
    BY Zenon, <1>1
<1>3. c \in Command
    <2>1. m \in Command /\ t \in DataKeys \cup Threads
        BY Zenon, ConfsAssumption DEF PreambleInv
    <2>2. PICK n \in Nat : n = past.n + 1
        BY <1>0 DEF PastShape
    <2>3. PICK k : k = IF IsWatch(m) THEN t ELSE m.key
        BY Zenon
    <2>4. m.key \in DataKeys \cup Threads
        BY Zenon, <2>1, <2>2, Renamed DEF Command
    <2>5. c = [m EXCEPT !.id = n, !.key = k] /\ k \in DataKeys \cup Threads
        <3>1. CASE IsWatch(m)
            BY Zenon, <1>2, <2>1, <2>2, <2>3, <3>1
        <3>2. CASE ~IsWatch(m)
            BY Zenon, <1>2, <2>2, <2>3, <2>4, <3>2
        <3> QED BY Zenon, <3>1, <3>2
    <2> QED BY Zenon, <2>1, <2>2, <2>5, Renamed DEF Command
<1>4. ThreadsAt(pc')
    <2>1. PICK w : w = [st |-> "log", c |-> c]
        BY Zenon
    <2>2. w = [st |-> w.st, c |-> w.c] /\ w.c = c
        BY Zenon, <2>1
    <2>3. pc' = [pc EXCEPT ![t] = w]
        BY Zenon, <1>2, <2>1 DEF ExecuteCommand
    <2> QED BY Zenon, <1>0, <1>3, <2>2, <2>3 DEF ThreadsAt
<1>5. ServerShape(srv') /\ srv'.hash = srv.hash /\ srv'.st = srv.st
    <2>1. PICK e : srv' = [srv EXCEPT !.store = e]
        BY Zenon, <1>2 DEF ExecuteCommand
    <2> QED BY Zenon, <1>0, <2>1 DEF ServerShape
<1>6. PastShape(past')
    <2>0. PICK n \in Nat : n = past.n + 1
        BY <1>0 DEF PastShape
    <2>1. CASE IsWatch(c)
        <3>1. PICK e : past' = [past EXCEPT !.n = n, !.want = e]
            BY Zenon, <1>2, <2>0, <2>1 DEF ExecuteCommand
        <3> QED BY Zenon, <1>0, <3>1 DEF PastShape
    <2>2. CASE ~IsWatch(c)
        <3>1. PICK e, o : past' = [past EXCEPT !.n = n, !.hist = e, !.overlap = o]
            BY Zenon, <1>2, <2>0, <2>2 DEF ExecuteCommand
        <3> QED BY Zenon, <1>0, <3>1 DEF PastShape
    <2> QED BY Zenon, <2>1, <2>2
<1>7. LogHeaded(disk.segs, disk.mani.id) /\ disk.segs # <<>>
    BY Zenon, <1>0 DEF PreambleInv
<1> QED BY Zenon, <1>0, <1>4, <1>5, <1>6, <1>7, UpKeeps

LEMMA LogStepKeeps == ASSUME PreambleInv, NEW t \in Threads, LogStep(t) PROVE PreambleInv'
<1>0. /\ conf' = conf /\ srv' = srv /\ past' = past /\ pc[t].st = "log"
      /\ ServerShape(srv) /\ PastShape(past) /\ ThreadsAt(pc)
    BY Zenon, Shapes DEF LogStep
<1>1. /\ srv.st = "up" /\ pc[t].c \in Command /\ srv.hash = disk.mani.id /\ disk.mani.id \in Nat
      /\ LogHeaded(disk.segs, disk.mani.id) /\ disk.segs # <<>>
    BY Zenon, <1>0 DEF PreambleInv
<1>2. PICK segs : segs = LogCommandTo(disk.segs, pc[t].c, srv.hash)
    BY Zenon
<1>3. disk' = [disk EXCEPT !.segs = segs]
    BY Zenon, <1>2 DEF LogStep
<1>4. LogHeaded(segs, disk.mani.id) /\ segs # <<>>
    BY Zenon, <1>1, <1>2, LogHeadedStep
<1>5. ThreadsAt(pc')
    <2>1. PICK w : pc' = [pc EXCEPT ![t] = w]
                   /\ (w = [pc[t] EXCEPT !.st = "sync"] \/ w = [st |-> "idle", c |-> NoCommand])
        BY Zenon DEF LogStep, Waiting
    <2>2. w = [st |-> w.st, c |-> w.c] /\ (w.st # "idle" => w.c \in Command)
        BY <1>0, <1>1, <2>1 DEF ThreadsAt
    <2> QED BY Zenon, <1>0, <2>1, <2>2 DEF ThreadsAt
<1> QED BY Zenon, <1>0, <1>1, <1>3, <1>4, <1>5, UpKeeps

LEMMA SyncStepKeeps == ASSUME PreambleInv, NEW t \in Threads, SyncStep(t) PROVE PreambleInv'
<1>0. /\ conf' = conf /\ pc[t].st = "sync"
      /\ ServerShape(srv) /\ PastShape(past) /\ ThreadsAt(pc)
    BY Zenon, Shapes DEF SyncStep
<1>1. /\ srv.st = "up" /\ disk.mani.id \in Nat
      /\ LogHeaded(disk.segs, disk.mani.id) /\ disk.segs # <<>>
    BY Zenon, <1>0 DEF PreambleInv
<1>2. PICK segs : segs = Synced(disk.segs) /\ disk' = [disk EXCEPT !.segs = segs]
    BY Zenon DEF SyncStep
<1>3. LogHeaded(segs, disk.mani.id) /\ segs # <<>>
    BY Zenon, <1>1, <1>2, SyncedHeaded
<1>4. ThreadsAt(pc')
    <2>1. PICK w : pc' = [pc EXCEPT ![t] = w] /\ w = [st |-> "idle", c |-> NoCommand]
        BY Zenon DEF SyncStep, Waiting
    <2> QED BY Zenon, <1>0, <2>1 DEF ThreadsAt
<1>5. ServerShape(srv') /\ srv'.hash = srv.hash /\ srv'.st = srv.st
    <2>1. PICK e : srv' = [srv EXCEPT !.subs = e]
        BY Zenon DEF SyncStep
    <2> QED BY Zenon, <1>0, <2>1 DEF ServerShape
<1>6. PastShape(past')
    <2>1. CASE IsWatch(pc[t].c)
        <3>1. PICK e : past' = [past EXCEPT !.want = e]
            BY Zenon, <2>1 DEF SyncStep
        <3> QED BY Zenon, <1>0, <3>1 DEF PastShape
    <2>2. CASE ~IsWatch(pc[t].c)
        <3>1. PICK e : past' = [past EXCEPT !.promised = e]
            BY Zenon, <2>2 DEF SyncStep
        <3> QED BY Zenon, <1>0, <3>1 DEF PastShape
    <2> QED BY Zenon, <2>1, <2>2
<1> QED BY Zenon, <1>0, <1>1, <1>2, <1>3, <1>4, <1>5, <1>6, UpKeeps

LEMMA DisconnectKeeps == ASSUME PreambleInv, NEW t \in Threads, Disconnect(t) PROVE PreambleInv'
<1>0. /\ conf' = conf /\ disk' = disk /\ past' = past /\ pc' = pc /\ srv.st = "up"
      /\ ServerShape(srv) /\ PastShape(past) /\ ThreadsAt(pc)
    BY Zenon, Shapes DEF Disconnect
<1>1. LogHeaded(disk.segs, disk.mani.id) /\ disk.segs # <<>>
    BY Zenon, <1>0 DEF PreambleInv
<1>2. ServerShape(srv') /\ srv'.hash = srv.hash /\ srv'.st = srv.st
    <2>1. PICK e : srv' = [srv EXCEPT !.subs = e]
        BY Zenon DEF Disconnect
    <2> QED BY Zenon, <1>0, <2>1 DEF ServerShape
<1> QED BY Zenon, <1>0, <1>1, <1>2, UpKeeps

LEMMA TickerKeeps == ASSUME PreambleInv, Ticker PROVE PreambleInv'
<1>0. /\ conf' = conf /\ srv' = srv /\ past' = past /\ pc' = pc /\ srv.st = "up"
      /\ ServerShape(srv) /\ PastShape(past) /\ ThreadsAt(pc)
    BY Zenon, Shapes DEF Ticker
<1>1. /\ srv.hash = disk.mani.id /\ disk.mani.id \in Nat
      /\ LogHeaded(disk.segs, disk.mani.id) /\ disk.segs # <<>>
    BY Zenon, <1>0 DEF PreambleInv
<1>2. PICK segs : /\ disk' = [disk EXCEPT !.segs = segs]
                  /\ segs = Synced(disk.segs) \/ segs = rotateLog(disk.segs, srv.hash)
    BY Zenon DEF Ticker
<1>3. LogHeaded(segs, disk.mani.id) /\ segs # <<>>
    BY Zenon, <1>1, <1>2, SyncedHeaded, RotateHeaded
<1> QED BY Zenon, <1>0, <1>1, <1>2, <1>3, UpKeeps

LEMMA CrashesKeep == ASSUME PreambleInv, Crashes PROVE PreambleInv'
<1>0. /\ conf' = conf /\ PastShape(past) /\ disk.mani.id \in Nat
      /\ LogHeaded(disk.segs, disk.mani.id) /\ disk = [segs |-> disk.segs, mani |-> disk.mani]
    BY Zenon, Shapes DEF Crashes, PreambleInv
<1>1. PICK segs \in [DOMAIN disk.segs -> UNION {Left(disk.segs[i]) : i \in DOMAIN disk.segs}] :
        /\ \A i \in DOMAIN segs : segs[i] \in Left(disk.segs[i])
        /\ disk' = [disk EXCEPT !.segs = segs]
    BY Zenon DEF Crashes
<1>2. disk' = [segs |-> segs, mani |-> disk.mani]
    BY Zenon, <1>0, <1>1
<1>3. DOMAIN segs = DOMAIN disk.segs /\ segs = [i \in DOMAIN disk.segs |-> segs[i]]
    BY Zenon, <1>1
<1>4. LogHeaded(segs, disk.mani.id)
    BY Zenon, <1>0, <1>1, <1>3, CrashHeaded
<1>5. PICK e, none : srv' = [st |-> "down", mani |-> NoManifest, hash |-> 0, store |-> e, subs |-> none]
    BY Zenon DEF Crashes, Down
<1>6. ServerShape(srv') /\ srv'.st = "down" /\ srv'.hash = 0
    BY Zenon, <1>5 DEF ServerShape
<1>7. PICK w : w = [st |-> "idle", c |-> NoCommand] /\ pc' = [t \in Threads |-> w]
    BY Zenon DEF Crashes, Waiting
<1>8. ThreadsAt(pc') /\ \A t \in Threads : pc'[t].st = "idle"
    BY Zenon, <1>7 DEF ThreadsAt
<1>9. PastShape(past')
    <2>1. PICK n : past' = [past EXCEPT !.crashes = n]
        BY Zenon DEF Crashes
    <2> QED BY Zenon, <1>0, <2>1 DEF PastShape
<1> QED BY Zenon, <1>0, <1>2, <1>4, <1>6, <1>8, <1>9, DownKeeps DEF States

\* The start: the threads are idle while the server is not up.
LEMMA StartingIdle ==
    ASSUME PreambleInv, srv.st # "up", pc' = pc
    PROVE  ThreadsAt(pc') /\ \A t \in Threads : pc'[t].st = "idle"
BY Zenon, Shapes DEF PreambleInv

\* Init's first half: a manifest is only written where there was none, and
\* then no segment has a preamble yet.
LEMMA BootManifestKeeps == ASSUME PreambleInv, BootManifest PROVE PreambleInv'
<1>0. /\ conf' = conf /\ past' = past /\ pc' = pc /\ srv.st = "down" /\ srv.hash = 0
      /\ ServerShape(srv) /\ PastShape(past) /\ disk.mani.id \in Nat
      /\ LogHeaded(disk.segs, disk.mani.id) /\ disk = [segs |-> disk.segs, mani |-> disk.mani]
    BY Zenon, Shapes DEF BootManifest, PreambleInv
<1>1. PICK detected : LoadManifest(detected)
    BY Zenon DEF BootManifest
<1>2. ThreadsAt(pc') /\ \A t \in Threads : pc'[t].st = "idle"
    BY Zenon, <1>0, StartingIdle
<1>3. PICK m : m = [id |-> 1, format |-> detected, enforce |-> conf.enforce]
    BY Zenon
<1>4. \/ disk' = disk /\ srv' = [srv EXCEPT !.st = "refused"]
      \/ disk' = disk /\ srv' = [srv EXCEPT !.st = "opening", !.mani = disk.mani,
                                            !.hash = disk.mani.id]
      \/ /\ disk.mani = NoManifest /\ disk' = [disk EXCEPT !.mani = m]
         /\ srv' = [srv EXCEPT !.st = "opening", !.mani = m, !.hash = 1]
      \/ /\ disk.mani = NoManifest /\ disk' = disk
         /\ \E n : srv' = [srv EXCEPT !.st = "opening", !.mani = n]
    <2>1. CASE disk.mani # NoManifest
        BY Zenon, <1>1, <2>1 DEF LoadManifest
    <2>2. CASE disk.mani = NoManifest /\ conf.require /\ detected # "uwal1"
        BY Zenon, <1>1, <2>2 DEF LoadManifest
    <2>3. CASE disk.mani = NoManifest /\ ~(conf.require /\ detected # "uwal1") /\ conf.auto
        BY Zenon, <1>1, <1>3, <2>3 DEF LoadManifest, SaveManifestAtomic
    <2>4. CASE disk.mani = NoManifest /\ ~(conf.require /\ detected # "uwal1") /\ ~conf.auto
        BY Zenon, <1>1, <2>4 DEF LoadManifest
    <2> QED BY Zenon, <2>1, <2>2, <2>3, <2>4
<1>5. CASE disk' = disk /\ srv' = [srv EXCEPT !.st = "refused"]
    <2>1. ServerShape(srv') /\ srv'.st = "refused"
        BY Zenon, <1>0, <1>5 DEF ServerShape
    <2> QED BY Zenon, <1>0, <1>2, <1>5, <2>1, DownKeeps DEF States
<1>6. CASE disk' = disk /\ srv' = [srv EXCEPT !.st = "opening", !.mani = disk.mani,
                                              !.hash = disk.mani.id]
    <2>1. ServerShape(srv') /\ srv'.st = "opening" /\ srv'.hash = disk.mani.id
        BY Zenon, <1>0, <1>6 DEF ServerShape
    <2> QED BY Zenon, <1>0, <1>2, <1>6, <2>1, DownKeeps DEF States
<1>7. CASE /\ disk.mani = NoManifest /\ disk' = [disk EXCEPT !.mani = m]
           /\ srv' = [srv EXCEPT !.st = "opening", !.mani = m, !.hash = 1]
    <2>1. ServerShape(srv') /\ srv'.st = "opening" /\ srv'.hash = 1
        BY Zenon, <1>0, <1>7 DEF ServerShape
    <2>2. disk' = [segs |-> disk.segs, mani |-> m] /\ m.id = 1
        BY Zenon, <1>0, <1>3, <1>7
    <2>3. disk.mani.id = 0
        BY <1>7 DEF NoManifest
    <2>4. LogHeaded(disk.segs, 1)
        BY Zenon, <1>0, <2>3 DEF LogHeaded, Headed
    <2> QED BY <1>0, <1>2, <2>1, <2>2, <2>4, DownKeeps DEF States
<1>8. CASE /\ disk.mani = NoManifest /\ disk' = disk
           /\ \E n : srv' = [srv EXCEPT !.st = "opening", !.mani = n]
    <2>1. ServerShape(srv') /\ srv'.st = "opening" /\ srv'.hash = 0
        BY Zenon, <1>0, <1>8 DEF ServerShape
    <2>2. disk.mani.id = 0
        BY <1>8 DEF NoManifest
    <2> QED BY Zenon, <1>0, <1>2, <1>8, <2>1, <2>2, DownKeeps DEF States
<1> QED BY Zenon, <1>4, <1>5, <1>6, <1>7, <1>8

\* Init's second half: the new segment, or the empty one, gets the preamble of
\* the manifest that was just loaded.
LEMMA BootOpenKeeps == ASSUME PreambleInv, BootOpen PROVE PreambleInv'
<1>0. /\ conf' = conf /\ past' = past /\ pc' = pc /\ srv.st = "opening" /\ srv.hash = disk.mani.id
      /\ ServerShape(srv) /\ PastShape(past) /\ disk.mani.id \in Nat
      /\ LogHeaded(disk.segs, disk.mani.id) /\ disk = [segs |-> disk.segs, mani |-> disk.mani]
    BY Zenon, Shapes DEF BootOpen, PreambleInv
<1>1. ThreadsAt(pc') /\ \A t \in Threads : pc'[t].st = "idle"
    BY Zenon, <1>0, StartingIdle
<1>2. CASE disk' = disk /\ srv' = [srv EXCEPT !.st = "refused"]
    <2>1. ServerShape(srv') /\ srv'.st = "refused"
        BY Zenon, <1>0, <1>2 DEF ServerShape
    <2> QED BY Zenon, <1>0, <1>1, <1>2, <2>1, DownKeeps DEF States
<1>3. CASE ~PreambleRefused
    <2>1. PICK s \in Segment : s = NewSegment(srv.hash) /\ Headed(s.fr, disk.mani.id)
        BY Zenon, <1>0, NewSegmentHeaded
    <2>2. PICK segs : /\ disk' = [disk EXCEPT !.segs = segs]
                      /\ \/ disk.segs = <<>> /\ segs = <<s>>
                         \/ disk.segs # <<>> /\ segs = [disk.segs EXCEPT ![Len(disk.segs)] = s]
                         \/ disk.segs # <<>> /\ segs = disk.segs
        <3>1. PICK n : n = Len(disk.segs)
            BY Zenon
        <3>2. disk.segs # <<>> <=> n # 0
            BY <1>0, <3>1 DEF LogHeaded
        <3>3. PICK segs : /\ disk' = [disk EXCEPT !.segs = segs]
                          /\ segs = IF n = 0 THEN <<NewSegment(srv.hash)>>
                                    ELSE IF Len(disk.segs[n].fr) = 0
                                    THEN [disk.segs EXCEPT ![n] = NewSegment(srv.hash)]
                                    ELSE disk.segs
            BY Zenon, <1>3, <3>1 DEF BootOpen
        <3> QED BY Zenon, <2>1, <3>1, <3>2, <3>3
    <2>3. LogHeaded(segs, disk.mani.id) /\ segs # <<>>
        <3>1. CASE segs = <<s>>
            BY <2>1, <3>1 DEF LogHeaded
        <3>2. CASE disk.segs # <<>> /\ segs = [disk.segs EXCEPT ![Len(disk.segs)] = s]
            BY Zenon, <1>0, <2>1, <3>2, ReplaceHeaded
        <3> QED BY Zenon, <1>0, <2>2, <3>1, <3>2
    <2>4. disk' = [segs |-> segs, mani |-> disk.mani]
        BY Zenon, <1>0, <2>2
    <2>5. srv' = [srv EXCEPT !.st = "replaying"]
        BY Zenon, <1>3 DEF BootOpen
    <2>6. ServerShape(srv') /\ srv'.st = "replaying" /\ srv'.hash = disk.mani.id
        BY Zenon, <1>0, <2>5 DEF ServerShape
    <2> QED BY Zenon, <1>0, <1>1, <2>3, <2>4, <2>6, DownKeeps DEF States
<1> QED BY Zenon, <1>2, <1>3 DEF BootOpen

\* The replay and the end of the start.
LEMMA BootEndKeeps == ASSUME PreambleInv, BootReplay \/ BootServe PROVE PreambleInv'
<1>0. /\ conf' = conf /\ disk' = disk /\ pc' = pc /\ srv.st \in {"replaying", "restored"}
      /\ ServerShape(srv) /\ PastShape(past)
    BY Zenon, Shapes DEF BootReplay, BootServe
<1>1. /\ LogHeaded(disk.segs, disk.mani.id) /\ disk = [segs |-> disk.segs, mani |-> disk.mani]
      /\ disk.segs # <<>> /\ srv.hash = disk.mani.id /\ disk.mani.id \in Nat
    BY Zenon, <1>0 DEF PreambleInv
<1>2. ThreadsAt(pc') /\ \A t \in Threads : pc'[t].st = "idle"
    BY Zenon, <1>0, StartingIdle
<1>3. ServerShape(srv') /\ srv'.hash = srv.hash /\ srv'.st \in {"restored", "up"}
    <2>1. CASE BootReplay
        <3>1. PICK e, subs : srv' = [srv EXCEPT !.st = "restored", !.store = e, !.subs = subs]
            BY Zenon, <2>1 DEF BootReplay
        <3> QED BY Zenon, <1>0, <3>1 DEF ServerShape
    <2>2. CASE BootServe
        BY Zenon, <1>0, <2>2 DEF BootServe, ServerShape
    <2> QED BY Zenon, <2>1, <2>2
<1>4. PastShape(past')
    <2>1. CASE BootReplay
        BY Zenon, <1>0, <2>1 DEF BootReplay
    <2>2. CASE BootServe
        <3>1. PICK h : past' = [past EXCEPT !.overlap = {}, !.hist = h]
            BY Zenon, <2>2 DEF BootServe
        <3> QED BY Zenon, <1>0, <3>1 DEF PastShape
    <2> QED BY Zenon, <2>1, <2>2
<1> QED BY Zenon, <1>0, <1>1, <1>2, <1>3, <1>4, DownKeeps DEF States

LEMMA PreambleInvStep == PreambleInv /\ [RecoveryNext]_rvars => PreambleInv'
<1> SUFFICES ASSUME PreambleInv, [RecoveryNext]_rvars PROVE PreambleInv'
    OBVIOUS
<1>1. ASSUME NEW t \in Threads, Execute(t) \/ LogStep(t) \/ SyncStep(t) \/ Disconnect(t)
      PROVE  PreambleInv'
    BY Zenon, <1>1, ExecuteKeeps, LogStepKeeps, SyncStepKeeps, DisconnectKeeps
<1>2. CASE ClockTick \/ UNCHANGED rvars
    BY Zenon, <1>2 DEF ClockTick, rvars, PreambleInv
<1>3. CASE Ticker
    BY Zenon, <1>3, TickerKeeps
<1>4. CASE Crashes
    BY Zenon, <1>4, CrashesKeep
<1>5. CASE BootManifest \/ BootOpen \/ BootReplay \/ BootServe
    BY Zenon, <1>5, BootManifestKeeps, BootOpenKeeps, BootEndKeeps
<1> QED BY Zenon, <1>1, <1>2, <1>3, <1>4, <1>5 DEF RecoveryNext

LEMMA PreambleInvariant == RecoverySpec => []PreambleInv
<1> QED BY PreambleInvInit, PreambleInvStep, PTL DEF RecoverySpec

\* For every configuration, any number of threads, commands, rotations and
\* crashes: a preamble is the first record of its segment and names the
\* manifest that is on disk (writeManifestPreambleLocked, LoadManifest).
THEOREM PreamblesNameManifest == RecoverySpec => []PreambleIsManifest
<1>1. PreambleInv => PreambleIsManifest
    BY Zenon DEF PreambleInv, LogHeaded, Headed, PreambleIsManifest
<1> QED BY <1>1, PreambleInvariant, PTL

\* A start that got past the manifest is never refused for the preamble of the
\* first segment, however strict (verifyManifestPreambleIfPresent): the log
\* and the manifest cannot come apart by crashes and restarts alone.
THEOREM PreambleNeverRefuses == RecoverySpec => [](srv.st = "opening" => ~PreambleRefused)
<1>1. PreambleInv => (srv.st = "opening" => ~PreambleRefused)
    <2> SUFFICES ASSUME PreambleInv, srv.st = "opening", PreambleRefused PROVE FALSE
        BY Zenon
    <2>1. /\ disk.segs \in Seq(Segment) /\ Headed(disk.segs[1].fr, disk.mani.id)
          /\ 1 \in DOMAIN disk.segs /\ srv.hash = disk.mani.id
        BY DEF PreambleInv, LogHeaded, PreambleRefused
    <2>2. 1 \in DOMAIN disk.segs[1].fr
        BY <2>1 DEF PreambleRefused, Whole, Segment
    <2> QED BY Zenon, <2>1, <2>2 DEF Headed, PreambleRefused
<1> QED BY <1>1, PreambleInvariant, PTL
-----------------------------------------------------------------------------

(* The leader gate *)

(***************************************************************************)
(* Durability: what was answered as durable is in the fsynced part of the  *)
(* log, and what a restart makes of it.                                    *)
(***************************************************************************)
\* Record j of segment i is c and, when c is a watch or unwatch, it is the
\* last one of its client.
Holds(segs, c, i, j) ==
  /\ i \in DOMAIN segs /\ j \in DOMAIN segs[i].fr /\ segs[i].fr[j] = c
  /\ IsWatch(c) => \A k \in DOMAIN segs : \A l \in DOMAIN segs[k].fr :
       (i < k \/ (i = k /\ j < l)) => ~(IsWatch(segs[k].fr[l]) /\ segs[k].fr[l].key = c.key)

InLog(segs, c)  == \E i, j \in Nat : Holds(segs, c, i, j)
OnDisk(segs, c) == \E i, j \in Nat : Holds(segs, c, i, j) /\ j <= segs[i].safe

\* Every segment but the last one is fsynced as a whole: rotateLog syncs it.
Sealed(segs) ==
  /\ segs \in Seq(Segment)
  /\ \A i \in DOMAIN segs : /\ segs[i].safe <= Len(segs[i].fr)
                            /\ i < Len(segs) => segs[i].safe = Len(segs[i].fr)

\* The fsynced records of old are where they were in new, and fsynced.
Keeps(old, new) ==
  \A i \in DOMAIN old : \A j \in DOMAIN old[i].fr : j <= old[i].safe =>
    i \in DOMAIN new /\ j \in DOMAIN new[i].fr /\ new[i].fr[j] = old[i].fr[j] /\ j <= new[i].safe

\* All records of old are where they were.
KeepsAll(old, new) ==
  \A i \in DOMAIN old : \A j \in DOMAIN old[i].fr :
    i \in DOMAIN new /\ j \in DOMAIN new[i].fr /\ new[i].fr[j] = old[i].fr[j]

\* Watches and unwatches that are only in new are by clients in K.
AddsOnly(old, new, K) ==
  \A i \in DOMAIN new : \A j \in DOMAIN new[i].fr :
    (IsWatch(new[i].fr[j]) /\ new[i].fr[j].key \notin K) =>
      i \in DOMAIN old /\ j \in DOMAIN old[i].fr /\ old[i].fr[j] = new[i].fr[j]

LEMMA SegmentFacts ==
    ASSUME NEW s \in Segment
    PROVE  /\ s = [fr |-> s.fr, safe |-> s.safe] /\ s.fr \in Seq(Record) /\ s.safe \in Nat
           /\ Len(s.fr) \in Nat /\ DOMAIN s.fr = 1 .. Len(s.fr)
<1>1. s = [fr |-> s.fr, safe |-> s.safe] /\ s.fr \in Seq(Record) /\ s.safe \in Nat
    BY Zenon DEF Segment
<1> QED BY <1>1

LEMMA StaysOnDisk ==
    ASSUME NEW old, NEW new, NEW K, Keeps(old, new), AddsOnly(old, new, K),
           NEW c, OnDisk(old, c), IsWatch(c) => c.key \notin K
    PROVE  OnDisk(new, c)
<1>1. PICK i \in Nat, j \in Nat : Holds(old, c, i, j) /\ j <= old[i].safe
    BY Zenon DEF OnDisk
<1>2. /\ i \in DOMAIN old /\ j \in DOMAIN old[i].fr /\ old[i].fr[j] = c
      /\ i \in DOMAIN new /\ j \in DOMAIN new[i].fr /\ new[i].fr[j] = c /\ j <= new[i].safe
    BY Zenon, <1>1 DEF Holds, Keeps
<1>3. ASSUME IsWatch(c), NEW k \in DOMAIN new, NEW l \in DOMAIN new[k].fr, i < k \/ (i = k /\ j < l),
             IsWatch(new[k].fr[l]), new[k].fr[l].key = c.key
      PROVE  FALSE
    <2>1. k \in DOMAIN old /\ l \in DOMAIN old[k].fr /\ old[k].fr[l] = new[k].fr[l]
        BY Zenon, <1>3 DEF AddsOnly
    <2> QED BY Zenon, <1>1, <1>3, <2>1 DEF Holds
<1>4. Holds(new, c, i, j)
    BY Zenon, <1>2, <1>3 DEF Holds
<1> QED BY Zenon, <1>2, <1>4 DEF OnDisk

LEMMA StaysInLog ==
    ASSUME NEW old, NEW new, NEW K, KeepsAll(old, new), AddsOnly(old, new, K),
           NEW c, InLog(old, c), IsWatch(c) => c.key \notin K
    PROVE  InLog(new, c)
<1>1. PICK i \in Nat, j \in Nat : Holds(old, c, i, j)
    BY Zenon DEF InLog
<1>2. /\ i \in DOMAIN old /\ j \in DOMAIN old[i].fr /\ old[i].fr[j] = c
      /\ i \in DOMAIN new /\ j \in DOMAIN new[i].fr /\ new[i].fr[j] = c
    BY Zenon, <1>1 DEF Holds, KeepsAll
<1>3. ASSUME IsWatch(c), NEW k \in DOMAIN new, NEW l \in DOMAIN new[k].fr, i < k \/ (i = k /\ j < l),
             IsWatch(new[k].fr[l]), new[k].fr[l].key = c.key
      PROVE  FALSE
    <2>1. k \in DOMAIN old /\ l \in DOMAIN old[k].fr /\ old[k].fr[l] = new[k].fr[l]
        BY Zenon, <1>3 DEF AddsOnly
    <2> QED BY Zenon, <1>1, <1>3, <2>1 DEF Holds
<1>4. Holds(new, c, i, j)
    BY Zenon, <1>2, <1>3 DEF Holds
<1> QED BY Zenon, <1>4 DEF InLog

\* A sync puts all of the log on disk.
LEMMA SyncedKeeps ==
    ASSUME NEW segs, Sealed(segs), segs # <<>>
    PROVE  /\ Sealed(Synced(segs)) /\ Synced(segs) # <<>> /\ Len(Synced(segs)) = Len(segs)
           /\ Keeps(segs, Synced(segs)) /\ KeepsAll(segs, Synced(segs)) /\ AddsOnly(segs, Synced(segs), {})
           /\ \A i \in DOMAIN Synced(segs) : Synced(segs)[i].safe = Len(Synced(segs)[i].fr)
<1>1. segs \in Seq(Segment) /\ Len(segs) \in DOMAIN segs
    BY DEF Sealed
<1>2. PICK n \in DOMAIN segs : n = Len(segs)
    BY Zenon, <1>1
<1>3. PICK s \in Segment : s = segs[n]
    BY <1>1, <1>2
<1>4. Len(s.fr) \in Nat
    BY <1>3 DEF Segment
<1>5. PICK m \in Nat : m = Len(s.fr)
    BY Zenon, <1>4
<1>6. PICK new : new = [segs EXCEPT ![n].safe = m] /\ new = Synced(segs)
    BY Zenon, <1>2, <1>3, <1>5 DEF Synced
<1>7. PICK u \in Segment : u = [s EXCEPT !.safe = m] /\ u.fr = s.fr /\ u.safe = m
    <2>1. [s EXCEPT !.safe = m] = [fr |-> s.fr, safe |-> m]
        <3>1. PICK a, b : s = [fr |-> a, safe |-> b]
            BY Zenon, <1>3, SegmentFacts
        <3>2. s.fr = a /\ [s EXCEPT !.safe = m] = [fr |-> a, safe |-> m]
            BY <3>1
        <3> QED BY Zenon, <3>2
    <2>2. s.fr \in Seq(Record)
        BY Zenon, <1>3, SegmentFacts
    <2>3. PICK u : u = [fr |-> s.fr, safe |-> m]
        BY Zenon
    <2> QED BY Zenon, <2>1, <2>2, <2>3 DEF Segment
<1>8. new = [segs EXCEPT ![n] = u]
    BY Zenon, <1>3, <1>6, <1>7
<1>9. /\ new \in Seq(Segment) /\ Len(new) = n /\ DOMAIN new = DOMAIN segs /\ new # <<>>
      /\ new[n] = u /\ \A i \in DOMAIN segs : i # n => new[i] = segs[i]
    BY <1>1, <1>2, <1>8
<1>10. \A i \in DOMAIN segs : new[i].fr = segs[i].fr
    BY Zenon, <1>3, <1>7, <1>9
<1>11. ASSUME NEW i \in DOMAIN segs
       PROVE  segs[i].safe <= new[i].safe /\ new[i].safe = Len(new[i].fr)
    <2>1. segs[i] \in Segment /\ segs[i].safe \in Nat /\ Len(segs[i].fr) \in Nat
        <3>1. segs[i] \in Segment
            BY <1>1
        <3> QED BY Zenon, <3>1, SegmentFacts
    <2>2. segs[i].safe <= Len(segs[i].fr) /\ (i < Len(segs) => segs[i].safe = Len(segs[i].fr))
        BY Zenon DEF Sealed
    <2>3. CASE i = n
        BY Zenon, <1>3, <1>5, <1>7, <1>9, <2>2, <2>3
    <2>4. CASE i # n
        <3>1. i < Len(segs)
            BY <1>1, <1>2, <2>4
        <3> QED BY <1>9, <2>1, <2>2, <2>4, <3>1
    <2> QED BY Zenon, <2>3, <2>4
<1>12. KeepsAll(segs, new) /\ AddsOnly(segs, new, {})
    BY Zenon, <1>9, <1>10 DEF KeepsAll, AddsOnly
<1>13. Keeps(segs, new)
    <2>1. ASSUME NEW i \in DOMAIN segs, NEW j \in DOMAIN segs[i].fr, j <= segs[i].safe
          PROVE  j <= new[i].safe
        <3>1. segs[i] \in Segment /\ new[i] \in Segment
            BY <1>1, <1>9
        <3>2. segs[i].safe \in Nat /\ new[i].safe \in Nat /\ j \in 1 .. Len(segs[i].fr)
            BY Zenon, <3>1, SegmentFacts
        <3> QED BY <1>11, <2>1, <3>2
    <2> QED BY Zenon, <1>9, <1>10, <2>1 DEF Keeps
<1>14. Sealed(new)
    <2>1. ASSUME NEW i \in DOMAIN new PROVE new[i].safe <= Len(new[i].fr) /\ new[i].safe = Len(new[i].fr)
        <3>1. new[i] \in Segment
            BY <1>9
        <3>2. new[i].safe \in Nat
            BY <3>1 DEF Segment
        <3> QED BY <1>9, <1>11, <3>2
    <2> QED BY Zenon, <1>9, <2>1 DEF Sealed
<1> QED BY Zenon, <1>2, <1>6, <1>9, <1>11, <1>12, <1>13, <1>14

\* A new segment goes behind the synced ones.
LEMMA AppendKeeps ==
    ASSUME NEW segs, Sealed(segs), \A i \in DOMAIN segs : segs[i].safe = Len(segs[i].fr),
           NEW s \in Segment, s.safe <= Len(s.fr), \A j \in DOMAIN s.fr : ~IsWatch(s.fr[j])
    PROVE  /\ Sealed(Append(segs, s)) /\ Append(segs, s) # <<>>
           /\ Keeps(segs, Append(segs, s)) /\ KeepsAll(segs, Append(segs, s))
           /\ AddsOnly(segs, Append(segs, s), {})
<1>1. PICK n \in Nat : n = Len(segs) /\ DOMAIN segs = 1 .. n /\ segs \in Seq(Segment)
    BY DEF Sealed
<1>2. PICK new : new = Append(segs, s)
    BY Zenon
<1>3. /\ new \in Seq(Segment) /\ DOMAIN new = 1 .. n + 1 /\ Len(new) = n + 1 /\ new # <<>>
      /\ new[n + 1] = s /\ \A i \in DOMAIN segs : i \in DOMAIN new /\ new[i] = segs[i]
    BY <1>1, <1>2
<1>4. \A i \in DOMAIN new : i \in DOMAIN segs \/ (i = n + 1 /\ new[i] = s)
    BY <1>1, <1>3
<1>5. Keeps(segs, new) /\ KeepsAll(segs, new)
    BY Zenon, <1>3 DEF Keeps, KeepsAll
<1>6. AddsOnly(segs, new, {})
    BY Zenon, <1>3, <1>4 DEF AddsOnly
<1>7. Sealed(new)
    <2>1. ASSUME NEW i \in DOMAIN new
          PROVE  /\ new[i].safe <= Len(new[i].fr)
                 /\ i < Len(new) => new[i].safe = Len(new[i].fr)
        <3>1. CASE i \in DOMAIN segs
            BY Zenon, <1>3, <3>1 DEF Sealed
        <3>2. CASE i = n + 1 /\ new[i] = s
            <4>1. ~(n + 1 < n + 1)
                BY <1>1
            <4> QED BY Zenon, <1>3, <3>2, <4>1
        <3> QED BY Zenon, <1>4, <3>1, <3>2
    <2> QED BY Zenon, <1>3, <2>1 DEF Sealed
<1> QED BY Zenon, <1>2, <1>3, <1>5, <1>6, <1>7

\* Writing u over the last segment, when its records start with those of it.
LEMMA ReplaceKeeps ==
    ASSUME NEW segs, Sealed(segs), segs # <<>>, NEW u \in Segment, NEW K,
           u.safe = segs[Len(segs)].safe, u.safe <= Len(u.fr),
           \A j \in DOMAIN segs[Len(segs)].fr : j \in DOMAIN u.fr /\ u.fr[j] = segs[Len(segs)].fr[j],
           \A j \in DOMAIN u.fr : IsWatch(u.fr[j]) =>
             (u.fr[j].key \in K \/ (j \in DOMAIN segs[Len(segs)].fr /\ u.fr[j] = segs[Len(segs)].fr[j]))
    PROVE  LET new == [segs EXCEPT ![Len(segs)] = u]
           IN  /\ Sealed(new) /\ new # <<>> /\ Len(new) = Len(segs)
               /\ Keeps(segs, new) /\ KeepsAll(segs, new) /\ AddsOnly(segs, new, K)
<1>1. PICK n \in Nat : n = Len(segs) /\ DOMAIN segs = 1 .. n /\ segs \in Seq(Segment) /\ n \in DOMAIN segs
    BY DEF Sealed
<1>2. PICK new : new = [segs EXCEPT ![n] = u]
    BY Zenon
<1>3. /\ new \in Seq(Segment) /\ DOMAIN new = DOMAIN segs /\ Len(new) = n /\ new # <<>>
      /\ new[n] = u /\ \A i \in DOMAIN segs : i # n => new[i] = segs[i]
    BY <1>1, <1>2
<1>4. PICK s : s = segs[n] /\ u.safe = s.safe /\ \A j \in DOMAIN s.fr : j \in DOMAIN u.fr /\ u.fr[j] = s.fr[j]
    BY Zenon, <1>1
<1>5. Keeps(segs, new) /\ KeepsAll(segs, new)
    <2>1. ASSUME NEW i \in DOMAIN segs, NEW j \in DOMAIN segs[i].fr
          PROVE  /\ i \in DOMAIN new /\ j \in DOMAIN new[i].fr /\ new[i].fr[j] = segs[i].fr[j]
                 /\ new[i].safe = segs[i].safe
        BY Zenon, <1>3, <1>4
    <2> QED BY Zenon, <2>1 DEF Keeps, KeepsAll
<1>6. AddsOnly(segs, new, K)
    BY Zenon, <1>1, <1>3 DEF AddsOnly
<1>7. Sealed(new)
    <2>1. ASSUME NEW i \in DOMAIN new
          PROVE  /\ new[i].safe <= Len(new[i].fr)
                 /\ i < Len(new) => new[i].safe = Len(new[i].fr)
        <3>1. CASE i # n
            BY Zenon, <1>1, <1>3, <3>1 DEF Sealed
        <3>2. CASE i = n
            <4>1. ~(n < n)
                BY <1>1
            <4> QED BY Zenon, <1>3, <3>2, <4>1
        <3> QED BY Zenon, <3>1, <3>2
    <2> QED BY Zenon, <1>3, <2>1 DEF Sealed
<1> QED BY Zenon, <1>1, <1>2, <1>3, <1>5, <1>6, <1>7

LEMMA WatchFacts ==
    /\ ~IsWatch(TornRecord) /\ ~IsWatch(NoCommand) /\ \A h \in Nat : ~IsWatch(Preamble(h))
<1>1. ASSUME NEW b, NEW h
      PROVE  LET r == [op |-> "none", key |-> "none", at |-> 0, durable |-> b, id |-> 0]
             IN  /\ r.op = "none"
                 /\ [r EXCEPT !.op = "torn"].op = "torn"
                 /\ [r EXCEPT !.op = "manifest", !.id = h].op = "manifest"
    BY Zenon
<1>2. /\ NoCommand.op = "none" /\ TornRecord.op = "torn"
      /\ \A h \in Nat : Preamble(h).op = "manifest"
    BY Zenon, <1>1 DEF NoCommand, TornRecord, Preamble
<1> QED BY Zenon, <1>2 DEF IsWatch

LEMMA NewSegmentKeeps ==
    ASSUME NEW h \in Nat
    PROVE  LET s == NewSegment(h)
           IN  s \in Segment /\ s.safe = 0 /\ s.safe <= Len(s.fr) /\ \A j \in DOMAIN s.fr : ~IsWatch(s.fr[j])
<1>1. PICK s \in Segment : s = NewSegment(h)
    BY Zenon, NewSegmentHeaded
<1>2. s.safe = 0
    BY Zenon, <1>1 DEF NewSegment
<1>3. 0 <= Len(s.fr)
    <2>1. Len(s.fr) \in Nat
        BY Zenon, <1>1, SegmentFacts
    <2> QED BY <2>1
<1>4. ASSUME NEW j \in DOMAIN s.fr PROVE ~IsWatch(s.fr[j])
    <2>1. CASE h = 0
        <3>1. s.fr = <<>>
            BY Zenon, <1>1, <2>1 DEF NewSegment
        <3> QED BY <3>1
    <2>2. CASE h # 0
        <3>1. PICK r : r = Preamble(h) /\ ~IsWatch(r)
            BY Zenon, WatchFacts
        <3>2. s.fr = <<r>>
            BY Zenon, <1>1, <2>2, <3>1 DEF NewSegment
        <3>3. s.fr[j] = r
            BY <3>2
        <3> QED BY Zenon, <3>1, <3>3
    <2> QED BY Zenon, <2>1, <2>2
<1> QED BY Zenon, <1>1, <1>2, <1>3, <1>4

LEMMA KeepsTransitive ==
    ASSUME NEW a, NEW b, NEW c, NEW K, AddsOnly(a, b, {}), AddsOnly(b, c, K)
    PROVE  /\ Keeps(a, b) /\ Keeps(b, c) => Keeps(a, c)
           /\ KeepsAll(a, b) /\ KeepsAll(b, c) => KeepsAll(a, c)
           /\ AddsOnly(a, c, K)
<1>1. Keeps(a, b) /\ Keeps(b, c) => Keeps(a, c)
    BY Zenon DEF Keeps
<1>2. KeepsAll(a, b) /\ KeepsAll(b, c) => KeepsAll(a, c)
    BY Zenon DEF KeepsAll
<1>3. AddsOnly(a, c, K)
    <2> SUFFICES ASSUME NEW i \in DOMAIN c, NEW j \in DOMAIN c[i].fr,
                        IsWatch(c[i].fr[j]), c[i].fr[j].key \notin K
                 PROVE  i \in DOMAIN a /\ j \in DOMAIN a[i].fr /\ a[i].fr[j] = c[i].fr[j]
        BY Zenon DEF AddsOnly
    <2>1. i \in DOMAIN b /\ j \in DOMAIN b[i].fr /\ b[i].fr[j] = c[i].fr[j]
        BY Zenon DEF AddsOnly
    <2> QED BY Zenon, <2>1 DEF AddsOnly
<1> QED BY Zenon, <1>1, <1>2, <1>3

LEMMA RotateKeeps ==
    ASSUME NEW segs, Sealed(segs), segs # <<>>, NEW h \in Nat
    PROVE  LET new == rotateLog(segs, h)
           IN  Sealed(new) /\ new # <<>> /\ Keeps(segs, new) /\ KeepsAll(segs, new) /\ AddsOnly(segs, new, {})
<1>1. PICK mid : /\ mid = Synced(segs) /\ Sealed(mid) /\ Keeps(segs, mid) /\ KeepsAll(segs, mid)
                 /\ AddsOnly(segs, mid, {}) /\ \A i \in DOMAIN mid : mid[i].safe = Len(mid[i].fr)
    BY ZenonT(40), SyncedKeeps
<1>2. PICK s \in Segment : /\ s = NewSegment(h) /\ s.safe <= Len(s.fr)
                           /\ \A j \in DOMAIN s.fr : ~IsWatch(s.fr[j])
    BY Zenon, NewSegmentKeeps
<1>3. PICK new : new = Append(mid, s) /\ new = rotateLog(segs, h)
    BY Zenon, <1>1, <1>2 DEF rotateLog
<1>4. Sealed(new) /\ new # <<>> /\ Keeps(mid, new) /\ KeepsAll(mid, new) /\ AddsOnly(mid, new, {})
    BY Zenon, <1>1, <1>2, <1>3, AppendKeeps
<1> QED BY Zenon, <1>1, <1>3, <1>4, KeepsTransitive

\* LogCommand: the record is the last one of the log.
LEMMA LogKeeps ==
    ASSUME NEW segs, Sealed(segs), segs # <<>>, NEW h \in Nat, NEW c \in Command
    PROVE  LET new == LogCommandTo(segs, c, h)
           IN  /\ Sealed(new) /\ new # <<>> /\ Keeps(segs, new) /\ KeepsAll(segs, new)
               /\ AddsOnly(segs, new, {c.key}) /\ (~IsWatch(c) => AddsOnly(segs, new, {}))
               /\ InLog(new, c)
<1>1. PICK ss : /\ ss = (IF Len(segs[Len(segs)].fr) + 1 > conf.segMax
                         THEN rotateLog(segs, h) ELSE segs)
                /\ Sealed(ss) /\ ss # <<>>
                /\ Keeps(segs, ss) /\ KeepsAll(segs, ss) /\ AddsOnly(segs, ss, {})
    <2>1. Keeps(segs, segs) /\ KeepsAll(segs, segs) /\ AddsOnly(segs, segs, {})
        BY Zenon DEF Keeps, KeepsAll, AddsOnly
    <2> QED BY Zenon, <2>1, RotateKeeps
<1>2. PICK n \in Nat : n = Len(ss) /\ n \in DOMAIN ss /\ DOMAIN ss = 1 .. n /\ ss \in Seq(Segment)
    BY <1>1 DEF Sealed
<1>3. PICK s \in Segment : s = ss[n]
    BY <1>2
<1>4. s.fr \in Seq(Record) /\ s = [fr |-> s.fr, safe |-> s.safe] /\ s.safe \in Nat
    BY Zenon, <1>3, SegmentFacts
<1>5. PICK fr \in Seq(Record) : fr = s.fr
    BY Zenon, <1>4
<1>6. c \in Record
    BY Zenon, RecordFacts
<1>7. PICK u : u = [fr |-> Append(fr, c), safe |-> s.safe]
    BY Zenon
<1>8. PICK new : new = LogCommandTo(segs, c, h) /\ new = [ss EXCEPT ![n] = u]
    <2>1. LogCommandTo(segs, c, h) = [ss EXCEPT ![n].fr = Append(@, c)]
        BY Zenon, <1>1, <1>2 DEF LogCommandTo
    <2>2. [s EXCEPT !.fr = Append(@, c)] = u
        <3>1. PICK v : v = Append(s.fr, c)
            BY Zenon
        <3>2. [s EXCEPT !.fr = v] = [fr |-> v, safe |-> s.safe]
            BY DEF Segment
        <3>3. [s EXCEPT !.fr = Append(@, c)] = [s EXCEPT !.fr = v]
            BY Zenon, <3>1
        <3> QED BY Zenon, <1>5, <1>7, <3>1, <3>2, <3>3
    <2> QED BY Zenon, <1>3, <2>1, <2>2
<1>9. /\ Append(fr, c) \in Seq(Record) /\ Len(Append(fr, c)) = Len(fr) + 1 /\ Len(fr) \in Nat
      /\ DOMAIN Append(fr, c) = 1 .. Len(fr) + 1 /\ Append(fr, c)[Len(fr) + 1] = c
      /\ \A j \in DOMAIN fr : j \in DOMAIN Append(fr, c) /\ Append(fr, c)[j] = fr[j]
      /\ \A j \in DOMAIN Append(fr, c) : j \in DOMAIN fr \/ j = Len(fr) + 1
    BY <1>5, <1>6
<1>10. u \in Segment /\ u.fr = Append(fr, c) /\ u.safe = s.safe
    BY Zenon, <1>4, <1>7, <1>9 DEF Segment
<1>11. u.safe <= Len(u.fr)
    <2>1. s.safe <= Len(fr)
        BY Zenon, <1>1, <1>2, <1>3, <1>5 DEF Sealed
    <2> QED BY <1>4, <1>9, <1>10, <2>1
<1>12. ASSUME NEW K, IsWatch(c) => c.key \in K
       PROVE  Sealed(new) /\ new # <<>> /\ Keeps(segs, new) /\ KeepsAll(segs, new) /\ AddsOnly(segs, new, K)
    <2>1. /\ u.safe = ss[Len(ss)].safe
          /\ \A j \in DOMAIN ss[Len(ss)].fr : j \in DOMAIN u.fr /\ u.fr[j] = ss[Len(ss)].fr[j]
        BY Zenon, <1>2, <1>3, <1>5, <1>9, <1>10
    <2>2. ASSUME NEW j \in DOMAIN u.fr, IsWatch(u.fr[j])
          PROVE  u.fr[j].key \in K \/ (j \in DOMAIN ss[Len(ss)].fr /\ u.fr[j] = ss[Len(ss)].fr[j])
        BY ZenonT(40), <1>2, <1>3, <1>5, <1>9, <1>10, <1>12, <2>2
    <2>3. /\ Sealed(new) /\ new # <<>> /\ Keeps(ss, new) /\ KeepsAll(ss, new) /\ AddsOnly(ss, new, K)
        <3>1. \A j \in DOMAIN u.fr : IsWatch(u.fr[j]) =>
                (u.fr[j].key \in K \/ (j \in DOMAIN ss[Len(ss)].fr /\ u.fr[j] = ss[Len(ss)].fr[j]))
            BY Zenon, <2>2
        <3>2. new = [ss EXCEPT ![Len(ss)] = u] /\ Sealed(ss) /\ ss # <<>>
            BY Zenon, <1>1, <1>2, <1>8
        <3> HIDE <1>1, <1>2, <1>8, <1>10, <1>12
        <3> QED BY Zenon, <1>10, <1>11, <2>1, <3>1, <3>2, ReplaceKeeps
    <2> QED BY Zenon, <1>1, <2>3, KeepsTransitive
<1>13. InLog(new, c)
    <2>1. DOMAIN new = 1 .. n /\ new[n] = u
        BY <1>2, <1>8
    <2>2. PICK m \in Nat : m = Len(fr) + 1 /\ DOMAIN u.fr = 1 .. m /\ u.fr[m] = c /\ m \in DOMAIN u.fr
        BY <1>9, <1>10
    <2>3. ASSUME NEW k \in DOMAIN new, NEW l \in DOMAIN new[k].fr PROVE ~(n < k \/ (n = k /\ m < l))
        <3>1. ~(n < k)
            BY <1>2, <2>1
        <3>2. CASE n = k
            <4>1. l \in 1 .. m
                BY Zenon, <2>1, <2>2, <2>3, <3>2
            <4> QED BY <1>2, <2>2, <3>2, <4>1
        <3> QED BY Zenon, <3>1, <3>2
    <2>4. Holds(new, c, n, m)
        BY Zenon, <1>2, <2>1, <2>2, <2>3 DEF Holds
    <2> QED BY Zenon, <1>2, <2>2, <2>4 DEF InLog
<1> QED BY Zenon, <1>8, <1>12, <1>13

\* What a crash leaves of a segment.
LEMMA LeftKeeps ==
    ASSUME NEW s \in Segment, s.safe <= Len(s.fr), NEW u \in Left(s)
    PROVE  /\ u \in Segment /\ u.safe <= Len(u.fr) /\ s.safe <= u.safe
           /\ \A j \in DOMAIN s.fr : j <= s.safe => j \in DOMAIN u.fr /\ u.fr[j] = s.fr[j]
           /\ \A j \in DOMAIN u.fr : IsWatch(u.fr[j]) => j \in DOMAIN s.fr /\ s.fr[j] = u.fr[j]
           /\ s.safe = Len(s.fr) => u.safe = Len(u.fr)
<1>0. s.fr \in Seq(Record) /\ s.safe \in Nat
    BY Zenon, SegmentFacts
<1> DEFINE Torn(n) == {<<>>} \cup (IF conf.tears /\ n < Len(s.fr) THEN {<<TornRecord>>} ELSE {})
           Ending(n, torn, kept) == [fr   |-> SubSeq(s.fr, 1, n) \o torn,
                                     safe |-> IF kept THEN s.safe ELSE n + Len(torn)]
           Ends(n) == {Ending(n, torn, kept) : torn \in Torn(n), kept \in BOOLEAN}
<1>1. Left(s) = UNION {Ends(n) : n \in s.safe .. Len(s.fr)}
    BY DEF Left
<1>2. PICK n \in s.safe .. Len(s.fr) : \E torn \in Torn(n), kept \in BOOLEAN :
          u = Ending(n, torn, kept)
    <2> HIDE DEF Torn, Ending
    <2> QED BY <1>1
<1>3. PICK torn \in Torn(n), kept \in BOOLEAN : u = Ending(n, torn, kept)
    BY Zenon, <1>2
<1>4. PICK fr \in Seq(Record) : fr = s.fr
    BY Zenon, <1>0
<1>5. PICK r \in Record : r = TornRecord /\ ~IsWatch(r)
    BY Zenon, RecordFacts, WatchFacts
<1>6. torn = <<>> \/ (torn = <<r>> /\ n < Len(fr))
    BY Zenon, <1>3, <1>4, <1>5
<1>7. n \in 0 .. Len(fr) /\ s.safe <= n /\ n \in Nat /\ Len(fr) \in Nat
    BY <1>0, <1>2, <1>4
<1>8. PICK b : b = SubSeq(fr, 1, n) \o torn
    BY Zenon
<1>9. /\ b \in Seq(Record) /\ Len(torn) \in Nat /\ Len(b) = n + Len(torn) /\ DOMAIN b = 1 .. n + Len(torn)
      /\ \A j \in 1 .. n : b[j] = fr[j]
      /\ \A j \in DOMAIN b : j > n => b[j] = r
      /\ n = Len(fr) => Len(torn) = 0
    <2>1. PICK head : head = SubSeq(fr, 1, n)
        BY Zenon
    <2>4. \A j \in 1 .. n : fr[j] \in Record
        BY <1>7
    <2>5. head = [j \in 1 .. n |-> fr[j]]
        BY <1>7, <2>1
    <2>6. head \in Seq(Record) /\ Len(head) = n /\ \A j \in 1 .. n : head[j] = fr[j]
        BY <1>7, <2>4, <2>5
    <2>2. CASE torn = <<>>
        BY <1>7, <1>8, <2>1, <2>6, <2>2
    <2>3. CASE torn = <<r>> /\ n < Len(fr)
        BY <1>5, <1>7, <1>8, <2>1, <2>6, <2>3
    <2> QED BY Zenon, <1>6, <2>2, <2>3
<1>10. PICK m : m = (IF kept THEN s.safe ELSE n + Len(torn))
    BY Zenon
<1>11. m \in Nat /\ s.safe <= m /\ m <= n + Len(torn) /\ (s.safe = Len(fr) => m = n + Len(torn))
    BY <1>0, <1>7, <1>9, <1>10
<1>12. u = [fr |-> b, safe |-> m]
    BY Zenon, <1>3, <1>4, <1>8, <1>10
<1> HIDE DEF Torn, Ending, Ends
<1>13. u \in Segment /\ u.fr = b /\ u.safe = m
    BY Zenon, <1>9, <1>11, <1>12 DEF Segment
<1>14. DOMAIN s.fr = 1 .. Len(fr)
    BY <1>4
<1>15. \A j \in DOMAIN s.fr : j <= s.safe => j \in DOMAIN u.fr /\ u.fr[j] = s.fr[j]
    BY <1>0, <1>4, <1>7, <1>9, <1>13, <1>14
<1>16. ASSUME NEW j \in DOMAIN u.fr, IsWatch(u.fr[j]) PROVE j \in DOMAIN s.fr /\ s.fr[j] = u.fr[j]
    <2>1. j \in DOMAIN b /\ b[j] # r
        BY Zenon, <1>5, <1>13, <1>16
    <2>2. j \in 1 .. n
        BY <1>7, <1>9, <2>1
    <2>3. j \in 1 .. Len(fr) /\ b[j] = fr[j]
        BY <1>7, <1>9, <2>2
    <2> QED BY Zenon, <1>4, <1>13, <1>14, <2>3
<1>17. u.safe <= Len(u.fr) /\ s.safe <= u.safe /\ (s.safe = Len(s.fr) => u.safe = Len(u.fr))
    BY Zenon, <1>4, <1>9, <1>11, <1>13
<1> QED BY Zenon, <1>13, <1>15, <1>16, <1>17

LEMMA CrashKeeps ==
    ASSUME NEW segs, Sealed(segs),
           NEW left, DOMAIN left = DOMAIN segs, left = [i \in DOMAIN segs |-> left[i]],
           \A i \in DOMAIN left : left[i] \in Left(segs[i])
    PROVE  Sealed(left) /\ Keeps(segs, left) /\ AddsOnly(segs, left, {})
<1>1. segs \in Seq(Segment)
    BY Zenon DEF Sealed
<1>2. ASSUME NEW i \in DOMAIN segs
      PROVE  /\ left[i] \in Segment /\ left[i].safe <= Len(left[i].fr) /\ segs[i].safe <= left[i].safe
             /\ \A j \in DOMAIN segs[i].fr : j <= segs[i].safe =>
                  j \in DOMAIN left[i].fr /\ left[i].fr[j] = segs[i].fr[j]
             /\ \A j \in DOMAIN left[i].fr : IsWatch(left[i].fr[j]) =>
                  j \in DOMAIN segs[i].fr /\ segs[i].fr[j] = left[i].fr[j]
             /\ segs[i].safe = Len(segs[i].fr) => left[i].safe = Len(left[i].fr)
    <2>1. segs[i] \in Segment
        BY <1>1
    <2>2. segs[i].safe <= Len(segs[i].fr) /\ left[i] \in Left(segs[i])
        BY Zenon DEF Sealed
    <2> QED BY Zenon, <2>1, <2>2, LeftKeeps
<1>3. left \in Seq(Segment) /\ Len(left) = Len(segs)
    BY <1>1, <1>2
<1>4. Keeps(segs, left)
    <2>1. ASSUME NEW i \in DOMAIN segs, NEW j \in DOMAIN segs[i].fr, j <= segs[i].safe
          PROVE  j <= left[i].safe
        <3>1. segs[i] \in Segment /\ left[i] \in Segment
            BY <1>1, <1>2
        <3>2. segs[i].safe \in Nat /\ left[i].safe \in Nat /\ j \in 1 .. Len(segs[i].fr)
            BY Zenon, <3>1, SegmentFacts
        <3> QED BY <1>2, <2>1, <3>2
    <2> QED BY Zenon, <1>2, <2>1 DEF Keeps
<1>5. AddsOnly(segs, left, {})
    BY Zenon, <1>2 DEF AddsOnly
<1>6. Sealed(left)
    BY Zenon, <1>2, <1>3 DEF Sealed
<1> QED BY Zenon, <1>4, <1>5, <1>6

\* A thread that waits for its sync has its record in the log; one that has a
\* watch under way owns it, and nothing is promised about its client yet.
ThreadOk(segs, x, w, t) ==
  /\ x.st = "sync" => InLog(segs, x.c)
  /\ (x.st # "idle" /\ IsWatch(x.c)) => x.c.key = t /\ w = NoCommand

\* The last answered watch or unwatch of t is its last one in the log.
WantOk(segs, w, t) == w # NoCommand => IsWatch(w) /\ w.key = t /\ OnDisk(segs, w)

PromisedOk(segs, P) == \A c \in P : ~IsWatch(c) /\ OnDisk(segs, c)

DurableInv ==
  /\ Sealed(disk.segs)
  /\ past.want = [t \in Threads |-> past.want[t]]
  /\ \A t \in Threads : ThreadOk(disk.segs, pc[t], past.want[t], t) /\ WantOk(disk.segs, past.want[t], t)
  /\ PromisedOk(disk.segs, past.promised)

LEMMA StillOk ==
    ASSUME NEW old, NEW new, NEW K, Keeps(old, new), AddsOnly(old, new, K)
    PROVE  /\ \A w, t : t \notin K /\ WantOk(old, w, t) => WantOk(new, w, t)
           /\ \A P : PromisedOk(old, P) => PromisedOk(new, P)
           /\ KeepsAll(old, new) =>
                \A x, w, t : t \notin K /\ ThreadOk(old, x, w, t) => ThreadOk(new, x, w, t)
<1>1. ASSUME NEW w, NEW t, t \notin K, WantOk(old, w, t) PROVE WantOk(new, w, t)
    BY Zenon, <1>1, StaysOnDisk DEF WantOk
<1>2. ASSUME NEW P, PromisedOk(old, P) PROVE PromisedOk(new, P)
    BY Zenon, <1>2, StaysOnDisk DEF PromisedOk
<1>3. ASSUME KeepsAll(old, new), NEW x, NEW w, NEW t, t \notin K, ThreadOk(old, x, w, t) PROVE ThreadOk(new, x, w, t)
    <2>1. CASE x.st = "sync"
        <3>1. InLog(old, x.c) /\ (IsWatch(x.c) => x.c.key = t /\ w = NoCommand)
            BY Zenon, <1>3, <2>1 DEF ThreadOk
        <3>2. IsWatch(x.c) => x.c.key \notin K
            BY Zenon, <1>3, <3>1
        <3>3. InLog(new, x.c)
            BY Zenon, <1>3, <3>1, <3>2, StaysInLog
        <3> QED BY Zenon, <3>1, <3>3 DEF ThreadOk
    <2>2. CASE x.st # "sync"
        BY Zenon, <1>3, <2>2 DEF ThreadOk
    <2> QED BY Zenon, <2>1, <2>2
<1> QED BY Zenon, <1>1, <1>2, <1>3

\* A step that only touches the log, and watches of nobody.
LEMMA LogOnly ==
    ASSUME DurableInv, pc' = pc, past'.want = past.want, past'.promised = past.promised,
           NEW segs, disk'.segs = segs, Sealed(segs),
           Keeps(disk.segs, segs), KeepsAll(disk.segs, segs), AddsOnly(disk.segs, segs, {})
    PROVE  DurableInv'
<1>1. PICK old : old = disk.segs
    BY Zenon
<1>0. PICK K : K = {}
    BY Zenon
<1>2. AddsOnly(old, segs, K) /\ Keeps(old, segs) /\ KeepsAll(old, segs) /\ \A t : t \notin K
    BY Zenon, <1>0, <1>1
<1>3. /\ \A w, t : WantOk(old, w, t) => WantOk(segs, w, t)
      /\ \A P : PromisedOk(old, P) => PromisedOk(segs, P)
      /\ \A x, w, t : ThreadOk(old, x, w, t) => ThreadOk(segs, x, w, t)
    BY Zenon, <1>2, StillOk
<1> QED BY Zenon, <1>1, <1>3 DEF DurableInv

LEMMA NothingLogged ==
    ASSUME DurableInv, pc' = pc, past'.want = past.want, past'.promised = past.promised, disk'.segs = disk.segs
    PROVE  DurableInv'
BY Zenon DEF DurableInv

LEMMA DurableInit == RecoveryInit => DurableInv
<1> SUFFICES ASSUME RecoveryInit PROVE DurableInv
    OBVIOUS
<1>1. conf.legacy \in Command \cup {NoCommand}
    BY Zenon, ConfsAssumption DEF RecoveryInit
<1>2. PICK s : s = [fr |-> <<conf.legacy>>, safe |-> 1]
    BY Zenon
<1>3. conf.legacy \in Record
    BY Zenon, <1>1, RecordFacts
<1>4. s.fr = <<conf.legacy>> /\ s.safe = 1 /\ s \in Segment
    BY <1>2, <1>3 DEF Segment
<1>5. Sealed(<<>>)
    BY DEF Sealed
<1>6. Sealed(<<s>>)
    <2>1. Len(s.fr) = 1 /\ <<s>> \in Seq(Segment) /\ DOMAIN <<s>> = {1} /\ <<s>>[1] = s /\ Len(<<s>>) = 1
        BY <1>4
    <2>2. s.safe <= Len(s.fr) /\ ~(1 < 1)
        BY <1>4, <2>1
    <2> QED BY Zenon, <2>1, <2>2 DEF Sealed
<1>7. disk.segs = <<>> \/ disk.segs = <<s>>
    BY Zenon, <1>2 DEF RecoveryInit
<1>8. \A t \in Threads : pc[t].st = "idle"
    BY Zenon DEF RecoveryInit, Waiting
<1>9. past.want = [t \in Threads |-> NoCommand] /\ past.promised = {}
    BY Zenon DEF RecoveryInit
<1>10. past.want = [t \in Threads |-> past.want[t]] /\ \A t \in Threads : past.want[t] = NoCommand
    BY Zenon, <1>9
<1> QED BY Zenon, <1>5, <1>6, <1>7, <1>8, <1>9, <1>10 DEF DurableInv, ThreadOk, WantOk, PromisedOk

LEMMA ExecuteDurable == ASSUME PreambleInv, DurableInv, NEW t \in Threads, Execute(t) PROVE DurableInv'
<1>1. PICK m \in conf.menu :
          ExecuteCommand(t, [m EXCEPT !.id = past.n + 1, !.key = IF IsWatch(m) THEN t ELSE @])
    BY Zenon DEF Execute
<1>2. m \in Command
    BY Zenon, ConfsAssumption DEF PreambleInv
<1>3. PICK i, k, c : /\ i = past.n + 1 /\ k = (IF IsWatch(m) THEN t ELSE m.key)
                     /\ c = [m EXCEPT !.id = i, !.key = k]
                     /\ ExecuteCommand(t, c)
    BY Zenon, <1>1
<1>4. c.op = m.op /\ c.key = k
    <2>1. ASSUME NEW O, NEW Y, NEW A, NEW D, NEW I, NEW r \in [op : O, key : Y, at : A, durable : D, id : I]
          PROVE  [r EXCEPT !.id = i, !.key = k].op = r.op /\ [r EXCEPT !.id = i, !.key = k].key = k
        OBVIOUS
    <2>2. \A O, Y, A, D, I : m \in [op : O, key : Y, at : A, durable : D, id : I] =>
            [m EXCEPT !.id = i, !.key = k].op = m.op /\ [m EXCEPT !.id = i, !.key = k].key = k
        BY Zenon, <2>1
    <2> QED BY Zenon, <1>2, <1>3, <2>2 DEF Command
<1>5. IsWatch(c) => c.key = t
    BY Zenon, <1>3, <1>4 DEF IsWatch
<1>6. pc' = [pc EXCEPT ![t] = [st |-> "log", c |-> c]] /\ disk' = disk /\ pc[t].st = "idle"
    BY Zenon, <1>3 DEF Execute, ExecuteCommand
<1>7. pc = [u \in Threads |-> pc[u]]
    BY Zenon DEF PreambleInv
<1>8. pc'[t] = [st |-> "log", c |-> c] /\ pc'[t].st = "log" /\ pc'[t].c = c /\ \A u \in Threads : u # t => pc'[u] = pc[u]
    BY Zenon, <1>6, <1>7
<1>9. past = [f \in {"n", "crashes", "hist", "overlap", "promised", "want"} |-> past[f]]
    BY Zenon DEF PreambleInv
<1>10. /\ past'.promised = past.promised
       /\ past'.want = (IF IsWatch(c) THEN [past.want EXCEPT ![t] = NoCommand] ELSE past.want)
    <2>1. CASE IsWatch(c)
        <3>1. past' = [past EXCEPT !.n = @ + 1, !.want[t] = NoCommand]
            BY Zenon, <1>3, <2>1 DEF ExecuteCommand
        <3> QED BY Zenon, <1>9, <2>1, <3>1
    <2>2. CASE ~IsWatch(c)
        <3>1. past' = [past EXCEPT !.n = @ + 1, !.hist[c.key] = Append(@, c),
                                   !.overlap = IF InWindow(c.key) THEN @ \cup {c.key} ELSE @]
            BY Zenon, <1>3, <2>2 DEF ExecuteCommand
        <3> QED BY Zenon, <1>9, <2>2, <3>1
    <2> QED BY Zenon, <2>1, <2>2
<1>11. past.want = [u \in Threads |-> past.want[u]]
    BY Zenon DEF DurableInv
<1>12. /\ past'.want = [u \in Threads |-> past'.want[u]]
       /\ \A u \in Threads : past'.want[u] = past.want[u] \/ (past'.want[u] = NoCommand /\ u = t)
       /\ IsWatch(c) => past'.want[t] = NoCommand
    BY Zenon, <1>10, <1>11
<1>13. ThreadOk(disk.segs, pc'[t], past'.want[t], t)
    BY Zenon, <1>5, <1>8, <1>12 DEF ThreadOk
<1>14. ASSUME NEW u \in Threads
       PROVE  ThreadOk(disk.segs, pc'[u], past'.want[u], u) /\ WantOk(disk.segs, past'.want[u], u)
    BY Zenon, <1>8, <1>12, <1>13 DEF DurableInv, WantOk
<1> QED BY Zenon, <1>6, <1>10, <1>12, <1>14 DEF DurableInv

LEMMA UpFacts ==
    ASSUME PreambleInv, DurableInv, srv.st = "up"
    PROVE  /\ Sealed(disk.segs) /\ disk.segs # <<>> /\ srv.hash \in Nat
           /\ \A segs : [disk EXCEPT !.segs = segs].segs = segs
<1>1. disk = [segs |-> disk.segs, mani |-> disk.mani]
    BY Zenon DEF PreambleInv
<1>2. \A segs : [disk EXCEPT !.segs = segs].segs = segs
    BY Zenon, <1>1
<1> QED BY Zenon, <1>2 DEF PreambleInv, DurableInv

LEMMA LogStepDurable == ASSUME PreambleInv, DurableInv, NEW t \in Threads, LogStep(t) PROVE DurableInv'
<1>1. /\ srv.st = "up" /\ pc[t].c \in Command /\ pc = [u \in Threads |-> pc[u]]
      /\ pc[t] = [st |-> pc[t].st, c |-> pc[t].c] /\ pc[t].st = "log"
    BY Zenon DEF PreambleInv, LogStep
<1>2. PICK c \in Command : c = pc[t].c
    BY Zenon, <1>1
<1>3. PICK old : old = disk.segs /\ Sealed(old) /\ old # <<>>
    BY Zenon, <1>1, UpFacts
<1>4. PICK new : new = LogCommandTo(old, c, srv.hash) /\ new = disk'.segs
    BY Zenon, <1>1, <1>2, <1>3, UpFacts DEF LogStep
<1>5. /\ Sealed(new) /\ Keeps(old, new) /\ KeepsAll(old, new) /\ InLog(new, c)
      /\ AddsOnly(old, new, {c.key}) /\ (~IsWatch(c) => AddsOnly(old, new, {}))
    <2>1. PICK h \in Nat : h = srv.hash
        BY Zenon, <1>1, UpFacts
    <2>2. new = LogCommandTo(old, c, h)
        BY Zenon, <1>4, <2>1
    <2> QED BY Zenon, <1>3, <2>2, LogKeeps
<1>6. past' = past
    BY Zenon DEF LogStep
<1>7. /\ \A u \in Threads : u # t => pc'[u] = pc[u]
      /\ (pc'[t].c = c /\ pc'[t].st = "sync") \/ pc'[t].st = "idle"
    <2>1. pc' = [pc EXCEPT ![t] = IF IsWatch(@.c) \/ @.c.durable THEN [@ EXCEPT !.st = "sync"] ELSE Waiting]
        BY Zenon DEF LogStep
    <2>2. pc'[t] = (IF IsWatch(pc[t].c) \/ pc[t].c.durable THEN [pc[t] EXCEPT !.st = "sync"] ELSE Waiting)
        BY Zenon, <1>1, <2>1
    <2>3. [pc[t] EXCEPT !.st = "sync"].st = "sync" /\ [pc[t] EXCEPT !.st = "sync"].c = c
        BY Zenon, <1>1, <1>2
    <2>4. Waiting.st = "idle"
        BY Zenon DEF Waiting
    <2> QED BY Zenon, <1>1, <2>1, <2>2, <2>3, <2>4
<1>8. ThreadOk(old, pc[t], past.want[t], t) /\ WantOk(old, past.want[t], t)
    BY Zenon, <1>3 DEF DurableInv
<1>9. PICK K : /\ AddsOnly(old, new, K) /\ \A u : u # t => u \notin K
               /\ t \in K => IsWatch(c)
    <2>1. CASE IsWatch(c)
        <3>1. c.key = t
            BY Zenon, <1>1, <1>2, <1>8, <2>1 DEF ThreadOk
        <3> QED BY Zenon, <1>5, <2>1, <3>1
    <2>2. CASE ~IsWatch(c)
        <3>1. PICK none : none = {}
            BY Zenon
        <3>2. AddsOnly(old, new, none) /\ \A u : u \notin none
            BY Zenon, <1>5, <2>2, <3>1
        <3> QED BY Zenon, <3>2
    <2> QED BY Zenon, <2>1, <2>2
<1>10. /\ \A w, u : u \notin K /\ WantOk(old, w, u) => WantOk(new, w, u)
       /\ \A P : PromisedOk(old, P) => PromisedOk(new, P)
       /\ \A x, w, u : u \notin K /\ ThreadOk(old, x, w, u) => ThreadOk(new, x, w, u)
    BY Zenon, <1>5, <1>9, StillOk
<1>11. IsWatch(c) => past.want[t] = NoCommand /\ c.key = t
    BY Zenon, <1>1, <1>2, <1>8 DEF ThreadOk
<1>12. WantOk(new, past.want[t], t)
    BY Zenon, <1>8, <1>9, <1>10, <1>11 DEF WantOk
<1>13. ThreadOk(new, pc'[t], past.want[t], t)
    BY Zenon, <1>5, <1>7, <1>11 DEF ThreadOk
<1>14. ASSUME NEW u \in Threads
       PROVE  ThreadOk(new, pc'[u], past.want[u], u) /\ WantOk(new, past.want[u], u)
    <2>1. CASE u # t
        BY Zenon, <1>3, <1>7, <1>9, <1>10, <2>1 DEF DurableInv
    <2> QED BY Zenon, <1>12, <1>13, <2>1
<1>15. PromisedOk(new, past.promised)
    BY Zenon, <1>3, <1>10 DEF DurableInv
<1> QED BY Zenon, <1>4, <1>5, <1>6, <1>14, <1>15 DEF DurableInv

LEMMA SyncStepDurable == ASSUME PreambleInv, DurableInv, NEW t \in Threads, SyncStep(t) PROVE DurableInv'
<1>1. /\ srv.st = "up" /\ pc = [u \in Threads |-> pc[u]] /\ pc[t].st = "sync"
      /\ past = [f \in {"n", "crashes", "hist", "overlap", "promised", "want"} |-> past[f]]
    BY Zenon DEF PreambleInv, SyncStep
<1>2. PICK c : c = pc[t].c
    BY Zenon
<1>3. PICK old : old = disk.segs /\ Sealed(old) /\ old # <<>>
    BY Zenon, <1>1, UpFacts
<1>4. PICK new : new = Synced(old) /\ new = disk'.segs
    BY Zenon, <1>1, <1>3, UpFacts DEF SyncStep
<1>5. PICK K : /\ K = {} /\ \A u : u \notin K
               /\ Sealed(new) /\ Keeps(old, new) /\ KeepsAll(old, new) /\ AddsOnly(old, new, K)
               /\ \A i \in DOMAIN new : new[i].safe = Len(new[i].fr)
    BY Zenon, <1>3, <1>4, SyncedKeeps
<1>6. ThreadOk(old, pc[t], past.want[t], t)
    BY Zenon, <1>3 DEF DurableInv
<1>7. OnDisk(new, c)
    <2>1. InLog(new, c)
        BY Zenon, <1>1, <1>2, <1>5, <1>6, StaysInLog DEF ThreadOk
    <2>2. PICK i \in Nat, j \in Nat : Holds(new, c, i, j)
        BY Zenon, <2>1 DEF InLog
    <2>3. i \in DOMAIN new /\ j \in DOMAIN new[i].fr /\ new \in Seq(Segment)
        BY Zenon, <1>5, <2>2 DEF Holds, Sealed
    <2>4. new[i] \in Segment
        BY <2>3
    <2>5. j \in 1 .. Len(new[i].fr) /\ Len(new[i].fr) \in Nat
        BY Zenon, <2>3, <2>4, SegmentFacts
    <2>6. j <= new[i].safe
        BY <1>5, <2>3, <2>5
    <2> QED BY Zenon, <2>2, <2>6 DEF OnDisk
<1>8. /\ \A w, u : WantOk(old, w, u) => WantOk(new, w, u)
      /\ \A P : PromisedOk(old, P) => PromisedOk(new, P)
      /\ \A x, w, u : ThreadOk(old, x, w, u) => ThreadOk(new, x, w, u)
    BY Zenon, <1>5, StillOk
<1>9. pc'[t].st = "idle" /\ \A u \in Threads : u # t => pc'[u] = pc[u]
    BY Zenon, <1>1 DEF SyncStep, Waiting
<1>10. IsWatch(c) => c.key = t
    BY Zenon, <1>1, <1>2, <1>6 DEF ThreadOk
<1>11. past.want = [u \in Threads |-> past.want[u]]
    BY Zenon DEF DurableInv
<1>12. /\ past'.want = [u \in Threads |-> past'.want[u]]
       /\ \A u \in Threads : u # t => past'.want[u] = past.want[u]
       /\ WantOk(new, past'.want[t], t) /\ PromisedOk(new, past'.promised)
    <2>0. WantOk(new, past.want[t], t) /\ PromisedOk(new, past.promised)
        BY Zenon, <1>3, <1>8 DEF DurableInv
    <2>1. CASE IsWatch(c)
        <3>1. past' = [past EXCEPT !.want[t] = c]
            BY Zenon, <1>2, <2>1 DEF SyncStep
        <3>2. past'.want = [past.want EXCEPT ![t] = c] /\ past'.promised = past.promised
            BY Zenon, <1>1, <3>1
        <3>3. past'.want = [u \in Threads |-> past'.want[u]] /\ past'.want[t] = c
              /\ \A u \in Threads : u # t => past'.want[u] = past.want[u]
            BY Zenon, <1>11, <3>2
        <3> QED BY Zenon, <1>7, <1>10, <2>0, <2>1, <3>2, <3>3 DEF WantOk
    <2>2. CASE ~IsWatch(c)
        <3>1. past' = [past EXCEPT !.promised = @ \cup {c}]
            BY Zenon, <1>2, <2>2 DEF SyncStep
        <3>2. past'.want = past.want /\ past'.promised = past.promised \cup {c}
            BY Zenon, <1>1, <3>1
        <3> QED BY Zenon, <1>7, <1>11, <2>0, <2>2, <3>2 DEF PromisedOk
    <2> QED BY Zenon, <2>1, <2>2
<1>13. ASSUME NEW u \in Threads
       PROVE  ThreadOk(new, pc'[u], past'.want[u], u) /\ WantOk(new, past'.want[u], u)
    <2>1. CASE u # t
        BY Zenon, <1>3, <1>8, <1>9, <1>12, <2>1 DEF DurableInv
    <2>2. ThreadOk(new, pc'[t], past'.want[t], t)
        BY Zenon, <1>9 DEF ThreadOk
    <2> QED BY Zenon, <1>12, <2>1, <2>2
<1> QED BY Zenon, <1>4, <1>5, <1>12, <1>13 DEF DurableInv

LEMMA TickerDurable == ASSUME PreambleInv, DurableInv, Ticker PROVE DurableInv'
<1>1. srv.st = "up" /\ pc' = pc /\ past' = past
    BY Zenon DEF Ticker
<1>2. PICK old : old = disk.segs /\ Sealed(old) /\ old # <<>>
    BY Zenon, <1>1, UpFacts
<1>3. PICK h \in Nat : h = srv.hash
    BY Zenon, <1>1, UpFacts
<1>4. disk'.segs = Synced(old) \/ disk'.segs = rotateLog(old, h)
    BY Zenon, <1>1, <1>2, <1>3, UpFacts DEF Ticker
<1>5. PICK new : new = disk'.segs
    BY Zenon
<1>6. Sealed(new) /\ Keeps(old, new) /\ KeepsAll(old, new) /\ AddsOnly(old, new, {})
    <2>1. CASE new = Synced(old)
        BY Zenon, <1>2, <2>1, SyncedKeeps
    <2>2. CASE new = rotateLog(old, h)
        BY Zenon, <1>2, <2>2, RotateKeeps
    <2> QED BY Zenon, <1>4, <1>5, <2>1, <2>2
<1> QED BY Zenon, <1>1, <1>2, <1>5, <1>6, LogOnly

LEMMA CrashesDurable == ASSUME PreambleInv, DurableInv, Crashes PROVE DurableInv'
<1>0. /\ disk = [segs |-> disk.segs, mani |-> disk.mani]
      /\ past = [f \in {"n", "crashes", "hist", "overlap", "promised", "want"} |-> past[f]]
    BY Zenon DEF PreambleInv
<1>1. PICK old : old = disk.segs /\ Sealed(old)
    BY Zenon DEF DurableInv
<1>2. PICK left \in [DOMAIN disk.segs -> UNION {Left(disk.segs[i]) : i \in DOMAIN disk.segs}] :
          (\A i \in DOMAIN left : left[i] \in Left(disk.segs[i])) /\ disk' = [disk EXCEPT !.segs = left]
    BY Zenon DEF Crashes
<1>3. DOMAIN left = DOMAIN old /\ left = [i \in DOMAIN old |-> left[i]] /\ disk'.segs = left
    BY Zenon, <1>0, <1>1, <1>2
<1>4. PICK K : K = {}
    BY Zenon
<1>5. Sealed(left) /\ Keeps(old, left) /\ AddsOnly(old, left, K) /\ \A t : t \notin K
    BY Zenon, <1>1, <1>2, <1>3, <1>4, CrashKeeps
<1>6. /\ \A w, t : WantOk(old, w, t) => WantOk(left, w, t)
      /\ \A P : PromisedOk(old, P) => PromisedOk(left, P)
    BY Zenon, <1>5, StillOk
<1>7. past'.want = past.want /\ past'.promised = past.promised
    BY Zenon, <1>0 DEF Crashes
<1>8. \A t \in Threads : pc'[t].st = "idle"
    BY Zenon DEF Crashes, Waiting
<1>9. \A t \in Threads : ThreadOk(left, pc'[t], past.want[t], t)
    BY Zenon, <1>8 DEF ThreadOk
<1>10. \A t \in Threads : WantOk(left, past.want[t], t)
    BY Zenon, <1>1, <1>6 DEF DurableInv
<1>11. PromisedOk(left, past.promised)
    BY Zenon, <1>1, <1>6 DEF DurableInv
<1> QED BY Zenon, <1>3, <1>5, <1>7, <1>9, <1>10, <1>11 DEF DurableInv

LEMMA BootOpenDurable == ASSUME PreambleInv, DurableInv, BootOpen PROVE DurableInv'
<1>0. /\ disk = [segs |-> disk.segs, mani |-> disk.mani] /\ pc' = pc /\ past' = past
      /\ srv.hash \in Nat
    BY Zenon DEF PreambleInv, BootOpen
<1>1. PICK old : old = disk.segs /\ Sealed(old) /\ old \in Seq(Segment)
    BY Zenon DEF DurableInv, Sealed
<1>2. PICK s \in Segment : s = NewSegment(srv.hash) /\ s.safe = 0 /\ s.safe <= Len(s.fr)
                           /\ \A j \in DOMAIN s.fr : ~IsWatch(s.fr[j])
    BY Zenon, <1>0, NewSegmentKeeps
<1>3. PICK n \in Nat : n = Len(old) /\ DOMAIN old = 1 .. n
    BY <1>1
<1>4. \/ disk'.segs = old
      \/ n = 0 /\ disk'.segs = <<s>>
      \/ n # 0 /\ Len(old[n].fr) = 0 /\ disk'.segs = [old EXCEPT ![n] = s]
    BY Zenon, <1>0, <1>1, <1>2, <1>3 DEF BootOpen
<1>5. CASE disk'.segs = old
    BY Zenon, <1>0, <1>1, <1>5, NothingLogged
<1>6. CASE n = 0 /\ disk'.segs = <<s>>
    <2>1. old = <<>>
        BY <1>1, <1>3, <1>6
    <2>2. \A i \in DOMAIN old : old[i].safe = Len(old[i].fr)
        BY <1>3, <1>6
    <2>3. <<s>> = Append(old, s)
        BY <2>1
    <2>4. Sealed(<<s>>) /\ Keeps(old, <<s>>) /\ KeepsAll(old, <<s>>) /\ AddsOnly(old, <<s>>, {})
        BY Zenon, <1>1, <1>2, <2>2, <2>3, AppendKeeps
    <2> QED BY Zenon, <1>0, <1>1, <1>6, <2>4, LogOnly
<1>7. CASE n # 0 /\ Len(old[n].fr) = 0 /\ disk'.segs = [old EXCEPT ![n] = s]
    <2>1. old[n] \in Segment /\ old # <<>> /\ n \in DOMAIN old
        BY <1>1, <1>3, <1>7
    <2>2. old[n].safe \in Nat /\ DOMAIN old[n].fr = 1 .. Len(old[n].fr) /\ old[n].safe <= Len(old[n].fr)
        BY Zenon, <1>1, <2>1, SegmentFacts DEF Sealed
    <2>3. s.safe = old[n].safe /\ DOMAIN old[n].fr = {}
        BY <1>2, <1>7, <2>2
    <2>4. PICK new : new = [old EXCEPT ![n] = s]
        BY Zenon
    <2>5. PICK K : K = {}
        BY Zenon
    <2>6. Sealed(new) /\ Keeps(old, new) /\ KeepsAll(old, new) /\ AddsOnly(old, new, K)
        <3>1. \A j \in DOMAIN old[n].fr : j \in DOMAIN s.fr /\ s.fr[j] = old[n].fr[j]
            BY Zenon, <2>3
        <3>2. \A j \in DOMAIN s.fr : IsWatch(s.fr[j]) =>
                (s.fr[j].key \in K \/ (j \in DOMAIN old[n].fr /\ s.fr[j] = old[n].fr[j]))
            BY Zenon, <1>2
        <3> QED BY Zenon, <1>1, <1>2, <1>3, <2>1, <2>3, <2>4, <3>1, <3>2, ReplaceKeeps
    <2> QED BY Zenon, <1>0, <1>1, <1>7, <2>4, <2>5, <2>6, LogOnly
<1> QED BY Zenon, <1>4, <1>5, <1>6, <1>7

LEMMA DurableStep == PreambleInv /\ DurableInv /\ [RecoveryNext]_rvars => DurableInv'
<1> SUFFICES ASSUME PreambleInv, DurableInv, [RecoveryNext]_rvars PROVE DurableInv'
    OBVIOUS
<1>0. /\ disk = [segs |-> disk.segs, mani |-> disk.mani]
      /\ past = [f \in {"n", "crashes", "hist", "overlap", "promised", "want"} |-> past[f]]
    BY Zenon DEF PreambleInv
<1>1. ASSUME NEW t \in Threads, Execute(t) \/ LogStep(t) \/ SyncStep(t) PROVE DurableInv'
    BY Zenon, <1>1, ExecuteDurable, LogStepDurable, SyncStepDurable
<1>2. CASE ClockTick \/ BootReplay \/ UNCHANGED rvars \/ \E t \in Threads : Disconnect(t)
    BY Zenon, <1>2, NothingLogged DEF ClockTick, BootReplay, rvars, Disconnect
<1>3. CASE BootServe
    <2>1. past'.want = past.want /\ past'.promised = past.promised
        BY Zenon, <1>0, <1>3 DEF BootServe
    <2> QED BY Zenon, <1>3, <2>1, NothingLogged DEF BootServe
<1>4. CASE BootManifest
    <2>1. disk' = disk \/ \E m : disk' = [disk EXCEPT !.mani = m]
        BY Zenon, <1>4 DEF BootManifest, LoadManifest, SaveManifestAtomic
    <2>2. disk'.segs = disk.segs
        BY Zenon, <1>0, <2>1
    <2> QED BY Zenon, <1>4, <2>2, NothingLogged DEF BootManifest
<1> QED BY Zenon, <1>1, <1>2, <1>3, <1>4, TickerDurable, CrashesDurable, BootOpenDurable DEF RecoveryNext

LEMMA DurableInvariant == RecoverySpec => [](PreambleInv /\ DurableInv)
<1>1. RecoveryInit => PreambleInv /\ DurableInv
    BY Zenon, PreambleInvInit, DurableInit
<1>2. (PreambleInv /\ DurableInv) /\ [RecoveryNext]_rvars => (PreambleInv /\ DurableInv)'
    BY Zenon, PreambleInvStep, DurableStep
<1> QED BY <1>1, <1>2, PTL DEF RecoverySpec

\* Record c is in the part of the log that no crash can take.
Fsynced(c) ==
  \E i \in DOMAIN disk.segs : \E j \in DOMAIN disk.segs[i].fr :
    disk.segs[i].fr[j] = c /\ j <= disk.segs[i].safe

\* What was answered after Sync, a DURABLE SET, a SUBSCRIBE or an UNSUBSCRIBE.
AnswersOnDisk ==
  /\ \A c \in past.promised : Fsynced(c)
  /\ \A t \in Threads : past.want[t] # NoCommand => Fsynced(past.want[t])

\* The record of every command that was answered after a sync is in the
\* fsynced part of the log and stays there: through rotations (rotateLog syncs
\* the segment it leaves), the tickers' syncs, the appends of other threads
\* between LogCommand and Sync, and any number of crashes that lose or tear
\* what was not synced (ironhawk/iothread.go, wal_forge.go).
THEOREM AnswersStay == RecoverySpec => []AnswersOnDisk
<1>1. DurableInv => AnswersOnDisk
    <2> SUFFICES ASSUME DurableInv PROVE AnswersOnDisk
        OBVIOUS
    <2>1. ASSUME NEW c, OnDisk(disk.segs, c) PROVE Fsynced(c)
        BY Zenon, <2>1 DEF OnDisk, Holds, Fsynced
    <2> QED BY Zenon, <2>1 DEF DurableInv, PromisedOk, WantOk, AnswersOnDisk
<1> QED BY <1>1, DurableInvariant, PTL

(***************************************************************************)
(* What replay reads: the segments one after the other.                    *)
(***************************************************************************)
\* g[i] joins the first i sequences of ss, for i up to n.
Joins(g, ss, n) == g = [i \in 0 .. n |-> IF i = 0 THEN <<>> ELSE g[i - 1] \o ss[i]]

LEMMA JoinsExist == ASSUME NEW ss, NEW n \in Nat PROVE \E g : Joins(g, ss, n)
<1>1. PICK T : T = {m \in Nat : ~ \E g : Joins(g, ss, m)}
    BY Zenon
<1>2. CASE T # {}
    <2>1. PICK m : m = Min(T)
        BY Zenon
    <2>2. m \in T /\ \A y \in T : m <= y
        <3>1. T \in SUBSET Nat
            BY Zenon, <1>1
        <3> QED BY Zenon, <1>2, <2>1, <3>1, LeastOf
    <2>3. m \in Nat /\ ~ \E g : Joins(g, ss, m)
        BY Zenon, <1>1, <2>2
    <2>4. m # 0
        <3>1. SUFFICES ASSUME m = 0 PROVE FALSE
            BY Zenon
        <3>2. PICK g : g = [i \in 0 .. m |-> <<>>]
            BY Zenon
        <3>3. \A i \in 0 .. m : i = 0
            BY <3>1
        <3>4. [i \in 0 .. m |-> IF i = 0 THEN <<>> ELSE g[i - 1] \o ss[i]] = [i \in 0 .. m |-> <<>>]
            BY Zenon, <3>3
        <3>5. Joins(g, ss, m)
            <4> HIDE <3>1
            <4> QED BY Zenon, <3>2, <3>4 DEF Joins
        <3> QED BY Zenon, <2>3, <3>5
    <2>5. PICK k \in Nat : m = k + 1
        BY <2>3, <2>4
    <2>6. PICK g : Joins(g, ss, k)
        <3>1. k \notin T
            BY <2>2, <2>5
        <3> QED BY Zenon, <1>1, <3>1
    <2>7. PICK h : h = [i \in 0 .. m |-> IF i = m THEN g[k] \o ss[m] ELSE g[i]]
        BY Zenon
    <2>8. \A i \in 0 .. k : g[i] = IF i = 0 THEN <<>> ELSE g[i - 1] \o ss[i]
        BY Zenon, <2>6 DEF Joins
    <2>9. \A i \in 0 .. m : h[i] = IF i = m THEN g[k] \o ss[m] ELSE g[i]
        BY Zenon, <2>7
    <2>10. ASSUME NEW i \in 0 .. m PROVE h[i] = IF i = 0 THEN <<>> ELSE h[i - 1] \o ss[i]
        <3>1. CASE i = m
            <4>1. i # 0 /\ i - 1 = k /\ k \in 0 .. m /\ k # m
                BY <2>5, <3>1
            <4> QED BY Zenon, <2>9, <3>1, <4>1
        <3>2. CASE i # m /\ i = 0
            <4>1. i \in 0 .. k
                BY <2>5, <3>2
            <4> QED BY Zenon, <2>8, <2>9, <3>2, <4>1
        <3>3. CASE i # m /\ i # 0
            <4>1. i \in 0 .. k /\ i - 1 \in 0 .. m /\ i - 1 # m
                BY <2>5, <3>3
            <4> QED BY Zenon, <2>8, <2>9, <3>3, <4>1
        <3> QED BY Zenon, <3>1, <3>2, <3>3
    <2>11. h = [i \in 0 .. m |-> h[i]]
        BY Zenon, <2>7
    <2>12. [i \in 0 .. m |-> h[i]] = [i \in 0 .. m |-> IF i = 0 THEN <<>> ELSE h[i - 1] \o ss[i]]
        BY Zenon, <2>10
    <2> QED BY Zenon, <2>3, <2>11, <2>12 DEF Joins
<1> QED BY Zenon, <1>1, <1>2

LEMMA JoinedSteps ==
    ASSUME NEW ss, Len(ss) \in Nat
    PROVE  \E g : /\ Joined(ss) = g[Len(ss)] /\ g[0] = <<>>
                  /\ \A i \in 1 .. Len(ss) : g[i] = g[i - 1] \o ss[i]
<1>1. PICK n \in Nat : n = Len(ss)
    BY Zenon
<1>2. PICK g : g = CHOOSE f : Joins(f, ss, n)
    BY Zenon
<1>3. Joins(g, ss, n)
    BY Zenon, <1>2, JoinsExist
<1>4. Joined(ss) = (CHOOSE u : u = [i \in 0 .. Len(ss) |-> IF i = 0 THEN <<>> ELSE u[i - 1] \o ss[i]])[Len(ss)]
    BY Zenon DEF Joined, LeftFold
<1>5. Joined(ss) = g[n]
    BY Zenon, <1>1, <1>2, <1>4 DEF Joins
<1>6. \A i \in 0 .. n : g[i] = IF i = 0 THEN <<>> ELSE g[i - 1] \o ss[i]
    BY Zenon, <1>3 DEF Joins
<1>7. 0 \in 0 .. n /\ \A i \in 1 .. n : i \in 0 .. n /\ i # 0
    BY <1>1
<1>8. g[0] = <<>> /\ \A i \in 1 .. n : g[i] = g[i - 1] \o ss[i]
    BY Zenon, <1>6, <1>7
<1> QED BY Zenon, <1>1, <1>5, <1>8

\* Element p of g is element j of ss[i], and what follows it in g follows it
\* in ss, among the first n sequences.
Lies(g, ss, n, i, j, p) ==
  /\ p \in DOMAIN g /\ g[p] = ss[i][j]
  /\ \A q \in DOMAIN g : p < q =>
       \E k \in 1 .. n : \E l \in DOMAIN ss[k] : (i < k \/ (i = k /\ j < l)) /\ ss[k][l] = g[q]

LEMMA LiesNext ==
    ASSUME NEW R, NEW g \in Seq(R), NEW ss, NEW n \in Nat, n > 0, ss[n] \in Seq(R), NEW i \in 1 .. n, NEW j \in DOMAIN ss[i],
           i < n => \E p : Lies(g, ss, n - 1, i, j, p)
    PROVE  \E p : Lies(g \o ss[n], ss, n, i, j, p)
<1>1. PICK s \in Seq(R) : s = ss[n]
    BY Zenon
<1>2. PICK h : h = g \o s
    BY Zenon
<1>3. PICK a \in Nat, b \in Nat : a = Len(g) /\ b = Len(s) /\ DOMAIN g = 1 .. a /\ DOMAIN s = 1 .. b
    OBVIOUS
<1>4. /\ DOMAIN h = 1 .. a + b /\ \A q \in 1 .. a : h[q] = g[q]
      /\ \A q \in DOMAIN h : q > a => q - a \in DOMAIN s /\ h[q] = s[q - a]
      /\ \A q \in DOMAIN s : a + q \in DOMAIN h /\ h[a + q] = s[q]
    <2>1. DOMAIN h = 1 .. a + b /\ \A q \in 1 .. a + b : h[q] = IF q <= a THEN g[q] ELSE s[q - a]
        BY <1>2, <1>3
    <2>2. ASSUME NEW q \in 1 .. a PROVE h[q] = g[q]
        BY <1>3, <2>1
    <2>3. ASSUME NEW q \in DOMAIN h, q > a PROVE q - a \in DOMAIN s /\ h[q] = s[q - a]
        BY SMTT(30), <1>3, <2>1, <2>3
    <2>4. ASSUME NEW q \in DOMAIN s PROVE a + q \in DOMAIN h /\ h[a + q] = s[q]
        <3>1. a + q \in 1 .. a + b /\ ~(a + q <= a) /\ (a + q) - a = q
            BY <1>3
        <3> QED BY Zenon, <2>1, <3>1
    <2> QED BY Zenon, <2>1, <2>2, <2>3, <2>4
<1>8. h = g \o ss[n]
    BY Zenon, <1>1, <1>2
<1>5. CASE i < n
    <2>1. PICK p : Lies(g, ss, n - 1, i, j, p)
        BY Zenon, <1>5
    <2>2. p \in 1 .. a /\ g[p] = ss[i][j]
        BY Zenon, <1>3, <2>1 DEF Lies
    <2>3. p \in DOMAIN h /\ h[p] = ss[i][j]
        BY <1>3, <1>4, <2>2
    <2>4. ASSUME NEW q \in DOMAIN h, p < q
          PROVE  \E k \in 1 .. n : \E l \in DOMAIN ss[k] : (i < k \/ (i = k /\ j < l)) /\ ss[k][l] = h[q]
        <3>1. CASE q \in 1 .. a
            <4>1. PICK k \in 1 .. n - 1 : \E l \in DOMAIN ss[k] : (i < k \/ (i = k /\ j < l)) /\ ss[k][l] = g[q]
                BY Zenon, <1>3, <2>1, <2>4, <3>1 DEF Lies
            <4>2. k \in 1 .. n /\ h[q] = g[q]
                BY <1>4, <3>1
            <4> QED BY Zenon, <4>1, <4>2
        <3>2. CASE q \notin 1 .. a
            <4>1. q > a
                BY <1>3, <1>4, <2>4, <3>2
            <4>2. q - a \in DOMAIN ss[n] /\ h[q] = ss[n][q - a] /\ n \in 1 .. n
                BY <1>1, <1>4, <4>1
            <4> QED BY Zenon, <1>5, <4>2
        <3> QED BY Zenon, <3>1, <3>2
    <2>5. Lies(h, ss, n, i, j, p)
        BY Zenon, <2>3, <2>4 DEF Lies
    <2> QED BY Zenon, <1>8, <2>5
<1>6. CASE i = n
    <2>1. j \in DOMAIN s /\ j \in 1 .. b
        BY Zenon, <1>1, <1>3, <1>6
    <2>2. PICK p \in Nat : p = a + j /\ p \in DOMAIN h /\ h[p] = s[j]
        BY <1>3, <1>4, <2>1
    <2>3. ASSUME NEW q \in DOMAIN h, p < q
          PROVE  \E k \in 1 .. n : \E l \in DOMAIN ss[k] : (i < k \/ (i = k /\ j < l)) /\ ss[k][l] = h[q]
        <3>1. q > a /\ j < q - a /\ n \in 1 .. n
            BY <1>3, <1>4, <2>1, <2>2, <2>3
        <3>2. q - a \in DOMAIN ss[n] /\ h[q] = ss[n][q - a]
            BY Zenon, <1>1, <1>4, <3>1
        <3> QED BY Zenon, <1>6, <3>1, <3>2
    <2>4. p \in DOMAIN h /\ h[p] = ss[i][j]
        BY Zenon, <1>1, <1>6, <2>2
    <2>5. Lies(h, ss, n, i, j, p)
        BY Zenon, <2>3, <2>4 DEF Lies
    <2> QED BY Zenon, <1>8, <2>5
<1>7. i < n \/ i = n
    OBVIOUS
<1> QED BY Zenon, <1>5, <1>6, <1>7

LEMMA JoinedFacts ==
    ASSUME NEW R, NEW ss \in Seq(Seq(R))
    PROVE  /\ Joined(ss) \in Seq(R)
           /\ \A i \in DOMAIN ss : \A j \in DOMAIN ss[i] : \E p : Lies(Joined(ss), ss, Len(ss), i, j, p)
<1>1. PICK n \in Nat : n = Len(ss) /\ DOMAIN ss = 1 .. n
    OBVIOUS
<1>2. PICK g : Joined(ss) = g[n] /\ g[0] = <<>> /\ \A i \in 1 .. n : g[i] = g[i - 1] \o ss[i]
    BY Zenon, <1>1, JoinedSteps
<1>3. \A i \in 1 .. n : ss[i] \in Seq(R)
    BY <1>1
<1> DEFINE Good(m) == /\ g[m] \in Seq(R)
                      /\ \A i \in 1 .. m : \A j \in DOMAIN ss[i] : \E p : Lies(g[m], ss, m, i, j, p)
<1>4. Good(0)
    <2>1. <<>> \in Seq(R) /\ \A i \in 1 .. 0 : FALSE
        OBVIOUS
    <2> QED BY Zenon, <1>2, <2>1
<1>5. ASSUME NEW m \in 1 .. n, Good(m - 1) PROVE Good(m)
    <2>1. PICK k \in Nat : k = m - 1 /\ m \in Nat /\ m > 0 /\ \A i \in 1 .. m : i < m => i \in 1 .. k
        OBVIOUS
    <2>2. PICK h \in Seq(R) : h = g[k]
        BY Zenon, <1>5, <2>1
    <2>3. PICK s \in Seq(R) : s = ss[m]
        BY Zenon, <1>3, <1>5
    <2>4. g[m] = h \o ss[m]
        BY Zenon, <1>2, <1>5, <2>1, <2>2
    <2>5. h \o s \in Seq(R)
        OBVIOUS
    <2>6. ASSUME NEW i \in 1 .. m, NEW j \in DOMAIN ss[i] PROVE \E p : Lies(h \o ss[m], ss, m, i, j, p)
        <3>1. i < m => \E p : Lies(h, ss, m - 1, i, j, p)
            BY Zenon, <1>5, <2>1, <2>2
        <3> HIDE DEF Good
        <3> QED BY Zenon, <2>1, <2>3, <3>1, LiesNext
    <2> QED BY Zenon, <2>3, <2>4, <2>5, <2>6
<1> HIDE DEF Good
<1>6. PICK T : T = {m \in Nat : m <= n /\ ~Good(m)}
    BY Zenon
<1>7. T = {}
    <2>1. SUFFICES ASSUME T # {} PROVE FALSE
        BY Zenon
    <2>2. PICK m : m = Min(T)
        BY Zenon
    <2>3. m \in T /\ \A y \in T : m <= y
        <3>1. T \in SUBSET Nat
            BY Zenon, <1>6
        <3> QED BY Zenon, <2>1, <2>2, <3>1, LeastOf
    <2>4. m \in Nat /\ m <= n /\ ~Good(m)
        BY Zenon, <1>6, <2>3
    <2>5. m # 0
        BY Zenon, <1>4, <2>4
    <2>6. m \in 1 .. n /\ m - 1 \in Nat /\ m - 1 <= n /\ ~(m <= m - 1)
        BY <1>1, <2>4, <2>5
    <2>7. Good(m - 1)
        BY Zenon, <1>6, <2>3, <2>6
    <2> QED BY Zenon, <1>5, <2>4, <2>6, <2>7
<1>8. n \in Nat /\ n <= n
    BY <1>1
<1>9. Good(n)
    BY Zenon, <1>6, <1>7, <1>8
<1> QED BY Zenon, <1>1, <1>2, <1>9 DEF Good

\* c is record p of rs and, when c is a watch or unwatch, the last one of its
\* client.
LastIn(rs, c, p) ==
  /\ p \in DOMAIN rs /\ rs[p] = c
  /\ IsWatch(c) => \A q \in DOMAIN rs : p < q => ~(IsWatch(rs[q]) /\ rs[q].key = c.key)

LEMMA RecordsFacts ==
    ASSUME NEW segs, Sealed(segs), NEW c
    PROVE  /\ Records(segs) \in Seq(Record)
           /\ InLog(segs, c) => \E p : LastIn(Records(segs), c, p)
<1>1. PICK n \in Nat : n = Len(segs) /\ DOMAIN segs = 1 .. n /\ segs \in Seq(Segment)
    BY DEF Sealed
<1>2. PICK ss : ss = [i \in DOMAIN segs |-> segs[i].fr]
    BY Zenon
<1>3. ASSUME NEW i \in 1 .. n PROVE segs[i].fr \in Seq(Record)
    <2>1. segs[i] \in Segment
        BY <1>1
    <2> QED BY Zenon, <2>1, SegmentFacts
<1>4. ss \in Seq(Seq(Record)) /\ Len(ss) = n
    <2>1. ss = [i \in 1 .. n |-> segs[i].fr]
        BY Zenon, <1>1, <1>2
    <2>2. ss \in [1 .. n -> Seq(Record)]
        BY Zenon, <1>3, <2>1
    <2> QED BY <2>2
<1>5. DOMAIN ss = DOMAIN segs /\ \A i \in DOMAIN segs : ss[i] = segs[i].fr
    BY Zenon, <1>2
<1>6. PICK rs : rs = Records(segs) /\ rs = Joined(ss)
    BY Zenon, <1>2 DEF Records
<1>7. rs \in Seq(Record) /\ \A i \in DOMAIN ss : \A j \in DOMAIN ss[i] : \E p : Lies(rs, ss, n, i, j, p)
    BY Zenon, <1>4, <1>6, JoinedFacts
<1>8. ASSUME InLog(segs, c) PROVE \E p : LastIn(rs, c, p)
    <2>1. PICK i \in Nat, j \in Nat : Holds(segs, c, i, j)
        BY Zenon, <1>8 DEF InLog
    <2>2. i \in DOMAIN ss /\ j \in DOMAIN ss[i] /\ ss[i][j] = c
        BY Zenon, <1>5, <2>1 DEF Holds
    <2>3. PICK p : Lies(rs, ss, n, i, j, p)
        BY Zenon, <1>7, <2>2
    <2>4. p \in DOMAIN rs /\ rs[p] = c
        BY Zenon, <2>2, <2>3 DEF Lies
    <2>5. ASSUME IsWatch(c), NEW q \in DOMAIN rs, p < q PROVE ~(IsWatch(rs[q]) /\ rs[q].key = c.key)
        <3>1. PICK k \in 1 .. n : \E l \in DOMAIN ss[k] : (i < k \/ (i = k /\ j < l)) /\ ss[k][l] = rs[q]
            BY Zenon, <2>3, <2>5 DEF Lies
        <3>2. PICK l \in DOMAIN ss[k] : (i < k \/ (i = k /\ j < l)) /\ ss[k][l] = rs[q]
            BY Zenon, <3>1
        <3>3. k \in DOMAIN segs /\ l \in DOMAIN segs[k].fr /\ segs[k].fr[l] = rs[q]
            BY Zenon, <1>1, <1>5, <3>2
        <3> QED BY Zenon, <2>1, <2>5, <3>2, <3>3 DEF Holds
    <2> QED BY Zenon, <2>4, <2>5 DEF LastIn
<1> QED BY Zenon, <1>6, <1>7, <1>8

LEMMA LeastOrEnd ==
    ASSUME NEW n \in Nat, NEW S, S \in SUBSET (1 .. n)
    PROVE  LET k == Min(S \cup {n + 1})
           IN  k \in 1 .. n + 1 /\ (k <= n => k \in S) /\ \A i \in S : k <= i
<1>1. PICK T : T = S \cup {n + 1}
    BY Zenon
<1>2. T \in SUBSET (1 .. n + 1)
    BY <1>1
<1>3. T \in SUBSET Nat /\ T # {}
    BY <1>1, <1>2
<1>4. PICK k : k = Min(T)
    BY Zenon
<1>5. k \in T /\ \A y \in T : k <= y
    BY Zenon, <1>3, <1>4, LeastOf
<1>6. k \in 1 .. n + 1
    BY Zenon, <1>2, <1>5
<1>7. k <= n => k \in S
    <2>1. k <= n => k # n + 1
        BY <1>6
    <2> QED BY Zenon, <1>1, <1>5, <2>1
<1> QED BY Zenon, <1>1, <1>4, <1>5, <1>6, <1>7

LEMMA StopFacts ==
    ASSUME NEW rs \in Seq(Record), NEW n \in Nat, n = Len(rs), DOMAIN rs = 1 .. n
    PROVE  LET k == StopsAt(rs)
           IN  k \in 1 .. n + 1 /\ (k <= n => Stops(rs[k]))
<1>1. PICK S : S = {i \in DOMAIN rs : Stops(rs[i])}
    BY Zenon
<1>2. S \in SUBSET (1 .. n) /\ StopsAt(rs) = Min(S \cup {n + 1})
    BY Zenon, <1>1 DEF StopsAt
<1>3. PICK k : k = Min(S \cup {n + 1}) /\ k \in 1 .. n + 1 /\ (k <= n => k \in S)
    BY ZenonT(40), <1>2, LeastOrEnd
<1> QED BY Zenon, <1>1, <1>2, <1>3

LEMMA WatchReadBack ==
    ASSUME NEW segs, Sealed(segs), NEW c, InLog(segs, c), IsWatch(c), c \notin Behind(segs)
    PROVE  \E p : LastIn(ReadBack(segs), c, p) /\ Len(ReadBack(segs)) \in Nat
                  /\ DOMAIN ReadBack(segs) = 1 .. Len(ReadBack(segs))
<1>1. PICK rs \in Seq(Record) : rs = Records(segs)
    BY Zenon, RecordsFacts
<1>2. PICK p : LastIn(rs, c, p)
    BY Zenon, <1>1, RecordsFacts
<1>3. PICK n \in Nat : n = Len(rs) /\ DOMAIN rs = 1 .. n
    OBVIOUS
<1>4. PICK k : k = StopsAt(rs) /\ k \in 1 .. n + 1 /\ (k <= n => Stops(rs[k]))
    BY Zenon, <1>3, StopFacts
<1>5. p \in 1 .. n /\ rs[p] = c
    BY Zenon, <1>2, <1>3 DEF LastIn
<1>6. ~Stops(c)
    BY Zenon, WatchFacts DEF Stops, IsWatch
<1>7. p # k
    BY <1>3, <1>4, <1>5, <1>6
<1>8. ~(p \in k + 1 .. n)
    <2>1. Behind(segs) = {rs[i] : i \in StopsAt(rs) + 1 .. Len(rs)}
        BY Zenon, <1>1 DEF Behind
    <2> QED BY Zenon, <1>3, <1>4, <1>5, <2>1
<1>9. p \in 1 .. k - 1 /\ k - 1 \in Nat /\ k - 1 <= n
    BY <1>3, <1>4, <1>5, <1>7, <1>8
<1>10. PICK m \in Nat : m = k - 1
    BY Zenon, <1>9
<1>11. PICK rb : rb = ReadBack(segs) /\ rb = SubSeq(rs, 1, m)
    BY Zenon, <1>1, <1>4, <1>10 DEF ReadBack
<1>12. rb = [i \in 1 .. m |-> rs[i]]
    BY <1>3, <1>9, <1>10, <1>11
<1>13. Len(rb) = m /\ DOMAIN rb = 1 .. m /\ \A i \in 1 .. m : rb[i] = rs[i]
    BY <1>12
<1>14. \A q \in 1 .. m : q \in 1 .. n
    BY <1>3, <1>9, <1>10
<1>15. LastIn(rb, c, p)
    BY Zenon, <1>2, <1>3, <1>5, <1>9, <1>10, <1>13, <1>14 DEF LastIn
<1> QED BY Zenon, <1>11, <1>13, <1>15

\* The subscriptions a replay restores agree with the last watch or unwatch.
LEMMA SubsRestored ==
    ASSUME NEW rb, NEW n \in Nat, n = Len(rb), DOMAIN rb = 1 .. n, NEW c, NEW p, LastIn(rb, c, p), IsWatch(c)
    PROVE  c.key \in RestoredSubs(rb) <=> c.op = "sub"
<1>1. p \in 1 .. n /\ rb[p] = c /\ (c.op = "sub" \/ c.op = "unsub")
    BY Zenon DEF LastIn, IsWatch
<1>2. ASSUME NEW q \in 1 .. n, p < q, rb[q].op = "sub" \/ rb[q].op = "unsub" PROVE rb[q].key # c.key
    BY Zenon, <1>2 DEF LastIn, IsWatch
<1> DEFINE Kept == {j \in DOMAIN rb : /\ rb[j].op = "sub"
                      /\ \A later \in j + 1 .. Len(rb) : rb[later].op = "unsub" => rb[later].key # rb[j].key}
<1>3. RestoredSubs(rb) = {rb[i].key : i \in Kept}
    BY Zenon DEF RestoredSubs
<1>4. CASE c.op = "sub"
    <2>1. \A later \in p + 1 .. n : later \in 1 .. n /\ p < later
        BY <1>1
    <2>2. p \in Kept
        BY Zenon, <1>1, <1>2, <1>4, <2>1
    <2> HIDE DEF Kept
    <2> QED BY Zenon, <1>1, <1>3, <1>4, <2>2
<1>5. CASE c.op = "unsub"
    <2>1. ASSUME NEW j \in Kept, rb[j].key = c.key PROVE FALSE
        <3>1. j \in 1 .. n /\ rb[j].op = "sub"
            BY Zenon, <2>1
        <3>2. j # p
            BY Zenon, <1>1, <1>5, <3>1
        <3>3. p < j \/ p \in j + 1 .. n
            BY <1>1, <3>1, <3>2
        <3>4. CASE p < j
            BY Zenon, <1>2, <2>1, <3>1, <3>4
        <3>5. CASE p \in j + 1 .. n
            BY Zenon, <1>1, <1>5, <2>1, <3>5
        <3> QED BY Zenon, <3>3, <3>4, <3>5
    <2> HIDE DEF Kept
    <2> QED BY Zenon, <1>3, <1>5, <2>1
<1> QED BY Zenon, <1>1, <1>4, <1>5

LEMMA OperationFacts ==
    /\ NoCommand.op = "none" /\ TornRecord.op = "torn" /\ \A h \in Nat : Preamble(h).op = "manifest"
<1>1. ASSUME NEW b, NEW h
      PROVE  LET r == [op |-> "none", key |-> "none", at |-> 0, durable |-> b, id |-> 0]
             IN  /\ r.op = "none"
                 /\ [r EXCEPT !.op = "torn"].op = "torn"
                 /\ [r EXCEPT !.op = "manifest", !.id = h].op = "manifest"
    BY Zenon
<1> QED BY Zenon, <1>1 DEF NoCommand, TornRecord, Preamble

\* The records that stop a replay still do when time has passed.
LEMMA BehindGrows ==
    ASSUME NEW segs, Sealed(segs), clock \in Nat, clock' = clock + 1
    PROVE  Behind(segs) \subseteq Behind(segs)'
<1>1. PICK rs \in Seq(Record) : rs = Records(segs)
    BY Zenon, RecordsFacts
<1>2. PICK n \in Nat : n = Len(rs) /\ DOMAIN rs = 1 .. n
    OBVIOUS
<1>3. ASSUME NEW r \in Record, Stops(r) PROVE Stops(r)'
    <2>1. CASE r.op = "getexexat" /\ Fails(r)
        <3>1. r \in Command
            BY Zenon, <2>1, OperationFacts DEF Record
        <3>2. r.at \in Nat
            BY Zenon, <3>1 DEF Command
        <3>3. r.op \in Absolute /\ r.at <= clock
            BY Zenon, <2>1 DEF Fails
        <3>4. r.at <= clock'
            BY <3>2, <3>3
        <3> QED BY Zenon, <2>1, <3>3, <3>4 DEF Stops, Fails
    <2>2. CASE r = TornRecord
        BY Zenon, <2>2 DEF Stops
    <2> QED BY Zenon, <1>3, <2>1, <2>2 DEF Stops
<1>4. PICK k : k = StopsAt(rs) /\ k \in 1 .. n + 1 /\ (k <= n => Stops(rs[k]))
    BY Zenon, <1>2, StopFacts
<1>5. PICK m : m = StopsAt(rs)' /\ m \in 1 .. n + 1 /\ \A i \in DOMAIN rs : Stops(rs[i])' => m <= i
    <2>1. PICK S : S = {i \in DOMAIN rs : Stops(rs[i])'}
        BY Zenon
    <2>2. S \in SUBSET (1 .. n) /\ StopsAt(rs)' = Min(S \cup {n + 1})
        BY Zenon, <1>2, <2>1 DEF StopsAt
    <2>3. PICK e : e = Min(S \cup {n + 1}) /\ e \in 1 .. n + 1 /\ \A i \in S : e <= i
        <3>1. S \in SUBSET (1 .. n)
            BY Zenon, <2>2
        <3>2. LET z == Min(S \cup {n + 1}) IN z \in 1 .. n + 1 /\ (z <= n => z \in S) /\ \A i \in S : z <= i
            BY Zenon, <3>1, LeastOrEnd
        <3> QED BY Zenon, <3>2
    <2>4. \A i \in DOMAIN rs : Stops(rs[i])' => i \in S
        BY Zenon, <2>1
    <2> QED BY Zenon, <2>2, <2>3, <2>4
<1>6. m <= k
    <2>1. CASE k <= n
        <3>1. k \in DOMAIN rs /\ rs[k] \in Record
            BY <1>2, <1>4, <2>1
        <3> QED BY Zenon, <1>3, <1>4, <1>5, <2>1, <3>1
    <2>2. CASE ~(k <= n)
        BY <1>2, <1>4, <1>5, <2>2
    <2> QED BY Zenon, <2>1, <2>2
<1>7. \A i \in k + 1 .. n : i \in m + 1 .. n
    BY <1>2, <1>4, <1>5, <1>6
<1>8. Behind(segs) = {rs[i] : i \in k + 1 .. n} /\ Behind(segs)' = {rs[i] : i \in m + 1 .. n}
    BY Zenon, <1>1, <1>2, <1>4, <1>5 DEF Behind
<1> QED BY Zenon, <1>7, <1>8

WatchInv == clock \in Nat /\ WatchesRestored

LEMMA ReplayRestoresWatches ==
    ASSUME PreambleInv, DurableInv, BootReplay PROVE WatchesRestored'
<1>1. PICK segs : segs = disk.segs /\ Sealed(segs)
    BY Zenon DEF DurableInv
<1>2. disk' = disk /\ past' = past /\ clock' = clock
    BY Zenon DEF BootReplay
<1>3. srv'.subs = RestoredSubs(ReadBack(segs))
    <2>1. srv = [f \in {"st", "mani", "hash", "store", "subs"} |-> srv[f]]
        BY Zenon DEF PreambleInv
    <2>2. srv' = [srv EXCEPT !.st = "restored", !.store = Restored(ReadBack(segs)),
                             !.subs = RestoredSubs(ReadBack(segs))]
        BY Zenon, <1>1 DEF BootReplay
    <2> QED BY Zenon, <2>1, <2>2
<1>4. Behind(disk.segs)' = Behind(segs)
    BY ZenonT(40), <1>1, <1>2 DEF Behind, StopsAt, Stops, Fails
<1>5. ASSUME NEW t \in Threads, NEW c, c = past.want[t], c # NoCommand, c \notin Behind(segs)
      PROVE  t \in srv'.subs <=> c.op = "sub"
    <2>1. IsWatch(c) /\ c.key = t /\ OnDisk(segs, c)
        BY Zenon, <1>1, <1>5 DEF DurableInv, WantOk
    <2>2. InLog(segs, c)
        BY Zenon, <2>1 DEF OnDisk, InLog
    <2>3. PICK rb : rb = ReadBack(segs)
        BY Zenon
    <2>4. PICK p : LastIn(rb, c, p) /\ Len(rb) \in Nat /\ DOMAIN rb = 1 .. Len(rb)
        BY Zenon, <1>1, <1>5, <2>1, <2>2, <2>3, WatchReadBack
    <2>5. c.key \in RestoredSubs(rb) <=> c.op = "sub"
        BY Zenon, <2>1, <2>4, SubsRestored
    <2> QED BY Zenon, <1>3, <2>1, <2>3, <2>5
<1> QED BY Zenon, <1>2, <1>4, <1>5 DEF WatchesRestored

LEMMA WatchStep == PreambleInv /\ DurableInv /\ WatchInv /\ [RecoveryNext]_rvars => WatchInv'
<1> SUFFICES ASSUME PreambleInv, DurableInv, WatchInv, [RecoveryNext]_rvars PROVE WatchInv'
    OBVIOUS
<1>1. CASE ClockTick
    <2>1. clock' = clock + 1 /\ disk' = disk /\ srv' = srv /\ past' = past
        BY Zenon, <1>1 DEF ClockTick
    <2>2. clock \in Nat /\ clock' \in Nat
        BY <2>1 DEF WatchInv
    <2>3. PICK segs : segs = disk.segs /\ Sealed(segs)
        BY Zenon DEF DurableInv
    <2>4. Behind(segs) \subseteq Behind(segs)'
        BY Zenon, <2>1, <2>2, <2>3, BehindGrows
    <2>5. Behind(disk.segs)' = Behind(segs)'
        BY ZenonT(40), <2>1, <2>3 DEF Behind, StopsAt, Stops, Fails
    <2>6. Behind(disk.segs) \subseteq Behind(disk.segs)'
        BY Zenon, <2>3, <2>4, <2>5
    <2> QED BY Zenon, <2>1, <2>2, <2>6 DEF WatchInv, WatchesRestored
<1>2. CASE UNCHANGED rvars
    BY ZenonT(40), <1>2 DEF rvars, WatchInv, WatchesRestored, Behind, StopsAt, Stops, Fails
<1>3. CASE BootReplay
    <2>1. clock' = clock
        BY Zenon, <1>3 DEF BootReplay
    <2> QED BY Zenon, <1>3, <2>1, ReplayRestoresWatches DEF WatchInv
<1>4. ASSUME clock' = clock, srv'.st # "restored" PROVE WatchInv'
    BY Zenon, <1>4 DEF WatchInv, WatchesRestored
<1>5. srv = [f \in {"st", "mani", "hash", "store", "subs"} |-> srv[f]]
    BY Zenon DEF PreambleInv
<1>6. CASE \E t \in Threads : Execute(t) \/ LogStep(t) \/ SyncStep(t) \/ Disconnect(t)
    <2>1. PICK t \in Threads : Execute(t) \/ LogStep(t) \/ SyncStep(t) \/ Disconnect(t)
        BY Zenon, <1>6
    <2>2. clock' = clock
        BY Zenon, <2>1 DEF Execute, LogStep, SyncStep, Disconnect
    <2>3. srv.st = "up"
        BY Zenon, <2>1 DEF Execute, LogStep, SyncStep, Disconnect, PreambleInv
    <2>4. srv'.st = srv.st
        BY Zenon, <1>5, <2>1 DEF Execute, ExecuteCommand, LogStep, SyncStep, Disconnect
    <2> QED BY Zenon, <1>4, <2>2, <2>3, <2>4
<1>7. CASE Ticker
    BY Zenon, <1>4, <1>7 DEF Ticker
<1>8. CASE Crashes
    <2>1. clock' = clock /\ srv'.st = "down"
        BY Zenon, <1>8 DEF Crashes, Down
    <2> QED BY Zenon, <1>4, <2>1
<1>9. CASE BootManifest
    <2>1. clock' = clock /\ srv.st = "down"
        BY Zenon, <1>9 DEF BootManifest
    <2>2. srv'.st = "refused" \/ srv'.st = "opening"
        BY Zenon, <1>5, <1>9 DEF BootManifest, LoadManifest
    <2> QED BY Zenon, <1>4, <2>1, <2>2
<1>10. CASE BootOpen
    <2>1. clock' = clock /\ (srv'.st = "refused" \/ srv'.st = "replaying")
        BY Zenon, <1>5, <1>10 DEF BootOpen
    <2> QED BY Zenon, <1>4, <2>1
<1>11. CASE BootServe
    <2>1. clock' = clock /\ srv'.st = "up"
        BY Zenon, <1>5, <1>11 DEF BootServe
    <2> QED BY Zenon, <1>4, <2>1
<1> QED BY Zenon, <1>1, <1>2, <1>3, <1>6, <1>7, <1>8, <1>9, <1>10, <1>11 DEF RecoveryNext

LEMMA WatchInit == RecoveryInit => WatchInv
<1> SUFFICES ASSUME RecoveryInit PROVE WatchInv
    OBVIOUS
<1>1. clock \in Nat
    BY DEF RecoveryInit
<1>2. srv.st = "down"
    BY Zenon DEF RecoveryInit, Down
<1> QED BY Zenon, <1>1, <1>2 DEF WatchInv, WatchesRestored

\* After every restart a client whose last answered watch or unwatch is a
\* watch is subscribed, and one whose last is an unwatch is not, unless its
\* record lies behind one that stops the replay (HandleWatch, HandleUnwatch,
\* RestoreSubscription, RemoveSubscription): for every configuration and any
\* number of clients, commands, rotations, crashes and clock ticks.
THEOREM WatchesSurvive == RecoverySpec => []WatchesRestored
<1> DEFINE Inv == PreambleInv /\ DurableInv /\ WatchInv
<1>1. RecoveryInit => Inv
    BY Zenon, PreambleInvInit, DurableInit, WatchInit
<1>2. Inv /\ [RecoveryNext]_rvars => Inv'
    BY Zenon, PreambleInvStep, DurableStep, WatchStep
<1>3. Inv => WatchesRestored
    BY Zenon DEF WatchInv
<1> QED BY <1>1, <1>2, <1>3, PTL DEF RecoverySpec

\* leader_notifier.go:16-20,67-72: the gate, the status and the goroutines'
\* local variables keep their types.
THEOREM GateTypeCorrect == Spec => []TypeOK
<1>1. Init => TypeOK
  BY DEF Init, TypeOK, Places
<1>2. TypeOK /\ [Next]_vars => TypeOK'
  <2> SUFFICES ASSUME TypeOK, [Next]_vars PROVE TypeOK'
    BY Zenon
  <2> USE DEF TypeOK, Places
  <2>1. ASSUME NEW n \in Nodes, Elect(n) PROVE TypeOK'
    BY <2>1 DEF Elect
  <2>2. ASSUME NEW n \in Nodes, StepDown(n) PROVE TypeOK'
    BY Zenon, <2>2 DEF StepDown
  <2>3. ASSUME NEW n \in Nodes, NEW c \in Controllers, Controller(n, c)
        PROVE  TypeOK'
    <3>1. CASE StartRead(n, c) BY Zenon, <3>1 DEF StartRead, Goto
    <3>2. CASE StartSet(n, c) BY Zenon, <3>2 DEF StartSet, Goto
    <3>3. CASE LoopEnter(n, c) BY Zenon, <3>3 DEF LoopEnter, Goto
    <3>4. CASE Tick(n, c) BY Zenon, <3>4 DEF Tick, Goto
    <3>5. CASE Store(n, c) BY Zenon, <3>5 DEF Store, Goto
    <3> QED BY Zenon, <2>3, <3>1, <3>2, <3>3, <3>4, <3>5 DEF Controller
  <2>4. CASE UNCHANGED vars
    BY Zenon, <2>4 DEF vars
  <2> QED BY Zenon, <2>1, <2>2, <2>3, <2>4 DEF Next
<1> QED BY <1>1, <1>2, PTL DEF Spec

\* While a Start is between its two status readings, the first is current.
StartView == \A n \in Nodes, c \in Controllers :
                 gatePc[n][c] \in {"set", "go"} => prev[n][c] = isLeader[n]

GateInv == TypeOK /\ StartView /\ GateOwned

\* A step of the polling goroutines or of the elections keeps the invariant,
\* as long as no leadership change falls inside a Start.
LEMMA GateInvStep ==
    ASSUME QuietStart, GateInv, TypeOK', [Next]_vars
    PROVE  GateInv'
<1> USE DEF TypeOK, GateInv
<1>1. ASSUME NEW m \in Nodes, Elect(m) \/ StepDown(m) PROVE GateInv'
  <2>1. NotStarting(m) /\ UNCHANGED <<enabled, gatePc, prev>>
        /\ \A n \in Nodes : n # m => isLeader'[n] = isLeader[n]
    BY Zenon, <1>1 DEF Elect, StepDown
  <2>2. StartView'
    BY Zenon, <2>1 DEF StartView, NotStarting
  <2>3. GateOwned'
    BY <2>1 DEF GateOwned, NotStarting
  <2> QED BY Zenon, <2>2, <2>3
<1>2. ASSUME NEW m \in Nodes, NEW d \in Controllers, Controller(m, d)
      PROVE  GateInv'
  <2>1. StartView'
    <3>1. CASE StartRead(m, d) BY <3>1 DEF StartRead, Goto, StartView
    <3>2. CASE StartSet(m, d) BY <3>2 DEF StartSet, Goto, StartView
    <3>3. CASE LoopEnter(m, d) BY <3>3 DEF LoopEnter, Goto, StartView
    <3>4. CASE Tick(m, d) BY <3>4 DEF Tick, Goto, StartView
    <3>5. CASE Store(m, d) BY <3>5 DEF Store, Goto, StartView
    <3> QED BY Zenon, <1>2, <3>1, <3>2, <3>3, <3>4, <3>5 DEF Controller
  <2>2. ASSUME NEW n \in Nodes
        PROVE  \/ \A c \in Controllers : gatePc'[n][c] = "new"
               \/ \E c \in Controllers :
                    \/ gatePc'[n][c] \in {"set", "store"}
                    \/ gatePc'[n][c] = "loop" /\ prev'[n][c] = enabled'[n]
                    \/ gatePc'[n][c] = "go" /\ prev'[n][c] = enabled'[n]
                                        /\ prev'[n][c] = isLeader'[n]
    <3>1. CASE n # m
      <4>1. /\ gatePc'[n] = gatePc[n] /\ prev'[n] = prev[n]
            /\ enabled'[n] = enabled[n] /\ isLeader'[n] = isLeader[n]
        BY <1>2, <3>1 DEF Controller, StartRead, StartSet, LoopEnter, Tick,
                          Store, Goto
      <4>2. CASE \A c \in Controllers : gatePc[n][c] = "new"
        BY Zenon, <4>1, <4>2
      <4>3. ASSUME NEW c \in Controllers,
                   \/ gatePc[n][c] \in {"set", "store"}
                   \/ gatePc[n][c] = "loop" /\ prev[n][c] = enabled[n]
                   \/ gatePc[n][c] = "go" /\ prev[n][c] = enabled[n] /\ prev[n][c] = isLeader[n]
            PROVE  \E b \in Controllers :
                   \/ gatePc'[n][b] \in {"set", "store"}
                   \/ gatePc'[n][b] = "loop" /\ prev'[n][b] = enabled'[n]
                   \/ gatePc'[n][b] = "go" /\ prev'[n][b] = enabled'[n] /\ prev'[n][b] = isLeader'[n]
        BY Zenon, <4>1, <4>3
      <4> QED BY Zenon, <4>2, <4>3 DEF GateOwned
    <3>2. CASE n = m
      <4>1. CASE StartRead(m, d)
        BY <3>2, <4>1 DEF StartRead, Goto
      <4>2. CASE StartSet(m, d)
        BY <3>2, <4>2 DEF StartSet, Goto, StartView
      <4>3. CASE LoopEnter(m, d)
        BY <3>2, <4>3 DEF LoopEnter, Goto, GateOwned
      <4>4. CASE Tick(m, d)
        BY <3>2, <4>4 DEF Tick, Goto
      <4>5. CASE Store(m, d)
        BY <3>2, <4>5 DEF Store, Goto
      <4> QED BY Zenon, <1>2, <4>1, <4>2, <4>3, <4>4, <4>5 DEF Controller
    <3> QED BY Zenon, <3>1, <3>2
  <2> QED BY Zenon, <2>1, <2>2 DEF GateOwned
<1>3. CASE UNCHANGED vars
  BY <1>3 DEF vars, StartView, GateOwned
<1> QED BY Zenon, <1>1, <1>2, <1>3 DEF Next

\* leader_notifier.go:79-107: with no leadership change inside a Start, the gate of
\* every node shows what some goroutine last acted on, or one is about to set it.
THEOREM GateHasOwner == QuietStart /\ Spec => []GateOwned
<1> SUFFICES ASSUME QuietStart PROVE Spec => []GateOwned
  BY Zenon
<1>1. Init => GateInv
  BY DEF Init, GateInv, TypeOK, Places, StartView, GateOwned
<1>2. GateInv /\ TypeOK' /\ [Next]_vars => GateInv'
  BY Zenon, GateInvStep
<1>3. GateInv => GateOwned
  BY Zenon DEF GateInv
<1> QED BY <1>1, <1>2, <1>3, GateTypeCorrect, PTL DEF Spec

\* leader_notifier.go:79-107: with no leadership change inside a Start, a gate
\* that no poll will correct any more is open exactly on the leader.
THEOREM SettledGate == QuietStart /\ Spec => []SettledGateIsRight
<1> SUFFICES ASSUME QuietStart PROVE Spec => []SettledGateIsRight
  OBVIOUS
<1>1. Init => GateInv
  BY DEF Init, GateInv, TypeOK, Places, StartView, GateOwned
<1>2. GateInv /\ TypeOK' /\ [Next]_vars => GateInv'
  BY GateInvStep
<1>3. GateInv => SettledGateIsRight
  BY GateAssumption DEF GateInv, GateOwned, SettledGateIsRight, Settled
<1> QED BY <1>1, <1>2, <1>3, GateTypeCorrect, PTL DEF Spec

----------------------------------------------------------------------------
(* The transport's streams *)

ConnStates   == {"none", "open", "broken", "closed"}
ReaderStates == {"none", "recv", "remove", "close", "done"}
DialerStates == {"idle", "check", "dial", "stream", "install", "drop"}

LEMMA ConnsType == 0 \notin Conns
BY TransportAssumption DEF Conns

\* A new goroutine takes the place of an idle one.
LEMMA SpawnedFacts ==
  ASSUME NEW ds \in [Dialers -> [at : DialerStates, hold : Conns \cup {0}]]
  PROVE  /\ Spawned(ds) \in [Dialers -> [at : DialerStates, hold : Conns \cup {0}]]
         /\ \A d \in Dialers :
              \/ Spawned(ds)[d] = ds[d]
              \/ ds[d].at = "idle" /\ Spawned(ds)[d] = [at |-> "check", hold |-> 0]
<1> DEFINE idle == {d \in Dialers : ds[d].at = "idle"}
           new  == CHOOSE d \in idle : TRUE
<1>1. CASE idle = {}
  BY Zenon, <1>1 DEF Spawned
<1>2. CASE idle # {}
  <2>1. new \in idle
    BY Zenon, <1>2
  <2>2. Spawned(ds) = [ds EXCEPT ![new] = [at |-> "check", hold |-> 0]]
    BY Zenon, <1>2 DEF Spawned
  <2> QED BY <2>1, <2>2 DEF DialerStates
<1> QED BY Zenon, <1>1, <1>2

LEMMA RestType ==
  /\ AtRest \in [at : DialerStates, hold : Conns \cup {0}]
  /\ AtRest.at = "idle" /\ AtRest.hold = 0
BY Zenon DEF AtRest, DialerStates

LEMMA UnusedType ==
  /\ Unused.reader = "none" /\ Unused.hold = 0
  /\ [Unused EXCEPT !.st = "open"] = [st |-> "open", reader |-> "none", hold |-> 0]
BY DEF Unused

\* What a step may do to the connections, the goroutines and the table.
ConnType == conn \in [Conns -> [st : ConnStates, reader : ReaderStates, hold : Conns \cup {0}]]
DialType == dialer \in [Dialers -> [at : DialerStates, hold : Conns \cup {0}]]
SendType == sender \in [at : {"idle", "send", "remove", "close", "redial"}, hold : Conns \cup {0}]
TabType  == table \in Conns \cup {0}

\* A goroutine holds a connection exactly while it is opening or installing.
DialerHolds == \A d \in Dialers :
                 /\ dialer[d].at \in {"idle", "check", "dial"} => dialer[d].hold = 0
                 /\ dialer[d].at \in {"stream", "install", "drop"} => dialer[d].hold \in Conns

\* A connection that is not installed yet has no reader and one holder.
FreshHold == \A d \in Dialers : dialer[d].hold \in Conns =>
               /\ conn[dialer[d].hold].reader = "none"
               /\ \A e \in Dialers : e # d => dialer[e].hold # dialer[d].hold

IInv == /\ ConnType /\ DialType /\ SendType /\ TabType
        /\ DialerHolds /\ FreshHold /\ NoStrayStream /\ TableWatched

LEMMA InitInv == TransportInit => IInv
<1> SUFFICES ASSUME TransportInit PROVE IInv
  OBVIOUS
<1> USE DEF TransportInit, Unused, AtRest
<1>1. ConnType /\ DialType /\ SendType /\ TabType
  BY Zenon DEF ConnType, DialType, SendType, TabType, ConnStates, ReaderStates, DialerStates
<1>2. DialerHolds /\ FreshHold /\ NoStrayStream /\ TableWatched
  BY Zenon, ConnsType DEF DialerHolds, FreshHold, NoStrayStream, TableWatched
<1> QED BY Zenon, <1>1, <1>2 DEF IInv

\* Starting a goroutine disturbs nothing.
LEMMA SpawnStep ==
  ASSUME IInv, dialer' = Spawned(dialer), UNCHANGED <<table, conn>>, SendType',
         sender'.at = "close" <=> sender.at = "close", sender.at = "close" => UNCHANGED sender
  PROVE  IInv'
<1>1. DialType' /\ \A d \in Dialers : \/ dialer'[d] = dialer[d]
                                      \/ dialer[d].at = "idle" /\ dialer'[d] = [at |-> "check", hold |-> 0]
  BY Zenon, SpawnedFacts DEF IInv, DialType
<1>2. DialerHolds' /\ FreshHold'
  BY <1>1, ConnsType DEF IInv, DialerHolds, FreshHold
<1>3. ASSUME NEW c \in Conns, InHand(c) PROVE InHand(c)'
  BY Zenon, <1>1, <1>3, ConnsType DEF IInv, InHand, DialerHolds
<1>4. NoStrayStream'
  BY Zenon, <1>3 DEF IInv, NoStrayStream
<1> QED BY Zenon, <1>1, <1>2, <1>4 DEF IInv, ConnType, TabType, TableWatched

\* Facts about a goroutine that holds a connection and about closing one.
LEMMA ClosedFacts ==
  ASSUME ConnType, NEW c \in Conns
  PROVE  /\ Closed(conn, c) \in [Conns -> [st : ConnStates, reader : ReaderStates,
                                           hold : Conns \cup {0}]]
         /\ Closed(conn, c)[c].st = "closed"
         /\ \A r \in Conns : /\ Closed(conn, c)[r].reader = conn[r].reader
                             /\ Closed(conn, c)[r].hold = conn[r].hold
                             /\ r # c => Closed(conn, c)[r] = conn[r]
BY Zenon DEF ConnType, Closed, ConnStates

\* A goroutine that lets go of its connection, or keeps it, disturbs no other.
LEMMA FreshStep ==
  ASSUME IInv, DialType', NEW d \in Dialers,
         \A e \in Dialers : e # d => dialer'[e] = dialer[e],
         dialer'[d].hold \in {0, dialer[d].hold},
         \A r \in Conns : \/ conn'[r].reader = conn[r].reader
                          \/ r = dialer[d].hold /\ dialer'[d].hold = 0
  PROVE  FreshHold'
<1> SUFFICES ASSUME NEW e \in Dialers, dialer'[e].hold \in Conns
             PROVE  /\ conn'[dialer'[e].hold].reader = "none"
                    /\ \A g \in Dialers : g # e => dialer'[g].hold # dialer'[e].hold
  BY Zenon DEF FreshHold
<1>1. dialer'[e].hold = dialer[e].hold
  BY Zenon, ConnsType
<1>2. conn'[dialer[e].hold].reader = conn[dialer[e].hold].reader
  BY <1>1, ConnsType DEF IInv, FreshHold
<1>3. ASSUME NEW g \in Dialers, g # e PROVE dialer'[g].hold # dialer'[e].hold
  BY <1>1, <1>3, ConnsType DEF IInv, FreshHold
<1> QED BY Zenon, <1>1, <1>2, <1>3 DEF IInv, FreshHold

\* ensurePeerStream.
LEMMA DiallingStep ==
  ASSUME IInv, NEW d \in Dialers, Dialling(d)
  PROVE  IInv'
<1> USE ConnsType, RestType
<1> DEFINE h == dialer[d].hold
<1>0. sender' = sender /\ SendType'
  BY Zenon DEF IInv, SendType, Dialling, Check, Dial, OpenStream, Install, Drop
<1>1. CASE Check(d)
  <2>1. /\ UNCHANGED <<table, conn, sender>> /\ DialType'
        /\ \A e \in Dialers : e # d => dialer'[e] = dialer[e]
        /\ h = 0 /\ dialer'[d].at \in {"idle", "dial"} /\ dialer'[d].hold = 0
    BY <1>1 DEF IInv, DialType, DialerStates, Check, At, Move, Return, DialerHolds
  <2>2. DialerHolds'
    BY Zenon, <2>1 DEF IInv, DialerHolds
  <2>3. ASSUME NEW c \in Conns, InHand(c) PROVE InHand(c)'
    BY Zenon, <2>1, <2>3 DEF InHand
  <2>4. FreshHold'
    BY Zenon, <2>1, FreshStep
  <2> QED BY Zenon, <1>0, <2>1, <2>2, <2>3, <2>4 DEF IInv, ConnType, TabType, NoStrayStream, TableWatched
<1>2. CASE Dial(d) /\ dialer' = [dialer EXCEPT ![d].at = "check"] /\ UNCHANGED conn
  <2>1. /\ UNCHANGED <<table, conn, sender>> /\ DialType'
        /\ \A e \in Dialers : e # d => dialer'[e] = dialer[e]
        /\ h = 0 /\ dialer'[d].at = "check" /\ dialer'[d].hold = 0
    BY Zenon, <1>2 DEF IInv, DialType, DialerStates, Dial, At, DialerHolds
  <2>2. DialerHolds'
    BY Zenon, <2>1 DEF IInv, DialerHolds
  <2>3. ASSUME NEW c \in Conns, InHand(c) PROVE InHand(c)'
    BY Zenon, <2>1, <2>3 DEF InHand
  <2>4. FreshHold'
    BY Zenon, <2>1, FreshStep
  <2> QED BY Zenon, <1>0, <2>1, <2>2, <2>3, <2>4 DEF IInv, ConnType, TabType, NoStrayStream, TableWatched
<1>3. CASE Dial(d) /\ ~(dialer' = [dialer EXCEPT ![d].at = "check"] /\ UNCHANGED conn)
  <2>1. PICK n \in Conns :
          /\ n # table /\ h = 0 /\ conn[n].reader \in {"none", "done"} /\ UNCHANGED table
          /\ \A e \in Dialers : dialer[e].hold # n
          /\ conn' = [conn EXCEPT ![n] = [Unused EXCEPT !.st = "open"]]
          /\ dialer' = [dialer EXCEPT ![d] = [at |-> "stream", hold |-> n]]
    BY Zenon, <1>3 DEF IInv, Dial, Reusable, Held, Move, At, DialerHolds
  <2>2. ConnType' /\ conn'[n] = [st |-> "open", reader |-> "none", hold |-> 0]
        /\ \A r \in Conns : r # n => conn'[r] = conn[r]
    BY Zenon, <2>1, UnusedType DEF IInv, ConnType, ConnStates, ReaderStates
  <2>3. DialType' /\ dialer'[d] = [at |-> "stream", hold |-> n]
        /\ \A e \in Dialers : e # d => dialer'[e] = dialer[e]
    BY Zenon, <2>1 DEF IInv, DialType, DialerStates
  <2>4. DialerHolds'
    BY <2>1, <2>3 DEF IInv, DialerHolds
  <2>5. ASSUME NEW c \in Conns, InHand(c) PROVE InHand(c)'
    BY <1>0, <2>1, <2>2, <2>3, <2>5 DEF InHand
  <2>6. NoStrayStream'
    <3>1. InHand(n)'
      BY <2>3 DEF InHand
    <3> QED BY Zenon, <2>1, <2>2, <2>5, <3>1 DEF IInv, NoStrayStream
  <2>7. TableWatched' /\ TabType'
    BY Zenon, <2>1, <2>2 DEF IInv, TableWatched, TabType
  <2>8. FreshHold'
    BY <2>1, <2>2, <2>3 DEF IInv, FreshHold, DialerHolds
  <2> QED BY Zenon, <1>0, <2>2, <2>3, <2>4, <2>6, <2>7, <2>8 DEF IInv
<1>4. CASE OpenStream(d)
  <2>1. h \in Conns /\ UNCHANGED table
    BY Zenon, <1>4 DEF IInv, DialerHolds, OpenStream, At
  <2>2. CASE dialer' = [dialer EXCEPT ![d].at = "install"] /\ UNCHANGED conn
    <3>1. DialType' /\ dialer'[d].at = "install" /\ dialer'[d].hold = h
          /\ \A e \in Dialers : e # d => dialer'[e] = dialer[e]
      BY Zenon, <2>2 DEF IInv, DialType, DialerStates
    <3>2. DialerHolds'
      BY Zenon, <2>1, <3>1 DEF IInv, DialerHolds
    <3>3. ASSUME NEW c \in Conns, InHand(c) PROVE InHand(c)'
      BY <1>0, <2>2, <3>1, <3>3 DEF InHand
    <3>4. FreshHold'
      BY Zenon, <2>2, <3>1, FreshStep
    <3> QED BY Zenon, <1>0, <2>1, <2>2, <3>1, <3>2, <3>3, <3>4
            DEF IInv, ConnType, TabType, NoStrayStream, TableWatched
  <2>3. CASE /\ conn' = Closed(conn, h)
             /\ dialer' = [dialer EXCEPT ![d] = [at |-> "check", hold |-> 0]]
    <3>1. DialType' /\ dialer'[d].at = "check" /\ dialer'[d].hold = 0
          /\ \A e \in Dialers : e # d => dialer'[e] = dialer[e]
      BY Zenon, <2>3 DEF IInv, DialType, DialerStates
    <3>2. DialerHolds'
      BY Zenon, <3>1 DEF IInv, DialerHolds
    <3>3. /\ ConnType' /\ conn'[h].st = "closed"
          /\ \A r \in Conns : /\ conn'[r].reader = conn[r].reader
                              /\ conn'[r].hold = conn[r].hold
                              /\ r # h => conn'[r] = conn[r]
      BY <2>1, <2>3, ClosedFacts DEF IInv, ConnType
    <3>4. ASSUME NEW c \in Conns, InHand(c), c # h PROVE InHand(c)'
      BY <1>0, <3>1, <3>3, <3>4 DEF InHand
    <3>5. NoStrayStream'
      BY Zenon, <2>1, <3>3, <3>4 DEF IInv, NoStrayStream
    <3>6. TableWatched'
      BY Zenon, <2>1, <3>3 DEF IInv, TableWatched, TabType
    <3>7. FreshHold'
      BY Zenon, <3>1, <3>3, FreshStep
    <3> QED BY Zenon, <1>0, <2>1, <3>1, <3>2, <3>3, <3>5, <3>6, <3>7 DEF IInv, TabType
  <2> QED BY Zenon, <1>4, <2>2, <2>3 DEF OpenStream, Move
<1>5. CASE Install(d)
  <2>1. h \in Conns
    BY Zenon, <1>5 DEF IInv, DialerHolds, Install, At
  <2>2. CASE table # 0
    <3>1. /\ UNCHANGED <<table, conn>> /\ DialType'
          /\ dialer'[d].at = "drop" /\ dialer'[d].hold = h
          /\ \A e \in Dialers : e # d => dialer'[e] = dialer[e]
      BY <1>5, <2>2 DEF IInv, DialType, DialerStates, Install, Move
    <3>2. DialerHolds'
      BY Zenon, <2>1, <3>1 DEF IInv, DialerHolds
    <3>3. ASSUME NEW c \in Conns, InHand(c) PROVE InHand(c)'
      BY Zenon, <1>0, <3>1, <3>3 DEF InHand
    <3>4. FreshHold'
      BY Zenon, <3>1, FreshStep
    <3> QED BY Zenon, <1>0, <3>1, <3>2, <3>3, <3>4 DEF IInv, ConnType, TabType, NoStrayStream, TableWatched
  <2>3. CASE table = 0
    <3>1. /\ DialType' /\ dialer'[d].at = "idle" /\ dialer'[d].hold = 0
          /\ \A e \in Dialers : e # d => dialer'[e] = dialer[e]
      BY <1>5, <2>3 DEF IInv, DialType, DialerStates, Install, Return
    <3>2. DialerHolds'
      BY Zenon, <3>1 DEF IInv, DialerHolds
    <3>3. /\ table' = h /\ ConnType' /\ conn'[h].reader = "recv"
          /\ \A r \in Conns : /\ conn'[r].st = conn[r].st /\ conn'[r].hold = conn[r].hold
                              /\ r # h => conn'[r].reader = conn[r].reader
      BY <1>5, <2>1, <2>3 DEF IInv, ConnType, ReaderStates, Install
    <3>4. conn[h].reader # "close"
      BY Zenon, <2>1 DEF IInv, FreshHold
    <3>5. ASSUME NEW c \in Conns, InHand(c), c # h PROVE InHand(c)'
      BY SMTT(30), <1>0, <3>1, <3>3, <3>4, <3>5 DEF InHand
    <3>6. NoStrayStream'
      BY Zenon, <2>1, <2>3, <3>3, <3>5 DEF IInv, NoStrayStream
    <3>7. TableWatched' /\ TabType'
      BY Zenon, <2>1, <3>3 DEF TableWatched, TabType
    <3>8. FreshHold'
      BY Zenon, <2>1, <3>1, <3>3, FreshStep
    <3> QED BY Zenon, <1>0, <3>1, <3>2, <3>3, <3>6, <3>7, <3>8 DEF IInv
  <2> QED BY Zenon, <2>2, <2>3
<1>6. CASE Drop(d)
  <2>1. h \in Conns /\ UNCHANGED table /\ conn' = Closed(conn, h)
    BY Zenon, <1>6 DEF IInv, DialerHolds, Drop, At
  <2>2. DialType' /\ dialer'[d].at = "idle" /\ dialer'[d].hold = 0
        /\ \A e \in Dialers : e # d => dialer'[e] = dialer[e]
    BY Zenon, <1>6 DEF IInv, DialType, DialerStates, Drop, Return
  <2>3. DialerHolds'
    BY Zenon, <2>2 DEF IInv, DialerHolds
  <2>4. /\ ConnType' /\ conn'[h].st = "closed"
        /\ \A r \in Conns : /\ conn'[r].reader = conn[r].reader
                            /\ conn'[r].hold = conn[r].hold
                            /\ r # h => conn'[r] = conn[r]
    BY <2>1, ClosedFacts DEF IInv, ConnType
  <2>5. ASSUME NEW c \in Conns, InHand(c), c # h PROVE InHand(c)'
    BY <1>0, <2>2, <2>4, <2>5 DEF InHand
  <2>6. NoStrayStream'
    BY Zenon, <2>1, <2>4, <2>5 DEF IInv, NoStrayStream
  <2>7. TableWatched' /\ TabType'
    BY Zenon, <2>1, <2>4 DEF IInv, TableWatched, TabType
  <2>8. FreshHold'
    BY Zenon, <2>2, <2>4, FreshStep
  <2> QED BY Zenon, <1>0, <2>2, <2>3, <2>4, <2>6, <2>7, <2>8 DEF IInv
<1> QED BY Zenon, <1>1, <1>2, <1>3, <1>4, <1>5, <1>6 DEF Dialling

\* The readers.
LEMMA ReadingStep ==
  ASSUME IInv, NEW c \in Conns, Reading(c)
  PROVE  IInv'
<1> USE ConnsType
<1> DEFINE h == conn[c].hold
<1>0. /\ UNCHANGED <<sender, dialer>> /\ SendType' /\ DialType' /\ DialerHolds'
  BY Zenon DEF IInv, SendType, DialType, DialerHolds, Reading, RecvFails, ReaderRemoves, ReaderCloses
<1>1. conn[c].reader # "none"
  BY Zenon DEF Reading, RecvFails, ReaderRemoves, ReaderCloses
<1>2. ASSUME \A r \in Conns : r # c => conn'[r].reader = conn[r].reader PROVE FreshHold'
  BY Zenon, <1>0, <1>1, <1>2 DEF IInv, FreshHold
<1>3. CASE RecvFails(c)
  <2>1. /\ UNCHANGED table /\ ConnType' /\ conn'[c].reader = "remove" /\ conn[c].reader = "recv"
        /\ \A r \in Conns : conn'[r].st = conn[r].st /\ conn'[r].hold = conn[r].hold
        /\ \A r \in Conns : r # c => conn'[r].reader = conn[r].reader
    BY Zenon, <1>3 DEF IInv, ConnType, ReaderStates, RecvFails
  <2>2. ASSUME NEW r \in Conns, InHand(r) PROVE InHand(r)'
    BY <1>0, <2>1, <2>2 DEF InHand
  <2>3. NoStrayStream'
    BY Zenon, <2>1, <2>2 DEF IInv, NoStrayStream
  <2>4. TableWatched' /\ TabType'
    BY Zenon, <2>1 DEF IInv, TableWatched, TabType
  <2> QED BY Zenon, <1>0, <1>2, <2>1, <2>3, <2>4 DEF IInv
<1>4. CASE ReaderRemoves(c)
  <2>1. /\ table' = 0 /\ ConnType' /\ conn[c].reader = "remove" /\ conn'[c].hold = table
        /\ table # 0 => conn'[c].reader = "close"
        /\ \A r \in Conns : conn'[r].st = conn[r].st
        /\ \A r \in Conns : r # c => conn'[r] = conn[r]
    BY <1>4 DEF IInv, ConnType, TabType, ReaderStates, ReaderRemoves
  <2>2. ASSUME NEW r \in Conns, InHand(r) PROVE InHand(r)'
    BY Zenon, <1>0, <2>1, <2>2 DEF InHand
  <2>3. ASSUME NEW r \in Conns, r = table PROVE InHand(r)'
    BY Zenon, <1>0, <2>1, <2>3 DEF InHand
  <2>4. NoStrayStream'
    BY Zenon, <2>1, <2>2, <2>3 DEF IInv, NoStrayStream
  <2>5. TableWatched' /\ TabType'
    BY Zenon, <2>1 DEF TableWatched, TabType
  <2> QED BY Zenon, <1>0, <1>2, <2>1, <2>4, <2>5 DEF IInv
<1>5. CASE ReaderCloses(c)
  <2>1. /\ UNCHANGED table /\ conn[c].reader = "close"
        /\ conn' = [Closed(conn, h) EXCEPT ![c].reader = "done", ![c].hold = 0]
    BY Zenon, <1>5 DEF ReaderCloses
  <2>2. /\ ConnType'
        /\ \A r \in Conns : /\ r # c => conn'[r].reader = conn[r].reader /\ conn'[r].hold = conn[r].hold
                            /\ r # h => conn'[r].st = conn[r].st
                            /\ r = h => conn'[r].st = "closed"
    <3> DEFINE k == Closed(conn, h)
    <3>1. /\ k \in [Conns -> [st : ConnStates, reader : ReaderStates, hold : Conns \cup {0}]]
          /\ \A r \in Conns : /\ k[r].reader = conn[r].reader /\ k[r].hold = conn[r].hold
                              /\ r # h => k[r].st = conn[r].st
                              /\ r = h => k[r].st = "closed"
      BY ZenonT(40) DEF IInv, ConnType, ConnStates, Closed
    <3>2. conn' = [k EXCEPT ![c].reader = "done", ![c].hold = 0]
      BY Zenon, <2>1
    <3> HIDE DEF k
    <3>3. conn' \in [Conns -> [st : ConnStates, reader : ReaderStates, hold : Conns \cup {0}]]
      <4>1. PICK e : e = [k[c] EXCEPT !.reader = "done", !.hold = 0]
        BY Zenon
      <4>2. e \in [st : ConnStates, reader : ReaderStates, hold : Conns \cup {0}]
        BY ZenonT(40), <3>1, <4>1 DEF ReaderStates
      <4>3. conn' = [k EXCEPT ![c] = e]
        BY Zenon, <3>2, <4>1
      <4> QED BY Zenon, <3>1, <4>2, <4>3
    <3>4. \A r \in Conns : /\ r # c => conn'[r] = k[r]
                           /\ conn'[r].st = k[r].st
      BY <3>1, <3>2
    <3> QED BY Zenon, <3>1, <3>3, <3>4 DEF ConnType
  <2>3. ASSUME NEW r \in Conns, r # h, InHand(r) PROVE InHand(r)'
    BY Zenon, <1>0, <2>2, <2>3 DEF InHand
  <2>4. NoStrayStream'
    BY Zenon, <2>1, <2>2, <2>3 DEF IInv, NoStrayStream
  <2>5. TableWatched' /\ TabType'
    BY <2>1, <2>2 DEF IInv, TableWatched, TabType
  <2> QED BY Zenon, <1>0, <1>2, <2>2, <2>4, <2>5 DEF IInv
<1> QED BY Zenon, <1>3, <1>4, <1>5 DEF Reading

\* The ready loop in Send.
LEMMA SendingStep ==
  ASSUME IInv, Sending
  PROVE  IInv'
<1> USE ConnsType
<1>1. CASE SendLookup /\ table = 0
  <2>1. dialer' = Spawned(dialer) /\ UNCHANGED <<table, conn, sender>>
    BY Zenon, <1>1 DEF SendLookup
  <2> QED BY Zenon, <2>1, SpawnStep DEF IInv, SendType
<1>2. CASE SendRedials
  <2>1. /\ dialer' = Spawned(dialer) /\ UNCHANGED <<table, conn>>
        /\ sender.at = "redial" /\ sender' = AtRest
    BY Zenon, <1>2 DEF SendRedials
  <2>2. SendType' /\ sender'.at = "idle"
    BY Zenon, <2>1 DEF AtRest, SendType
  <2> QED BY Zenon, <2>1, <2>2, SpawnStep
<1>3. CASE (SendLookup /\ table # 0) \/ SendOn
  <2>1. /\ UNCHANGED <<table, conn, dialer>> /\ SendType'
        /\ sender.at # "close" /\ sender'.at # "close"
    BY <1>3 DEF IInv, SendType, TabType, SendLookup, SendOn, AtRest
  <2>2. ASSUME NEW c \in Conns, InHand(c) PROVE InHand(c)'
    BY Zenon, <2>1, <2>2 DEF InHand
  <2> QED BY Zenon, <2>1, <2>2 DEF IInv, ConnType, DialType, TabType, DialerHolds, FreshHold,
                            NoStrayStream, TableWatched
<1>4. CASE SendRemoves
  <2>1. /\ table' = 0 /\ UNCHANGED <<conn, dialer>> /\ sender.at = "remove"
        /\ sender' = [at |-> IF table = 0 THEN "redial" ELSE "close", hold |-> table]
    BY Zenon, <1>4 DEF SendRemoves
  <2>2. SendType' /\ TabType' /\ TableWatched'
    BY Zenon, <2>1 DEF IInv, SendType, TabType, TableWatched
  <2>3. ASSUME NEW c \in Conns, InHand(c) PROVE InHand(c)'
    BY Zenon, <2>1, <2>3 DEF InHand
  <2>4. ASSUME NEW c \in Conns, c = table PROVE InHand(c)'
    BY Zenon, <2>1, <2>4 DEF InHand
  <2>5. NoStrayStream'
    BY Zenon, <2>1, <2>3, <2>4 DEF IInv, NoStrayStream
  <2> QED BY Zenon, <2>1, <2>2, <2>5 DEF IInv, ConnType, DialType, DialerHolds, FreshHold
<1>5. CASE SendCloses
  <2> DEFINE h == sender.hold
  <2>1. /\ UNCHANGED <<table, dialer>> /\ conn' = Closed(conn, h)
        /\ sender' = [at |-> "redial", hold |-> 0]
    BY Zenon, <1>5 DEF SendCloses
  <2>2. /\ ConnType'
        /\ \A r \in Conns : /\ conn'[r].reader = conn[r].reader /\ conn'[r].hold = conn[r].hold
                            /\ r # h => conn'[r].st = conn[r].st
                            /\ r = h => conn'[r].st = "closed"
    BY Zenon, <2>1 DEF IInv, ConnType, ConnStates, Closed
  <2>3. ASSUME NEW c \in Conns, c # h, InHand(c) PROVE InHand(c)'
    BY SMTT(30), <2>1, <2>2, <2>3 DEF InHand
  <2>4. NoStrayStream'
    BY <2>1, <2>2, <2>3 DEF IInv, NoStrayStream
  <2>5. SendType' /\ TabType' /\ TableWatched'
    BY Zenon, <2>1, <2>2 DEF IInv, SendType, TabType, TableWatched
  <2> QED BY SMTT(30), <2>1, <2>2, <2>4, <2>5 DEF IInv, DialType, DialerHolds, FreshHold
<1> QED BY Zenon, <1>1, <1>2, <1>3, <1>4, <1>5 DEF Sending

\* Failures only turn open connections into broken ones.
LEMMA LinkStep ==
  ASSUME IInv, LinkFails \/ LinkBack
  PROVE  IInv'
<1>1. UNCHANGED <<table, dialer, sender>>
  BY Zenon DEF LinkFails, LinkBack
<1>2. /\ ConnType'
      /\ \A c \in Conns : /\ conn'[c].reader = conn[c].reader /\ conn'[c].hold = conn[c].hold
                          /\ conn'[c].st # conn[c].st => conn[c].st = "open"
  <2>1. ASSUME NEW lost, Break(lost) PROVE <1>2!:
    BY <2>1 DEF Break, IInv, ConnType, ConnStates
  <2>2. CASE UNCHANGED conn
    BY Zenon, <2>2 DEF IInv, ConnType
  <2> QED BY Zenon, <2>1, <2>2 DEF LinkFails, LinkBack
<1>3. ASSUME NEW c \in Conns, InHand(c) PROVE InHand(c)'
  BY Zenon, <1>1, <1>2, <1>3 DEF InHand
<1>4. NoStrayStream'
  BY Zenon, <1>1, <1>2, <1>3 DEF IInv, NoStrayStream
<1> QED BY <1>1, <1>2, <1>4 DEF IInv, DialType, SendType, TabType, DialerHolds, FreshHold,
                                TableWatched

LEMMA TransportStep == IInv /\ [TransportNext]_ovars => IInv'
<1> SUFFICES ASSUME IInv, [TransportNext]_ovars PROVE IInv'
  OBVIOUS
<1>1. CASE Start
  BY Zenon, <1>1, SpawnStep DEF Start, IInv, SendType
<1>2. CASE UNCHANGED ovars
  <2>1. UNCHANGED <<table, conn, dialer, sender>>
    BY Zenon, <1>2 DEF ovars
  <2>2. NoStrayStream'
    BY Zenon, <2>1 DEF IInv, NoStrayStream, InHand
  <2> QED BY Zenon, <2>1, <2>2 DEF IInv, ConnType, DialType, SendType, TabType, DialerHolds, FreshHold,
                            TableWatched
<1> QED BY Zenon, <1>1, <1>2, SendingStep, LinkStep, DiallingStep, ReadingStep DEF TransportNext

\* grpc_transport.go: although removePeer takes whatever connection is in the
\* table, every connection that was opened is in the table, in the hands of a
\* goroutine that will install or close it, or closed.
THEOREM StreamsAccounted == TransportSpec => []NoStrayStream
<1>1. IInv => NoStrayStream
  BY Zenon DEF IInv
<1> QED BY <1>1, InitInv, TransportStep, PTL DEF TransportSpec

\* grpc_transport.go: the connection in the table has a reader that has not
\* removed anything yet.
THEOREM InstalledIsWatched == TransportSpec => []TableWatched
<1>1. IInv => TableWatched
  BY Zenon DEF IInv
<1> QED BY <1>1, InitInv, TransportStep, PTL DEF TransportSpec
=============================================================================
