------------------------------ MODULE RaftDisk ------------------------------
(* What a shard's raft node keeps on disk: entries.log, hardstate.json and *)
(* snapshot.bin (raft/persist.go), the shadow WAL (raftwal/writer.go) and  *)
(* its validator ring, written by processReady one file operation at a     *)
(* time, pruned in the background and read again by initEtcd after a crash.*)
(*                                                                         *)
(* An entry is [i, t], its index and term; commands are not told apart.  A *)
(* WAL frame is [kind, i, t] with kind "normal" or "hs", or a torn frame,  *)
(* cut in its header ("header") or in its payload ("body").  The sidecar   *)
(* index files are left out: nothing in the code reads them.               *)
EXTENDS Lists

CONSTANTS Settings,  \* deployments, see MCFiles
          Base,      \* radix of the segment number in a file name, 10 in the code
          MaxSegs    \* bound on segment numbers, at most Base * Base

ASSUME DiskAssumption ==
  \A s \in Settings : s.threshold \in Nat

VARIABLES setting,   \* voters, wal, threshold, lastN, segMax and bounds
          raft,      \* etcd raft: log (entries it holds), commit, applied, term
          storage,   \* MemoryStorage: off (snapshot index), ents
          files,     \* lines of entries.log, hs (commit), snap (index)
          wal,       \* shadow WAL: live, seg, and the writer's idx, buf, last
          ring,      \* walValidator: the last lastN <<index, term>>
          node,      \* pc, rd, lastHS, applied, since, snapIdx, pruned
          prune,     \* the background prune: st, upto, active, todo, removed, batch
          ghost      \* acked WAL frames, entries applied, crashes, conflicts,
                     \* whether a leader replaced part of the log,
                     \* whether the node started from a file with gaps or repeats

vars == <<setting, raft, storage, files, wal, ring, node, prune, ghost>>

Entry(i, t) == [i |-> i, t |-> t]
Normal(e)   == [kind |-> "normal", i |-> e.i, t |-> e.t]
HS(c)       == [kind |-> "hs", i |-> c, t |-> 0]
Torn(where) == [kind |-> where, i |-> 0, t |-> 0]
IsTorn(f)   == f.kind \in {"header", "body"}
TornLine    == Entry(0, 0)
LastIndex(st) == st.off + Len(st.ents)
Panic       == [off |-> -1, ents |-> <<>>]
LastN(s, n) == SubSeq(s, Max({1, Len(s) - n + 1}), Len(s))

---------------------------------------------------------------------------
(* MemoryStorage of etcd raft                                              *)

\* Append drops what the snapshot covers and replaces the rest; it trusts that
\* its argument is contiguous from the first index.
StorageAppend(st, es) ==
  IF es = <<>> \/ es[1].i + Len(es) - 1 <= st.off THEN st
  ELSE IF es[1].i <= st.off
       THEN [st EXCEPT !.ents = SubSeq(es, st.off - es[1].i + 2, Len(es))]
  ELSE IF es[1].i > LastIndex(st) + 1 THEN Panic
  ELSE [st EXCEPT !.ents = SubSeq(@, 1, es[1].i - st.off - 1) \o es]

StorageSnapshot(st, s) == IF s = 0 THEN st ELSE [off |-> s, ents |-> <<>>]
StorageCompact(st, s)  == [off |-> s, ents |-> SubSeq(st.ents, s - st.off + 1, Len(st.ents))]

---------------------------------------------------------------------------
(* raft/persist.go                                                         *)

\* The lines that decode, in file order.
Decoded(lines) == AtPlaces(lines, {j \in 1 .. Len(lines) : lines[j] # TornLine})

\* Load: snapshot, then every line that decodes, as one batch.
Load(f) ==
  StorageAppend(StorageSnapshot([off |-> 0, ents |-> <<>>], f.snap), Decoded(f.lines))

\* Persist writes the Ready's parts one after the other.
PersistSnapshot(f, s) == IF s = 0 THEN f ELSE [f EXCEPT !.snap = s]
PersistHardState(f, c) == [f EXCEPT !.hs = c]

\* Mutant: the loop over the entries returns after the first.
PersistEntriesFirst(f, es) ==
  [f EXCEPT !.lines = @ \o SubSeq(es, 1, Min({1, Len(es)}))]

\* A line that lacks its newline swallows the next one.
PersistEntries(f, es) ==
  [f EXCEPT !.lines = IF es # <<>> /\ f.lines # <<>> /\ f.lines[Len(f.lines)] = TornLine
                      THEN @ \o Tail(es) ELSE @ \o es]

PruneEntries(f, upto) ==
  [f EXCEPT !.lines =
     AtPlaces(@, {j \in 1 .. Len(@) : @[j] # TornLine /\ @[j].i > upto})]

---------------------------------------------------------------------------
(* raftwal/writer.go: the writer                                           *)

Flush(w) == [w EXCEPT !.seg[w.idx] = @ \o w.buf, !.buf = <<>>]

rotateLocked(w) ==
  LET f == Flush(w)
  IN  [f EXCEPT !.idx = w.idx + 1, !.live = @ \cup {w.idx + 1}]

\* Writing a frame: a strict writer flushes and syncs each one; a segment that
\* has reached its size is rotated out afterwards.
WriteFrame(w, f) ==
  LET b == [w EXCEPT !.buf = Append(@, f)]
      s == IF setting.wal = "strict" THEN Flush(b) ELSE b
  IN  IF Len(s.seg[s.idx]) + Len(s.buf) >= setting.segMax THEN rotateLocked(s) ELSE s

\* A non-sequential index starts a new segment; lastIndex is 0 after opening.
AppendEnvelope(w, e) ==
  LET c == IF w.last # 0 /\ e.i # w.last + 1 THEN rotateLocked(w) ELSE w
  IN  WriteFrame([c EXCEPT !.last = e.i], Normal(e))

AppendHardState(w, c) == WriteFrame(w, HS(c))

\* Mutant: continue the lowest segment.
openLastOrCreateLow(w) ==
  [w EXCEPT !.idx = IF w.live = {} THEN 0 ELSE Min(w.live), !.buf = <<>>, !.last = 0,
            !.live = @ \cup {IF w.live = {} THEN 0 ELSE Min(w.live)}]

\* openLastOrCreate continues the highest segment number; a segment file that
\* was removed starts again empty.
openLastOrCreate(w) ==
  LET n == IF w.live = {} THEN 0 ELSE Max(w.live)
  IN  [w EXCEPT !.idx = n, !.buf = <<>>, !.last = 0, !.live = @ \cup {n},
                !.seg = [s \in 0 .. MaxSegs |-> IF s \in w.live THEN @[s] ELSE <<>>]]

---------------------------------------------------------------------------
(* raftwal/writer.go: the readers                                          *)

\* sort.Strings over seg-<n>.wal
NameBefore(a, b) ==
  LET Digits(n) == IF n < Base THEN <<n, -1>> ELSE <<n \div Base, n % Base>>
      x == Digits(a)  y == Digits(b)
  IN  x[1] < y[1] \/ (x[1] = y[1] /\ x[2] < y[2])
Segments(w) ==
  [j \in 1 .. Cardinality(w.live) |->
     CHOOSE n \in w.live : Cardinality({m \in w.live : NameBefore(m, n)}) = j - 1]

\* The frames before the first torn one, and whether the reader fails there:
\* a header cut short at the end of the file is taken for the end.
ReadSegment(fs) ==
  LET T == {j \in 1 .. Len(fs) : IsTorn(fs[j])}
  IN  IF T = {} THEN [out |-> fs, ok |-> TRUE]
      ELSE [out |-> SubSeq(fs, 1, Min(T) - 1),
            ok  |-> Min(T) = Len(fs) /\ fs[Len(fs)].kind = "header"]

\* Replay stops at the first segment that cannot be read to its end.
replaySegment(acc, fs) ==
  LET r == ReadSegment(fs)
  IN  IF acc.ok THEN [out |-> acc.out \o r.out, ok |-> r.ok] ELSE acc

Replay(w) ==
  LET names == Segments(w)
  IN  LeftFold(replaySegment, [out |-> <<>>, ok |-> TRUE],
               [j \in 1 .. Len(names) |-> w.seg[names[j]]])

Tuples(fs) == LET n == SelectSeq(fs, LAMBDA f : f.kind = "normal")
              IN  [j \in 1 .. Len(n) |-> <<n[j].i, n[j].t>>]

\* An error hides everything.
TailLogicalTuples(w, n) ==
  IF Replay(w).ok THEN LastN(Tuples(Replay(w).out), n) ELSE <<>>

\* 0 when there is none, or when a frame cannot be read.
ReplayLastHardState(w) ==
  LET h == SelectSeq(Replay(w).out, LAMBDA f : f.kind = "hs")
  IN  IF Replay(w).ok /\ h # <<>> THEN h[Len(h)].i ELSE 0

maxIndexInSegment(fs) == Max({0} \cup {fs[j].i : j \in 1 .. Len(fs)})

---------------------------------------------------------------------------
(* etcd raft (external) hands out Readys                                   *)

NoReady == [snap |-> 0, ents |-> <<>>, commit |-> 0, com |-> <<>>]
Fresh(pc) == [pc |-> pc, rd |-> NoReady, lastHS |-> 0, applied |-> 0, since |-> 0,
              snapIdx |-> 0, pruned |-> 0]
\* What a node does after it started from a file with gaps or repeats is not
\* modelled.
Idle    == node.pc = "idle" /\ ~ghost.damaged

\* Log entries from..to of raft, whose log starts behind its snapshot.
RaftSlice(r, from, to) == SubSeq(r.log, from - r.off, to - r.off)
RaftLast(r) == r.off + Len(r.log)

GiveReady(r, snap, es) ==
  LET from == Max({r.applied, snap}) + 1
  IN  /\ raft' = [r EXCEPT !.applied = Max({r.commit, snap})]
      /\ node' = [node EXCEPT !.pc = "snapshot",
                   !.rd = [snap |-> snap, ents |-> es, commit |-> r.commit,
                           com |-> RaftSlice(r, from, r.commit)]]
      /\ UNCHANGED <<setting, storage, files, wal, ring, prune>>

\* A single voter commits what it appends at once, so one Ready carries both.
ReadySingle ==
  /\ Idle /\ setting.voters = 1
  /\ \E n \in 0 .. 2 :
       LET es == [j \in 1 .. n |-> Entry(RaftLast(raft) + j, raft.term)]
           r  == [raft EXCEPT !.log = @ \o es, !.commit = RaftLast(raft) + n]
       IN  /\ RaftLast(raft) + n <= setting.maxIndex
           /\ n > 0 \/ raft.applied < raft.commit
           /\ GiveReady(r, 0, es)
  /\ UNCHANGED ghost

\* A follower stores what its leader sends, replacing a conflicting tail, and
\* learns a commit index.
ReadyFollower ==
  /\ Idle /\ setting.voters > 1
  /\ \E j \in raft.commit + 1 .. RaftLast(raft) + 1, n \in 0 .. 1 :
       LET over == n = 1 /\ j <= RaftLast(raft)
           t    == IF over THEN raft.term + 1 ELSE raft.term
           es   == [k \in 1 .. n |-> Entry(j, t)]
           log  == IF n = 0 THEN raft.log ELSE RaftSlice(raft, raft.off + 1, j - 1) \o es
       IN  /\ n = 1 => j <= setting.maxIndex
           /\ over => ghost.conflicts < setting.conflicts
           /\ \E c \in raft.commit .. raft.off + Len(log) :
                /\ n > 0 \/ c > raft.commit \/ raft.applied < raft.commit
                /\ GiveReady([raft EXCEPT !.log = log, !.commit = c, !.term = t], 0, es)
           /\ ghost' = [ghost EXCEPT !.conflicts = @ + (IF over THEN 1 ELSE 0),
                                      !.replaced = @ \/ over]

\* A follower that fell behind receives a snapshot past its log.
ReadySnapshot ==
  /\ Idle /\ setting.installs /\ RaftLast(raft) < setting.maxIndex - 1
  /\ LET s == RaftLast(raft) + 1
     IN  GiveReady([raft EXCEPT !.log = <<>>, !.off = s, !.commit = s], s, <<>>)
  /\ ghost' = [ghost EXCEPT !.replaced = TRUE]

---------------------------------------------------------------------------
(* processReady                                                            *)

Goto(pc) == node' = [node EXCEPT !.pc = pc]

WriteSnapshot ==
  /\ node.pc = "snapshot"
  /\ files' = PersistSnapshot(files, node.rd.snap)
  /\ Goto("hardstate")
  /\ UNCHANGED <<setting, raft, storage, wal, ring, prune, ghost>>

WriteHardState ==
  /\ node.pc = "hardstate"
  /\ files' = PersistHardState(files, node.rd.commit)
  /\ Goto("entries")
  /\ UNCHANGED <<setting, raft, storage, wal, ring, prune, ghost>>

WriteEntries ==
  /\ node.pc = "entries"
  /\ files' = PersistEntries(files, node.rd.ents)
  /\ Goto("walhs")
  /\ UNCHANGED <<setting, raft, storage, wal, ring, prune, ghost>>

\* While a prune has noted the active segment and not yet listed the files,
\* a quiet deployment does not rotate.
RotationAllowed(w) == setting.racing \/ prune.st # "list" \/ w.idx = wal.idx

Acked(fs) == ghost' = [ghost EXCEPT !.acked = @ \o fs]

\* The hard state goes to the shadow WAL when it changed since the last one;
\* then snapshot and entries go to the storage.
WalHardState ==
  /\ node.pc = "walhs"
  /\ storage' = StorageAppend(StorageSnapshot(storage, node.rd.snap), node.rd.ents)
  /\ LET log == setting.wal # "off" /\ node.rd.commit # node.lastHS
         w   == IF log THEN AppendHardState(wal, node.rd.commit) ELSE wal
     IN  /\ RotationAllowed(w)
         /\ wal' = w
         /\ IF log THEN Acked(<<HS(node.rd.commit)>>) ELSE UNCHANGED ghost
         /\ node' = [node EXCEPT !.pc = "apply", !.lastHS = node.rd.commit]
  /\ UNCHANGED <<setting, raft, files, ring, prune>>

addTuple(e) == LastN(Append(ring, <<e.i, e.t>>), setting.lastN)

\* A committed entry: WAL, ring, application.
ApplyCommitted ==
  /\ node.pc = "apply" /\ node.rd.com # <<>>
  /\ LET e == Head(node.rd.com)
         w == IF setting.wal = "off" THEN wal ELSE AppendEnvelope(wal, e)
     IN  /\ RotationAllowed(w)
         /\ wal' = w
         /\ ring' = IF setting.wal = "off" THEN ring ELSE addTuple(e)
         /\ node' = [node EXCEPT !.rd.com = Tail(@), !.applied = e.i, !.since = @ + 1]
         /\ ghost' = [ghost EXCEPT !.applied = @ \cup {e},
                      !.acked = IF setting.wal = "off" THEN @ ELSE Append(@, Normal(e))]
  /\ UNCHANGED <<setting, raft, storage, files, prune>>

\* Advance, and the snapshot when enough entries were applied since the last.
FinishReady ==
  /\ node.pc = "apply" /\ node.rd.com = <<>>
  /\ LET due == setting.threshold > 0 /\ node.since >= setting.threshold
                  /\ node.applied > node.snapIdx
     IN  IF due
         THEN files' = PersistSnapshot(files, node.applied) /\ Goto("prune")
         ELSE UNCHANGED files /\ node' = [node EXCEPT !.pc = "idle", !.rd = NoReady]
  /\ UNCHANGED <<setting, raft, storage, wal, ring, prune, ghost>>

\* scheduleWalPrune starts a worker unless one is running.
scheduleWalPrune(upto) ==
  prune' = IF prune.st # "idle" \/ setting.wal = "off" THEN prune
           ELSE [prune EXCEPT !.st = "start", !.upto = upto, !.batch = 1]

\* Storage and entries.log are compacted through the snapshot; the WAL may go
\* up to the floor, which followers that lag hold back.
CompactAll ==
  /\ node.pc = "prune"
  /\ LET s == node.applied
     IN  /\ storage' = StorageCompact(storage, s)
         /\ files' = PruneEntries(files, s)
         /\ \E floor \in IF setting.voters = 1 THEN {s} ELSE {1, s} :
              LET upto == Max({floor, node.pruned})
              IN  /\ scheduleWalPrune(upto)
                  /\ node' = [node EXCEPT !.pc = "idle", !.rd = NoReady, !.since = 0,
                                         !.snapIdx = s, !.pruned = upto]
         /\ raft' = [raft EXCEPT !.log = SubSeq(@, s - raft.off + 1, Len(@)), !.off = s]
  /\ UNCHANGED <<setting, wal, ring, ghost>>

---------------------------------------------------------------------------
(* PruneThrough, in the background                                         *)

NoPrune == [st |-> "idle", upto |-> 0, active |-> 0, todo |-> <<>>, removed |-> 0, batch |-> 0]

PruneStart ==
  /\ prune.st = "start"
  /\ prune' = [prune EXCEPT !.st = "list", !.active = wal.idx, !.removed = 0]
  /\ UNCHANGED <<setting, raft, storage, files, wal, ring, node, ghost>>

PruneList ==
  /\ prune.st = "list"
  /\ prune' = [prune EXCEPT !.st = "scan", !.todo = Segments(wal)]
  /\ UNCHANGED <<setting, raft, storage, files, wal, ring, node, ghost>>

Prunable(fs) == maxIndexInSegment(fs) < prune.upto

PruneSegment ==
  /\ prune.st = "scan" /\ prune.todo # <<>>
  /\ LET n    == Head(prune.todo)
         fs   == wal.seg[n]
         next == [prune EXCEPT !.todo = Tail(@)]
     IN  IF n = prune.active THEN prune' = next /\ UNCHANGED wal
         ELSE IF ~ReadSegment(fs).ok THEN prune' = NoPrune /\ UNCHANGED wal
         ELSE IF Prunable(fs)
         THEN /\ wal' = [wal EXCEPT !.live = @ \ {n}]
              /\ prune' = [next EXCEPT !.removed = @ + 1]
         ELSE prune' = next /\ UNCHANGED wal
  /\ UNCHANGED <<setting, raft, storage, files, ring, node, ghost>>

\* Up to four passes, until one removes nothing.
PrunePassDone ==
  /\ prune.st = "scan" /\ prune.todo = <<>>
  /\ prune' = IF prune.removed > 0 /\ prune.batch < 4
              THEN [prune EXCEPT !.st = "start", !.batch = @ + 1] ELSE NoPrune
  /\ UNCHANGED <<setting, raft, storage, files, wal, ring, node, ghost>>

---------------------------------------------------------------------------
(* Crash and initEtcd                                                      *)

\* What a crash may leave of frames on their way to the file.
CutAnywhere(fs) ==
  {SubSeq(fs, 1, n) : n \in 0 .. Len(fs)}
  \cup (IF ~setting.tears THEN {}
        ELSE {Append(SubSeq(fs, 1, n), Torn(c)) : n \in 0 .. Len(fs) - 1, c \in {"header", "body"}})

\* The frame a strict writer was about to append when it crashed.
InFlight == CASE setting.wal # "strict" -> <<>>
              [] node.pc = "walhs" /\ node.rd.commit # node.lastHS -> <<HS(node.rd.commit)>>
              [] node.pc = "apply" /\ node.rd.com # <<>> -> <<Normal(Head(node.rd.com))>>
              [] OTHER -> <<>>

CrashLines ==
  IF node.pc # "entries" THEN {files}
  ELSE {PersistEntries(files, es) : es \in
          {SubSeq(node.rd.ents, 1, n) : n \in 0 .. Len(node.rd.ents)}
          \cup (IF setting.tears /\ node.rd.ents # <<>> THEN {<<TornLine>>} ELSE {})}

Crash ==
  /\ node.pc \notin {"boot", "dead"}
  /\ ghost.crashes < setting.crashes
  /\ files' \in CrashLines
  /\ \E fs \in CutAnywhere(wal.buf \o InFlight) :
       LET w == [wal EXCEPT !.seg[wal.idx] = @ \o fs, !.buf = <<>>]
       IN  /\ wal' = w
           /\ ghost' = [ghost EXCEPT !.crashes = @ + 1,
                         !.acked = CASE setting.wal # "strict" -> Replay(w).out
                                     [] fs = InFlight -> @ \o fs
                                     [] OTHER -> @]
  /\ node' = Fresh("boot")
  /\ prune' = NoPrune
  /\ ring' = <<>>
  /\ UNCHANGED <<setting, raft, storage>>

\* The entries of entries.log are consecutive and reach down to the snapshot.
Contiguous(f) ==
  LET es == Decoded(f.lines)
  IN  /\ \A j \in 1 .. Len(es) : es[j].i = es[1].i + j - 1
      /\ es # <<>> => es[1].i <= f.snap + 1 /\ es[Len(es)].i >= f.snap

\* RestartNode refuses a commit index outside the log it is given.
CanRestart(st, hs) == st # Panic /\ st.off <= Max({hs, st.off}) /\ hs <= LastIndex(st)
                        /\ (hs = 0 \/ hs >= st.off)

\* initEtcd: Load, RestartNode, the newer hard state of the WAL, the writer and
\* the ring.  Raft hands out again what is committed behind the snapshot.
Boot ==
  /\ node.pc = "boot"
  /\ LET st   == Load(files)
         hs   == IF files.hs = 0 THEN st.off ELSE files.hs
     IN  IF ~CanRestart(st, files.hs) THEN node' = [node EXCEPT !.pc = "dead"]
                                           /\ UNCHANGED <<raft, storage, wal, ring>>
         ELSE /\ raft' = [off |-> st.off, log |-> st.ents, commit |-> hs, applied |-> st.off,
                          term |-> raft.term]
              /\ storage' = st
              /\ wal' = IF setting.wal = "off" THEN wal ELSE openLastOrCreate(wal)
              /\ ring' = IF setting.wal = "off" THEN <<>>
                         ELSE TailLogicalTuples(wal, setting.lastN)
              /\ node' = [node EXCEPT !.pc = "idle", !.applied = LastIndex(st), !.snapIdx = st.off,
                           !.lastHS = IF setting.wal = "off" THEN 0 ELSE ReplayLastHardState(wal)]
  /\ ghost' = [ghost EXCEPT !.damaged = @ \/ ~Contiguous(files)]
  /\ UNCHANGED <<setting, files, prune>>

\* ValidateShadowTail flushes the writer and compares the ring with the tail.
ValidateShadowTail == TailLogicalTuples(Flush(wal), Len(ring)) = ring

DiskInit ==
  /\ setting \in Settings
  /\ raft = [off |-> 0, log |-> <<>>, commit |-> 0, applied |-> 0, term |-> 1]
  /\ storage = [off |-> 0, ents |-> <<>>]
  /\ files = [lines |-> <<>>, hs |-> 0, snap |-> 0]
  /\ wal = [live |-> {0}, seg |-> [s \in 0 .. MaxSegs |-> <<>>], idx |-> 0, buf |-> <<>>, last |-> 0]
  /\ ring = <<>>
  /\ node = Fresh("idle")
  /\ prune = NoPrune
  /\ ghost = [acked |-> <<>>, applied |-> {}, crashes |-> 0, conflicts |-> 0,
              replaced |-> FALSE, damaged |-> FALSE]

DiskNext ==
  \/ ReadySingle \/ ReadyFollower \/ ReadySnapshot
  \/ WriteSnapshot \/ WriteHardState \/ WriteEntries \/ WalHardState
  \/ ApplyCommitted \/ FinishReady \/ CompactAll
  \/ PruneStart \/ PruneList \/ PruneSegment \/ PrunePassDone
  \/ Crash \/ Boot

---------------------------------------------------------------------------
(* Properties                                                              *)

\* Type correctness of the files, the WAL and the node.
DiskTypeOK ==
  /\ files.hs \in 0 .. setting.maxIndex /\ files.snap \in 0 .. setting.maxIndex
  /\ wal.live \subseteq 0 .. MaxSegs /\ wal.idx \in 0 .. MaxSegs
  /\ Len(ring) <= setting.lastN
  /\ node.pc \in {"idle", "snapshot", "hardstate", "entries", "walhs", "apply", "prune",
                  "boot", "dead"}
  /\ prune.st \in {"idle", "start", "list", "scan"}

\* No line was torn, and no leader has replaced the node's tail or sent it a
\* snapshot past its log: true for ever of a single voter that is only killed.
Orderly == ~setting.tears /\ ~ghost.replaced

\* Whenever the process is killed, between any two file operations of
\* processReady, Load gives back every entry the application has seen, or a
\* snapshot that covers it (Persist, PersistSnapshot, PruneEntries, Load).
AppliedSurvives ==
  Orderly => LET st == Load(files)
             IN  \A e \in ghost.applied :
                   e.i <= st.off \/ (e.i <= LastIndex(st) /\ st.ents[e.i - st.off] = e)

\* Between two Readys the files hold exactly the log the node works with.
LoadIsStorage ==
  Idle /\ Orderly =>
    LET st == Load(files) IN st.off = storage.off /\ st.ents = storage.ents

\* The raft files give back what the node needs, at every moment.
LoadFaithful == AppliedSurvives /\ LoadIsStorage

\* The WAL can be read in the order it was written: fewer segments than the
\* string order of their names allows, and no frame torn by a crash.
Readable == /\ Max(wal.live \cup {0}) < Base
            /\ \A n \in wal.live : \A j \in 1 .. Len(wal.seg[n]) : ~IsTorn(wal.seg[n][j])

\* "any reported successful Append* call has its frame bytes safely persisted"
\* (raftwal/writer.go): with strict sync, Replay gives back, in order, every
\* acknowledged entry that the snapshot on disk does not cover, across
\* crashes, rotations and pruning.
AckedReplayed ==
  setting.wal = "strict" /\ ~setting.racing /\ Readable =>
    LET Live(fs) == SelectSeq(fs, LAMBDA f : f.kind = "normal" /\ f.i > files.snap)
    IN  Live(Replay(wal).out) = Live(ghost.acked)

\* Pruning goes by index and hard states carry their commit index, so the last
\* one acknowledged is never pruned away: ReplayLastHardState finds it.
HardStateKept ==
  setting.wal = "strict" /\ ~setting.racing /\ Readable /\ node.pc # "boot" =>
    LET h == SelectSeq(ghost.acked, LAMBDA f : f.kind = "hs")
    IN  h # <<>> => ReplayLastHardState(wal) = h[Len(h)].i

\* ValidateShadowTail: after the Sync it starts with, the tail of the WAL is
\* the ring, across crashes that lose buffered frames and entries handed out
\* again, until segments are pruned.
RingIsTail ==
  setting.wal # "off" /\ Readable /\ Idle /\ wal.live = 0 .. wal.idx =>
    ValidateShadowTail

\* The shadow WAL gives back what it acknowledged, at every moment, and the
\* state keeps its types.
ShadowFaithful == DiskTypeOK /\ AckedReplayed /\ HardStateKept /\ RingIsTail

\* "If HardState.commit > last entry index on disk after crash, truncate HS to
\* last entry index" (docs/unified_wal_design.md): whatever the moment of the
\* crash, RestartNode can start from what is on disk.
CommitCovered == Orderly => node.pc # "dead"
=============================================================================
