------------------------------ MODULE Recovery ------------------------------
(* The single-node server's life around its command log: a start           *)
(* (walForge.Init with its manifest, then the replay of server/main.go),   *)
(* IO threads that execute a command, log it, sync where durability was    *)
(* asked for and only then answer (iothread.go, watch_manager.go), the     *)
(* log's tickers, and crashes at any point.  ForgeWAL models how the log   *)
(* groups its syncs; here a sync is one step and what matters is what the  *)
(* next start makes of the files.                                          *)
(*   A log record is a command; a segment is a sequence of records of      *)
(* which the first `safe` ones are fsynced.  A command that fails is       *)
(* answered with an error, is not logged and changes nothing, so it is a   *)
(* stuttering step.                                                        *)
EXTENDS Lists

CONSTANTS Threads,     \* IO threads; a thread's connection is one client
          DataKeys,    \* keys
          Confs,       \* configurations and fault budgets a behaviour may have
          MaxSegments  \* bound on rotations by time

VARIABLES conf,   \* segMax, auto, enforce, require; legacy, a record found at
                  \* the first start; and the bounds menu, commands, ticks,
                  \* tears and crashes
          clock,  \* wall clock
          disk,   \* segs: the segments; mani: WAL.MANIFEST
          srv,    \* st, mani and hash (manifest in memory), store, subs
          pc,     \* thread -> where it is in IOThread.Start, and its command
          past    \* ghost: n, crashes, hist, overlap, promised, want

rvars == <<conf, clock, disk, srv, pc, past>>

Operations == {"set", "setat", "setpx", "getexpxat", "getexexat", "del", "sub", "unsub"}
Command    == [op : Operations, key : DataKeys \cup Threads, at : Nat, durable : BOOLEAN, id : Nat]

NoManifest == [id |-> 0, format |-> "none", enforce |-> "none"]
NoCommand  == [op |-> "none", key |-> "none", at |-> 0, durable |-> FALSE, id |-> 0]
TornRecord == [NoCommand EXCEPT !.op = "torn"]
Preamble(h) == [NoCommand EXCEPT !.op = "manifest", !.id = h]
Gone       == <<0, 0>>                  \* no value, no deadline
Empty      == [k \in DataKeys |-> Gone]
Down       == [st |-> "down", mani |-> NoManifest, hash |-> 0, store |-> Empty, subs |-> {}]
Waiting    == [st |-> "idle", c |-> NoCommand]

ASSUME ConfsAssumption ==
  \A c \in Confs : c.menu \subseteq Command /\ c.legacy \in Command \cup {NoCommand}

Absolute == {"setat", "getexpxat", "getexexat"}

\* SET .. EXAT|PXAT and GETEX .. EXAT|PXAT refuse a deadline that has passed.
Fails(c) == c.op \in Absolute /\ c.at <= clock

Visible(s, k) == IF s[k][2] # 0 /\ s[k][2] <= clock THEN Gone ELSE s[k]

\* What a command that succeeds does to the keys.  The value a SET writes is
\* named by the command's id; setpx has a duration, the others a deadline.
Effect(s, c) ==
  CASE c.op \in {"set", "setat"} -> [s EXCEPT ![c.key] = <<c.id, c.at>>]
    [] c.op = "setpx"            -> [s EXCEPT ![c.key] = <<c.id, clock + c.at>>]
    [] c.op \in {"getexpxat", "getexexat"} ->
         [s EXCEPT ![c.key] = IF Visible(s, c.key) = Gone THEN Gone ELSE <<@[1], c.at>>]
    [] c.op = "del"              -> [s EXCEPT ![c.key] = Gone]
    [] OTHER                     -> s

IsWatch(c) == c.op \in {"sub", "unsub"}

(***************************************************************************)
(* The log.                                                                *)
(***************************************************************************)
Records(segs) == Joined([i \in DOMAIN segs |-> segs[i].fr])
Synced(segs)  == [segs EXCEPT ![Len(segs)].safe = Len(segs[Len(segs)].fr)]

\* writeManifestPreambleLocked: nothing without a manifest hash.
NewSegment(h) == [fr |-> IF h = 0 THEN <<>> ELSE <<Preamble(h)>>, safe |-> 0]

\* Mutant: the old segment is closed without a sync.
rotateLogUnsynced(segs, h) == Append(segs, NewSegment(h))

rotateLog(segs, h) == Append(Synced(segs), NewSegment(h))

\* LogCommand: writePayloadLocked rotates first when the record does not fit.
LogCommandTo(segs, c, h) ==
  LET s == IF Len(segs[Len(segs)].fr) + 1 > conf.segMax THEN rotateLog(segs, h) ELSE segs
  IN  [s EXCEPT ![Len(s)].fr = Append(@, c)]

(***************************************************************************)
(* IO threads.                                                             *)
(***************************************************************************)
\* A key whose command has been executed by some thread but not logged yet.
InWindow(k) == \E t \in Threads : pc[t].st = "log" /\ pc[t].c.key = k

\* A command takes effect; a watch is logged before it does.
ExecuteCommand(t, c) ==
  /\ ~Fails(c)
  /\ pc' = [pc EXCEPT ![t] = [st |-> "log", c |-> c]]
  /\ srv' = [srv EXCEPT !.store = Effect(@, c)]
  /\ past' = IF IsWatch(c)
             THEN [past EXCEPT !.n = @ + 1, !.want[t] = NoCommand]
             ELSE [past EXCEPT !.n = @ + 1,
                     !.hist[c.key] = Append(@, c),
                     !.overlap = IF InWindow(c.key) THEN @ \cup {c.key} ELSE @]

Execute(t) ==
  /\ srv.st = "up" /\ pc[t].st = "idle" /\ past.n < conf.commands
  /\ \E m \in conf.menu :
       ExecuteCommand(t, [m EXCEPT !.id = past.n + 1, !.key = IF IsWatch(m) THEN t ELSE @])
  /\ UNCHANGED <<conf, clock, disk>>

\* LogCommand; SUBSCRIBE, UNSUBSCRIBE and DURABLE SETs wait for a sync, the
\* others are answered.
LogStep(t) ==
  /\ pc[t].st = "log"
  /\ disk' = [disk EXCEPT !.segs = LogCommandTo(@, pc[t].c, srv.hash)]
  /\ pc' = [pc EXCEPT ![t] = IF IsWatch(@.c) \/ @.c.durable
                             THEN [@ EXCEPT !.st = "sync"] ELSE Waiting]
  /\ UNCHANGED <<conf, clock, srv, past>>

\* Sync, then the subscription map, then the answer.  A watch also rebinds
\* the fingerprint, which takes it from every other client.
SyncStep(t) ==
  /\ pc[t].st = "sync"
  /\ disk' = [disk EXCEPT !.segs = Synced(@)]
  /\ LET c == pc[t].c
     IN  /\ srv' = [srv EXCEPT !.subs = IF c.op = "sub" THEN {t}
                                        ELSE IF c.op = "unsub" THEN @ \ {t} ELSE @]
         /\ past' = IF IsWatch(c) THEN [past EXCEPT !.want[t] = c]
                    ELSE [past EXCEPT !.promised = @ \cup {c}]
  /\ pc' = [pc EXCEPT ![t] = Waiting]
  /\ UNCHANGED <<conf, clock>>

\* CleanupThreadWatchSubscriptions when a connection ends; nothing is logged.
Disconnect(t) ==
  /\ srv.st = "up" /\ pc[t].st = "idle" /\ t \in srv.subs
  /\ srv' = [srv EXCEPT !.subs = @ \ {t}]
  /\ UNCHANGED <<conf, clock, disk, pc, past>>

\* The tickers of the log.
Ticker ==
  /\ srv.st = "up"
  /\ \/ disk' = [disk EXCEPT !.segs = Synced(@)]
     \/ /\ Len(disk.segs) < MaxSegments
        /\ disk' = [disk EXCEPT !.segs = rotateLog(@, srv.hash)]
  /\ UNCHANGED <<conf, clock, srv, pc, past>>

ClockTick == /\ clock < conf.ticks /\ clock' = clock + 1
             /\ UNCHANGED <<conf, disk, srv, pc, past>>

(***************************************************************************)
(* Crash and start.                                                        *)
(***************************************************************************)
\* What a crash may leave of a segment: the fsynced records, some of the
\* others, and part of the next one, for instance when a record crosses the
\* end of the write buffer.  Records that are only in the page cache survive
\* a killed process, and can still be lost by a later crash.
Left(s) ==
  UNION {{[fr |-> SubSeq(s.fr, 1, n) \o torn, safe |-> IF kept THEN s.safe ELSE n + Len(torn)] :
            torn \in {<<>>} \cup
                     (IF conf.tears /\ n < Len(s.fr) THEN {<<TornRecord>>} ELSE {}),
            kept \in BOOLEAN} : n \in s.safe .. Len(s.fr)}

Crashes ==
  /\ srv.st # "down" /\ past.crashes < conf.crashes
  /\ \E segs \in [DOMAIN disk.segs -> UNION {Left(disk.segs[i]) : i \in DOMAIN disk.segs}] :
       /\ \A i \in DOMAIN segs : segs[i] \in Left(disk.segs[i])
       /\ disk' = [disk EXCEPT !.segs = segs]
  /\ srv' = Down
  /\ pc' = [t \in Threads |-> Waiting]
  /\ past' = [past EXCEPT !.crashes = @ + 1]
  /\ UNCHANGED <<conf, clock>>

Whole(s) == Len(s.fr) > 0 /\ s.fr[1] # TornRecord

\* DetectFormat looks for the unified magic at the start of the marshalled
\* element instead of its payload, so every record it reads counts as legacy;
\* the bytes behind a torn record may or may not look like one.
DetectFormat(segs) ==
  LET first == {segs[i] : i \in DOMAIN segs \cap {1, 2}}
  IN  IF \E s \in first : Whole(s) THEN {"legacy"}
      ELSE IF \E s \in first : Len(s.fr) > 1 THEN {"legacy", "uwal1"}
      ELSE {"uwal1"}

\* Manifest.VerifyAgainst.
Refuses(m, detected) ==
  m.enforce = "strict" /\ m.format = "uwal1" /\ detected # "uwal1"

\* SaveManifestAtomic: temporary file, fsync, rename, fsync of the directory,
\* so that a crash leaves the old manifest or the new one.
SaveManifestAtomic(m) == disk' = [disk EXCEPT !.mani = m]

\* Mutant: the manifest is written anew at every start.
LoadManifestAnew(detected) ==
  LET m == [id |-> disk.mani.id + 1, format |-> detected, enforce |-> conf.enforce]
  IN  /\ SaveManifestAtomic(m)
      /\ srv' = [srv EXCEPT !.st = "opening", !.mani = m, !.hash = m.id]

\* Init's first half: the manifest is loaded and verified, or created.
LoadManifest(detected) ==
  LET made == [id |-> 1, format |-> detected, enforce |-> conf.enforce]
  IN  CASE disk.mani # NoManifest ->
             /\ srv' = IF Refuses(disk.mani, detected) THEN [srv EXCEPT !.st = "refused"]
                       ELSE [srv EXCEPT !.st = "opening", !.mani = disk.mani,
                                        !.hash = disk.mani.id]
             /\ UNCHANGED disk
        [] disk.mani = NoManifest /\ conf.require /\ detected # "uwal1" ->
             srv' = [srv EXCEPT !.st = "refused"] /\ UNCHANGED disk
        [] disk.mani = NoManifest /\ ~(conf.require /\ detected # "uwal1") /\ conf.auto ->
             /\ SaveManifestAtomic(made)
             /\ srv' = [srv EXCEPT !.st = "opening", !.mani = made, !.hash = 1]
        [] OTHER ->
             /\ srv' = [srv EXCEPT !.st = "opening",
                          !.mani = [made EXCEPT !.id = 0, !.enforce = "warn"]]
             /\ UNCHANGED disk

BootManifest ==
  /\ srv.st = "down"
  /\ \E detected \in DetectFormat(disk.segs) : LoadManifest(detected)
  /\ UNCHANGED <<conf, clock, pc, past>>

\* verifyManifestPreambleIfPresent: only strict unified manifests are held to
\* the first segment's preamble.
PreambleRefused ==
  /\ srv.mani.enforce = "strict" /\ srv.mani.format = "uwal1"
  /\ Len(disk.segs) > 0 /\ Whole(disk.segs[1])
  /\ LET f == disk.segs[1].fr[1]
     IN  f.op = "manifest" /\ f.id # srv.hash

\* Init's second half: the highest segment is continued where its bytes end,
\* behind a torn record too; an empty one gets its preamble.
BootOpen ==
  /\ srv.st = "opening"
  /\ \/ /\ PreambleRefused
        /\ srv' = [srv EXCEPT !.st = "refused"] /\ UNCHANGED disk
     \/ /\ ~PreambleRefused
        /\ srv' = [srv EXCEPT !.st = "replaying"]
        /\ LET n == Len(disk.segs)
           IN  disk' = [disk EXCEPT !.segs =
                 IF n = 0 THEN <<NewSegment(srv.hash)>>
                 ELSE IF Len(@[n].fr) = 0 THEN [@ EXCEPT ![n] = NewSegment(srv.hash)]
                 ELSE @]
  /\ UNCHANGED <<conf, clock, pc, past>>

\* The callback's error for a record: a deadline that has passed is tolerated
\* for SET and for GETEX PXAT, and stops the replay for GETEX EXAT.
Stops(r) == r = TornRecord \/ (r.op = "getexexat" /\ Fails(r))
Skipped(r) == r.op \in {"setat", "getexpxat"} /\ Fails(r)

StopsAt(rs) == Min({i \in DOMAIN rs : Stops(rs[i])} \cup {Len(rs) + 1})

\* ReplayCommand: segment after segment, up to the first record that cannot
\* be read or whose command fails.
ReadBack(segs) == LET rs == Records(segs) IN SubSeq(rs, 1, StopsAt(rs) - 1)

\* Records behind the one that stops the replay.
Behind(segs) ==
  LET rs == Records(segs) IN {rs[i] : i \in StopsAt(rs) + 1 .. Len(rs)}

\* Preambles are skipped.
ReplayOne(s, r) == IF r.op = "manifest" \/ Skipped(r) THEN s ELSE Effect(s, r)
Restored(rs)    == LeftFold(ReplayOne, Empty, rs)

\* RestoreSubscription and RemoveSubscription; the record names the client,
\* who is subscribed unless an unsubscription follows.
RestoredSubs(rs) ==
  {rs[i].key : i \in {j \in DOMAIN rs :
     /\ rs[j].op = "sub"
     /\ \A later \in j + 1 .. Len(rs) : rs[later].op = "unsub" => rs[later].key # rs[j].key}}

\* The replay of server/main.go; its error is logged and the start goes on.
BootReplay ==
  /\ srv.st = "replaying"
  /\ LET rs == ReadBack(disk.segs)
     IN  srv' = [srv EXCEPT !.st = "restored", !.store = Restored(rs), !.subs = RestoredSubs(rs)]
  /\ UNCHANGED <<conf, clock, disk, pc, past>>

\* "ready to accept connections": the ghost history starts from what was read.
BootServe ==
  /\ srv.st = "restored"
  /\ srv' = [srv EXCEPT !.st = "up"]
  /\ past' = [past EXCEPT !.overlap = {}, !.hist = [k \in DataKeys |->
                SelectSeq(ReadBack(disk.segs), LAMBDA r : r.key = k)]]
  /\ UNCHANGED <<conf, clock, disk, pc>>

RecoveryInit ==
  /\ conf \in Confs /\ clock = 0
  /\ disk = [segs |-> IF conf.legacy = NoCommand THEN <<>>
                      ELSE <<[fr |-> <<conf.legacy>>, safe |-> 1]>>,
             mani |-> NoManifest]
  /\ srv = Down
  /\ pc = [t \in Threads |-> Waiting]
  /\ past = [n |-> 0, crashes |-> 0, hist |-> [k \in DataKeys |->
               SelectSeq(<<conf.legacy>>, LAMBDA r : r.key = k)],
             overlap |-> {}, promised |-> {}, want |-> [t \in Threads |-> NoCommand]]

RecoveryNext ==
  \/ \E t \in Threads : Execute(t) \/ LogStep(t) \/ SyncStep(t) \/ Disconnect(t)
  \/ Ticker \/ ClockTick \/ Crashes
  \/ BootManifest \/ BootOpen \/ BootReplay \/ BootServe

RecoverySpec == RecoveryInit /\ [][RecoveryNext]_rvars

(***************************************************************************)
(* Properties, all about the moment before connections are accepted again. *)
(***************************************************************************)
\* Commands on k whose effect does not depend on when they are replayed.
Pending(k) == \A i \in DOMAIN past.hist[k] :
                past.hist[k][i].op # "setpx" /\ ~Fails(past.hist[k][i])

\* A restart brings every key back to a value it really had: the value after
\* some of the first commands executed on it, with its deadline, and at least
\* after those that were acknowledged as durable; unless the key's commands
\* overlapped between execution and log (IOThread.Start logs after it
\* executes), a deadline passed meanwhile, or a durable record was written
\* behind one that stops the replay.
PrefixRestored ==
  srv.st = "restored" =>
    \A k \in DataKeys :
      (k \notin past.overlap /\ Pending(k)) =>
        \E n \in 0 .. Len(past.hist[k]) :
          /\ srv.store[k] = LeftFold(Effect, Empty, SubSeq(past.hist[k], 1, n))[k]
          /\ \A c \in past.promised \ Behind(disk.segs) :
               c.key = k => \E i \in 1 .. n : past.hist[k][i] = c

\* A client whose last answered watch or unwatch is a watch is subscribed
\* after a restart, and one whose last is an unwatch is not (HandleWatch and
\* HandleUnwatch sync their record before they answer), unless that record
\* lies behind one that stops the replay.
WatchesRestored ==
  srv.st = "restored" =>
    \A t \in Threads :
      LET c == past.want[t]
      IN  (c # NoCommand /\ c \notin Behind(disk.segs)) =>
            (t \in srv.subs <=> c.op = "sub")

\* A restart restores the keys and the subscriptions clients were promised.
RestartRestores == PrefixRestored /\ WatchesRestored

\* Every preamble names the manifest that is on disk, so that a strict start
\* (verifyManifestPreambleIfPresent) never meets a preamble of another one,
\* whatever crashes lay between the manifest and the preambles.
PreambleIsManifest ==
  \A i \in DOMAIN disk.segs : \A j \in DOMAIN disk.segs[i].fr :
    LET f == disk.segs[i].fr[j]
    IN  f.op = "manifest" => j = 1 /\ f.id = disk.mani.id

\* A key whose last command gave it a deadline that has passed is not there
\* after a restart (server/main.go skips such commands: "no additional
\* mutation needs to be applied at restore time").
ExpiredStaysGone ==
  srv.st = "restored" =>
    \A k \in DataKeys :
      LET h == past.hist[k]
      IN  (/\ Len(h) > 0 /\ k \notin past.overlap
           /\ h[Len(h)] \in Range(ReadBack(disk.segs))
           /\ h[Len(h)].op \in Absolute /\ Fails(h[Len(h)])) =>
             Visible(srv.store, k) = Gone
=============================================================================
