------------------------------ MODULE MCFiles -------------------------------
(* Instances of RaftDisk, BucketFile and Recovery for TLC.  A behaviour is *)
(* one of a raft node's directory or, in the setting Still, of a bucket's  *)
(* file or of a server's command log.                                      *)
EXTENDS RaftDisk, BucketFile, Recovery

Plain == [voters |-> 1, wal |-> "off", threshold |-> 0, lastN |-> 2, segMax |-> 2,
          maxIndex |-> 4, crashes |-> 2, tears |-> FALSE, conflicts |-> 0,
          installs |-> FALSE, racing |-> FALSE]
Still == [Plain EXCEPT !.maxIndex = 0, !.crashes = 0]

\* A single node that takes snapshots, with each kind of WAL.
Single   == {[Plain EXCEPT !.wal = w, !.threshold = 2] : w \in {"off", "strict", "buffered"}}
\* The same while crashes tear what they interrupt, and with rotations that
\* race the background prune.
TornOff  == {[Plain EXCEPT !.wal = w, !.tears = TRUE, !.maxIndex = 3] : w \in {"strict", "buffered"}}
Racing   == {[Plain EXCEPT !.wal = "strict", !.threshold = 2, !.racing = TRUE,
                           !.maxIndex = 3, !.crashes = 1]}
\* A follower whose tail may be replaced and that may be sent a snapshot.
Follower == {[Plain EXCEPT !.voters = 3, !.wal = "strict", !.conflicts = 1, !.crashes = 1,
                           !.threshold = 2, !.maxIndex = 3],
             [Plain EXCEPT !.voters = 3, !.installs = TRUE, !.crashes = 1, !.maxIndex = 3]}
AllSettings == Single \cup TornOff \cup Racing \cup Follower \cup {Still}
OnlyStill   == {Still}

NoFaults  == {{}}
AllFaults == {{}, {"crash"}, {"crash", "fsync"}, {"crash", "cut"}, {"write"}}

\* Configurations of a server and its command log.
Cmd(op, at, durable) == [NoCommand EXCEPT !.op = op, !.key = "k", !.at = at, !.durable = durable]
Warn   == [menu |-> {}, commands |-> 3, ticks |-> 0, segMax |-> 3, tears |-> FALSE, crashes |-> 0, auto |-> TRUE,
           enforce |-> "warn", require |-> FALSE, legacy |-> NoCommand]
Off    == Warn
Sets   == {Cmd("set", 0, FALSE), Cmd("set", 0, TRUE), Cmd("del", 0, FALSE)}
Timed  == {Cmd("set", 0, TRUE), Cmd("setat", 2, FALSE), Cmd("getexpxat", 1, FALSE),
           Cmd("getexexat", 1, FALSE), Cmd("setpx", 1, FALSE)}
Watch  == {Cmd("sub", 0, FALSE), Cmd("unsub", 0, FALSE), Cmd("set", 0, TRUE)}
Served == {[Warn EXCEPT !.menu = Sets, !.crashes = 2],
           [Warn EXCEPT !.menu = Watch, !.crashes = 2],
           [Warn EXCEPT !.menu = Sets \cup Watch, !.commands = 2, !.tears = TRUE, !.crashes = 2],
           [Warn EXCEPT !.menu = Timed, !.ticks = 1, !.crashes = 1]}
\* Other ways to treat the manifest, also over a directory without one.
Legacy == [Cmd("set", 0, FALSE) EXCEPT !.id = 9]
Ruled  == {[Warn EXCEPT !.menu = {Cmd("set", 0, TRUE)}, !.commands = 2, !.tears = TRUE, !.crashes = 2,
                        !.auto = auto, !.enforce = e, !.require = r, !.legacy = l] :
             auto \in BOOLEAN, e \in {"warn", "strict"}, r \in BOOLEAN,
             l \in {NoCommand, Legacy}}
AllConfs  == Served \cup Ruled \cup {Off}
OnlyTimed == {[Warn EXCEPT !.menu = Timed, !.ticks = 1, !.crashes = 1]}

FilesInit == /\ DiskInit /\ BucketInit /\ RecoveryInit
             /\ setting = Still \/ (faults = {} /\ conf = Off)
             /\ conf = Off \/ faults = {}

BucketStep(A) == setting = Still /\ conf = Off /\ A /\ UNCHANGED <<vars, rvars>>

FilesNext == \/ BucketStep(BucketNext)
             \/ setting # Still /\ DiskNext /\ UNCHANGED <<bvars, rvars>>
             \/ conf # Off /\ RecoveryNext /\ UNCHANGED <<vars, bvars>>

\* The append call and the bucket's goroutine keep running.
FilesSpec == /\ FilesInit /\ [][FilesNext]_<<vars, bvars, rvars>>
             /\ WF_<<vars, bvars, rvars>>(BucketStep(AppendSync))
             /\ WF_<<vars, bvars, rvars>>(BucketStep(BucketRead))
=============================================================================
