---------------------------- MODULE BucketFile ------------------------------
(* FileBucketLog (bucket/file_bucket_log.go): one append-only file per     *)
(* bucket, and the Bucket.Run loop (bucket/runtime.go) that reads it while *)
(* appends go on.  The file is a sequence of entries <<commit index, id>>; *)
(* Cut is an entry torn by a crash or by a failed write.  An append is two *)
(* steps, because readers do not take the mutex: the flush that brings the *)
(* bytes into the file, then the fsync and the answer.                     *)
EXTENDS Lists

CONSTANTS BucketSettings,  \* faults a behaviour may meet
          MaxAppends       \* bound on calls of Append

VARIABLES faults,  \* subset of {"crash", "cut", "fsync", "write"}
          file,    \* bucket-<id>.wal
          log,     \* FileBucketLog: open, commitIdx, stuck (bufio error), busy
          reader,  \* Bucket.Run: lastApplied, from and the position in the file
          told     \* ghost: answers acked and entries applied since the start

bvars == <<faults, file, log, reader, told>>

Cut == <<0, 0>>

\* Complete entries before the first torn one.
Scan(f) == LET T == {j \in 1 .. Len(f) : f[j] = Cut}
           IN  IF T = {} THEN f ELSE SubSeq(f, 1, Min(T) - 1)

\* openBucket: the last commit index is the highest one the scan meets; the
\* writer continues at the end of the file, behind a torn entry too.
openBucket(l, f) ==
  IF l.open THEN l
  ELSE [l EXCEPT !.open = TRUE, !.stuck = FALSE,
                 !.commitIdx = Max({0} \cup {e[1] : e \in Range(Scan(f))})]

\* Append up to bw.Flush.  A write that fails may leave part of the entry, and
\* the bufio.Writer returns the same error for ever after.
AppendFlush ==
  /\ log.busy = <<>> /\ told.calls < MaxAppends
  /\ LET l == openBucket(log, file)
         e == <<l.commitIdx + 1, told.calls + 1>>
     IN  \/ /\ ~l.stuck
            /\ file' = Append(file, e)
            /\ log' = [l EXCEPT !.busy = e]
         \/ /\ "write" \in faults /\ ~l.stuck
            /\ \E part \in {<<>>, <<Cut>>} : file' = file \o part
            /\ log' = [l EXCEPT !.stuck = TRUE]
         \/ l.stuck /\ log' = l /\ UNCHANGED file
  /\ told' = [told EXCEPT !.calls = @ + 1]
  /\ UNCHANGED <<faults, reader>>

\* The fsync and the answer; when it fails commitIdx stays, and the next
\* append takes the same index although the entry is in the file.
AppendSync ==
  /\ log.busy # <<>>
  /\ \/ /\ log' = [log EXCEPT !.busy = <<>>, !.commitIdx = log.busy[1]]
        /\ told' = [told EXCEPT !.acked = Append(@, log.busy)]
     \/ /\ "fsync" \in faults
        /\ log' = [log EXCEPT !.busy = <<>>]
        /\ UNCHANGED told
  /\ UNCHANGED <<faults, file, reader>>

\* Mutant: the stream starts behind what has been appended.
ReadStartTail ==
  /\ reader.pos = 0
  /\ log' = openBucket(log, file)
  /\ reader' = [reader EXCEPT !.pos = 1, !.from = log'.commitIdx + 1]
  /\ UNCHANGED <<faults, file, told>>

\* Bucket.Run starts a new Read behind what it has applied.
ReadStart ==
  /\ reader.pos = 0
  /\ reader' = [reader EXCEPT !.pos = 1, !.from = reader.lastApplied + 1]
  /\ log' = openBucket(log, file)
  /\ UNCHANGED <<faults, file, told>>

\* Mutant: the bound is exclusive.
BelowExclusive(e) == e[1] <= reader.from

Below(e) == e[1] < reader.from

\* The next entry of the stream: skipped, or applied.
ReadEntry ==
  /\ reader.pos > 0 /\ reader.pos <= Len(Scan(file))
  /\ LET e == file[reader.pos]
     IN  IF Below(e)
         THEN reader' = [reader EXCEPT !.pos = @ + 1] /\ UNCHANGED told
         ELSE /\ reader' = [reader EXCEPT !.pos = @ + 1, !.lastApplied = e[1]]
              /\ told' = [told EXCEPT !.applied = Append(@, e)]
  /\ UNCHANGED <<faults, file, log>>

\* End of file, or an entry that does not read: the stream ends.
ReadEnd ==
  /\ reader.pos > Len(Scan(file))
  /\ reader' = [reader EXCEPT !.pos = 0]
  /\ UNCHANGED <<faults, file, log, told>>

\* A crash during the flush may tear the entry; the bucket starts again from
\* the beginning of the file.
BucketCrash ==
  /\ "crash" \in faults /\ told.crashes < 2
  /\ \/ UNCHANGED file
     \/ /\ "cut" \in faults /\ log.busy # <<>>
        /\ file' = Append(SubSeq(file, 1, Len(file) - 1), Cut)
  /\ log' = [open |-> FALSE, commitIdx |-> 0, stuck |-> FALSE, busy |-> <<>>]
  /\ reader' = [lastApplied |-> 0, from |-> 1, pos |-> 0]
  /\ told' = [told EXCEPT !.applied = <<>>, !.crashes = @ + 1]
  /\ UNCHANGED faults

BucketInit ==
  /\ faults \in BucketSettings
  /\ file = <<>>
  /\ log = [open |-> FALSE, commitIdx |-> 0, stuck |-> FALSE, busy |-> <<>>]
  /\ reader = [lastApplied |-> 0, from |-> 1, pos |-> 0]
  /\ told = [acked |-> <<>>, applied |-> <<>>, calls |-> 0, crashes |-> 0]

BucketRead == ReadStart \/ ReadEntry \/ ReadEnd

BucketNext == AppendFlush \/ AppendSync \/ BucketRead \/ BucketCrash

BucketSpec == BucketInit /\ [][BucketNext]_bvars

---------------------------------------------------------------------------
(* Properties                                                              *)

\* "CommitIndex is monotonically increasing per bucket" (bucket_log.go): the
\* indices Append answers with grow, across crashes, failed writes
\* and failed fsyncs, while no entry is torn; every answered entry can be read.
AnswersCountUp ==
  Cut \notin Range(file) =>
    /\ \A j \in 1 .. Len(told.acked) - 1 : told.acked[j][1] < told.acked[j + 1][1]
    /\ Range(told.acked) \subseteq Range(Scan(file))

\* Run applies indices in order and leaves none out: what it has applied since
\* it started is 1, 2, ... up to lastApplied, unless an fsync failed.
AppliedInOrder ==
  "fsync" \notin faults =>
    \A j \in 1 .. Len(told.applied) : told.applied[j][1] = j

\* What Append has answered for is eventually applied, when writes neither
\* fail nor tear.
AnsweredIsApplied ==
  \A n \in 1 .. MaxAppends :
    (faults \cap {"cut", "fsync", "write"} = {} /\ n <= Len(told.acked)) ~>
      (n <= Len(told.acked) /\ told.acked[n] \in Range(told.applied))
=============================================================================
