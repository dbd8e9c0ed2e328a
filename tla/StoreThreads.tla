---------------------------- MODULE StoreThreads ----------------------------
(* One key of a shard's store under concurrency.  IO threads run commands  *)
(* on the store directly and the shard's own thread sweeps expired keys,   *)
(* with no lock around them: only the single operations on the two tables  *)
(* (sync.Map) are atomic, and numKeys++ is a plain read and write.  Store  *)
(* has the same operations as one step each.  Every SET makes an object,   *)
(* named by the operation's number; object 0 is "no object".               *)
EXTENDS Integers, FiniteSets

CONSTANTS Workers,    \* IO threads
          Mixes,      \* operations a behaviour draws from, and its bounds
          MaxOps      \* bound on operations in any of them

Kinds == {"get", "set", "setttl", "setkeep", "del"}

ASSUME MixesAssumption ==
  /\ MaxOps \in Nat /\ "cron" \notin Workers
  /\ \A m \in Mixes : m.ops \subseteq Kinds /\ m.n \in 0 .. MaxOps

VARIABLES mix,       \* ops: kinds of operation; n: how many; sweeps: passes of
                     \* the shard's cron task
          time,      \* 0, or 1 once the deadlines given at 0 have passed
          tab,       \* store.store: the key's object
          deadline,  \* store.expires: object -> deadline, 0 where absent
          size,      \* RegMap.count of store.store
          numKeys,   \* the store's key counter
          job,       \* worker or "cron" -> where it is, and what it holds
          ops        \* ghost: n, kind, done, superseded, overlap, sweeps

tvars == <<mix, time, tab, deadline, size, numKeys, job, ops>>

Ids    == 1 .. MaxOps
Actors == Workers \cup {"cron"}
NoJob  == [op |-> "none", pc |-> "idle", id |-> 0, cur |-> 0, n |-> 0,
           before |-> {}, stale |-> {}, got |-> -1]

IsSet(op)    == op \in {"set", "setttl", "setkeep"}
IsWrite(op)  == IsSet(op) \/ op = "del"
HasLapsed(p) == deadline[p] # 0 /\ deadline[p] <= time
GoTo(a, l)   == job' = [job EXCEPT ![a].pc = l]
Stands(a, l)     == job[a].pc = l

\* The answer, and what the operation has superseded by then: every write
\* that was answered before it began; 0 is the empty start.
Answer(a, v) ==
  /\ job' = [job EXCEPT ![a] = [NoJob EXCEPT !.op = job[a].op,
                                        !.stale = job[a].stale, !.got = v]]
  /\ ops' = [ops EXCEPT !.done = @ \cup {job[a].id},
               !.superseded = IF IsWrite(job[a].op) THEN @ \cup job[a].before ELSE @]

\* A command begins; evalSET starts with a Get of its own.
Begin(a) ==
  /\ a \in Workers /\ Stands(a, "idle") /\ ops.n < mix.n
  /\ \E op \in mix.ops :
       LET i == ops.n + 1
       IN  /\ job' = [job EXCEPT ![a] = [NoJob EXCEPT !.op = op, !.pc = "find", !.id = i,
                        !.before = ops.done, !.stale = ops.superseded]]
           /\ ops' = [ops EXCEPT !.n = i, !.kind[i] = op,
                        !.overlap = @ \/ \E b \in Actors \ {a} : ~Stands(b, "idle")]
  /\ UNCHANGED <<mix, time, tab, deadline, size, numKeys>>

\* deleteAllExpiredKeys starts; All hands it the object it found.
Sweep ==
  /\ Stands("cron", "idle") /\ ops.sweeps < mix.sweeps
  /\ job' = [job EXCEPT !["cron"] = [NoJob EXCEPT !.op = "sweep", !.pc = "find"]]
  /\ ops' = [ops EXCEPT !.sweeps = @ + 1,
               !.overlap = @ \/ \E b \in Workers : ~Stands(b, "idle")]
  /\ UNCHANGED <<mix, time, tab, deadline, size, numKeys>>

\* A lookup is over: a SET goes on to make its object.
Found(a, v) == IF IsSet(job[a].op) THEN GoTo(a, "make") /\ UNCHANGED ops ELSE Answer(a, v)

\* store.Get in getHelper and Del, and All.
Find(a) ==
  /\ Stands(a, "find")
  /\ IF tab = 0 THEN Found(a, 0)
     ELSE /\ job' = [job EXCEPT ![a].cur = tab,
                                ![a].pc = IF job[a].op = "del" THEN "delete" ELSE "check"]
          /\ UNCHANGED ops
  /\ UNCHANGED <<mix, time, tab, deadline, size, numKeys>>

\* Mutant: an access writes the object back.
CheckWritesBack(a) ==
  /\ Stands(a, "check")
  /\ IF HasLapsed(job[a].cur)
     THEN /\ GoTo(a, IF job[a].op = "sweep" THEN "refind" ELSE "delete")
          /\ UNCHANGED <<tab, ops>>
     ELSE Found(a, job[a].cur) /\ tab' = job[a].cur
  /\ UNCHANGED <<mix, time, deadline, size, numKeys>>

\* hasExpired: getHelper deletes what has expired and answers the rest; the
\* sweep calls DelByPtr, which looks the key up again.
CheckExpiry(a) ==
  /\ Stands(a, "check")
  /\ IF HasLapsed(job[a].cur)
     THEN GoTo(a, IF job[a].op = "sweep" THEN "refind" ELSE "delete") /\ UNCHANGED ops
     ELSE Found(a, job[a].cur)
  /\ UNCHANGED <<mix, time, tab, deadline, size, numKeys>>

Refind(a) ==
  /\ Stands(a, "refind")
  /\ IF tab # 0 THEN job' = [job EXCEPT ![a].cur = tab, ![a].pc = "delete"] /\ UNCHANGED ops
     ELSE Answer(a, 0)
  /\ UNCHANGED <<mix, time, tab, deadline, size, numKeys>>

\* deleteKey: by key, whatever object is there now; its two tables, then the
\* counter.  RegMap.Delete counts down even when the key is gone.
Delete(a) ==
  /\ Stands(a, "delete")
  /\ tab' = 0 /\ size' = size - 1
  /\ GoTo(a, "forget")
  /\ UNCHANGED <<mix, time, deadline, numKeys, ops>>

Forget(a) ==
  /\ Stands(a, "forget")
  /\ deadline' = [deadline EXCEPT ![job[a].cur] = 0]
  /\ GoTo(a, "count")
  /\ UNCHANGED <<mix, time, tab, size, numKeys, ops>>

\* NewObj gives a SET's object its deadline.
Make(a) ==
  /\ Stands(a, "make")
  /\ deadline' = [deadline EXCEPT ![job[a].id] = IF job[a].op = "setttl" THEN time + 1 ELSE 0]
  /\ job' = [job EXCEPT ![a].cur = 0, ![a].pc = "lookup"]
  /\ UNCHANGED <<mix, time, tab, size, numKeys, ops>>

\* putHelper looks the key up again; a new key is counted.
Lookup(a) ==
  /\ Stands(a, "lookup")
  /\ job' = [job EXCEPT ![a].cur = tab,
                        ![a].pc = IF tab = 0 THEN "count"
                                  ELSE IF job[a].op = "setkeep" THEN "keep" ELSE "unexpire"]
  /\ UNCHANGED <<mix, time, tab, deadline, size, numKeys, ops>>

\* putHelper on an existing key: KEEPTTL copies the deadline, then the old
\* object's entry is dropped while that object is still in the table.
Keep(a) ==
  /\ Stands(a, "keep")
  /\ deadline' = [deadline EXCEPT ![job[a].id] = deadline[job[a].cur]]
  /\ GoTo(a, "unexpire")
  /\ UNCHANGED <<mix, time, tab, size, numKeys, ops>>

Unexpire(a) ==
  /\ Stands(a, "unexpire")
  /\ deadline' = [deadline EXCEPT ![job[a].cur] = 0]
  /\ GoTo(a, "put")
  /\ UNCHANGED <<mix, time, tab, size, numKeys, ops>>

\* numKeys++ of a new key (no object was found) and numKeys-- of deleteKey: a
\* read and a write.
Count(a) ==
  /\ Stands(a, "count")
  /\ job' = [job EXCEPT ![a].n = numKeys, ![a].pc = "counted"]
  /\ UNCHANGED <<mix, time, tab, deadline, size, numKeys, ops>>

\* Mutant: only DEL counts down.
TallyDel(a) ==
  /\ Stands(a, "counted")
  /\ IF job[a].cur = 0
     THEN numKeys' = job[a].n + 1 /\ GoTo(a, "put") /\ UNCHANGED ops
     ELSE /\ numKeys' = IF job[a].op = "del" THEN job[a].n - 1 ELSE numKeys
          /\ Found(a, 0)
  /\ UNCHANGED <<mix, time, tab, deadline, size>>

Tally(a) ==
  /\ Stands(a, "counted")
  /\ IF job[a].cur = 0
     THEN numKeys' = job[a].n + 1 /\ GoTo(a, "put") /\ UNCHANGED ops
     ELSE numKeys' = job[a].n - 1 /\ Found(a, 0)
  /\ UNCHANGED <<mix, time, tab, deadline, size>>

\* store.Put; RegMap.Put counts up even when the key was there.
PutObject(a) ==
  /\ Stands(a, "put")
  /\ tab' = job[a].id /\ size' = size + 1
  /\ Answer(a, job[a].id)
  /\ UNCHANGED <<mix, time, deadline, numKeys>>

Pass == time' = 1 /\ UNCHANGED <<mix, tab, deadline, size, numKeys, job, ops>>

ThreadsInit ==
  /\ mix \in Mixes /\ time = 0 /\ tab = 0 /\ size = 0 /\ numKeys = 0
  /\ deadline = [p \in Ids |-> 0]
  /\ job = [a \in Actors |-> NoJob]
  /\ ops = [n |-> 0, kind |-> [p \in Ids |-> "none"], done |-> {0}, superseded |-> {},
            overlap |-> FALSE, sweeps |-> 0]

ThreadsNext ==
  \/ \E a \in Actors :
       \/ Begin(a) \/ Find(a) \/ CheckExpiry(a) \/ Refind(a) \/ Delete(a) \/ Forget(a)
       \/ Make(a) \/ Lookup(a) \/ Keep(a) \/ Unexpire(a) \/ Count(a) \/ Tally(a) \/ PutObject(a)
  \/ Sweep \/ Pass

ThreadsSpec == ThreadsInit /\ [][ThreadsNext]_tvars

(***************************************************************************)
(* Properties.                                                             *)
(***************************************************************************)
Deletes == {i \in Ids : ops.kind[i] = "del"}
Lapsed  == time = 1 /\ \E i \in Ids : ops.kind[i] = "setttl"

\* A GET never answers with a value that had been replaced or deleted when it
\* began: every write that was answered before a later, answered write began
\* is invisible to the GETs after that.  Where no deadline has passed, it
\* answers "no such key" only when a DEL, or the empty start, is as fresh.
FreshReads ==
  \A a \in Workers :
    (job[a].op = "get" /\ job[a].got # -1) =>
      IF job[a].got # 0 THEN job[a].got \notin job[a].stale
      ELSE \/ Lapsed
           \/ 0 \notin job[a].stale
           \/ Deletes \ job[a].stale # {}

\* As long as no two of them overlap, the operations in their small steps
\* keep the counter that eviction relies on exact, and RegMap's own count,
\* with which KEYS sizes its answer, never below the number of keys.
SerialCount ==
  (~ops.overlap /\ \A a \in Actors : Stands(a, "idle")) =>
    numKeys = (IF tab = 0 THEN 0 ELSE 1) /\ size >= numKeys
=============================================================================
