------------------------------- MODULE Store -------------------------------
(* The shard's key-value store (internal/store): the table of objects, the *)
(* expiry table keyed by the object's pointer, the key counter that drives *)
(* eviction, and the operations the commands are built from.  Operations   *)
(* are operators on a store record d:                                      *)
(*   d.store    key -> pointer, or Nil                                     *)
(*   d.obj      pointer -> object: val = <<type, contents>>, access time   *)
(*   d.expires  pointer -> absolute expiry in ms, or NoExpiry              *)
(*   d.numKeys  the counter                                                *)
(* putHelper may have to evict, and which of several equally old keys goes *)
(* is the iteration order of a sync.Map, so it yields a set of stores.     *)
EXTENDS Integers, FiniteSets, FiniteSetsExt

CONSTANTS Keys,     \* keys of one shard
          MaxKeys   \* config.DefaultKeysLimit / shardCount

VARIABLE now        \* utils.CurrentTime in milliseconds

ASSUME MaxKeysAssumption == MaxKeys \in Nat \ {0}
ASSUME KeysAssumption == IsFiniteSet(Keys)

Nil      == 0
NoExpiry == -1
\* one pointer per key, one for the object a command is about to store and
\* one for an entry that has been dropped from the table
Ptrs     == 1 .. Cardinality(Keys) + 2
Blank    == [val |-> <<"free">>, access |-> 0]

NewStore == [store |-> [k \in Keys |-> Nil], obj |-> [p \in Ptrs |-> Blank],
             expires |-> [p \in Ptrs |-> NoExpiry], numKeys |-> 0]

Present(d) == {k \in Keys : d.store[k] # Nil}
Stored(d)  == {d.store[k] : k \in Present(d)}
Timed(d)   == {p \in Ptrs : d.expires[p] # NoExpiry}
Type(d, p) == d.obj[p].val[1]
Data(d, p) == d.obj[p].val[2]

\* Allocation and garbage collection: an object lives while the table or the
\* expiry table holds its pointer.
Fresh(d)   == CHOOSE p \in Ptrs : p \notin Stored(d) \cup Timed(d)
Collect(d) == [d EXCEPT !.obj = [p \in Ptrs |->
                 IF p \in Stored(d) \cup Timed(d) THEN @[p] ELSE Blank]]

SetUnixTimeExpiry(d, p, ms) == [d EXCEPT !.expires[p] = ms]
SetExpiry(d, p, ms) == SetUnixTimeExpiry(d, p, now + ms)
DelExpiry(d, p) == [d EXCEPT !.expires[p] = NoExpiry]

\* NewObj at the pointer Fresh(d); a negative duration sets no expiry.
NewObj(d, val, ms) ==
  LET p == Fresh(d)
      o == [d EXCEPT !.obj[p] = [val |-> val, access |-> now]]
  IN  IF ms >= 0 THEN SetExpiry(o, p, ms) ELSE o

hasExpired(d, p) == d.expires[p] # NoExpiry /\ d.expires[p] <= now

\* Mutant: the expiry entry is forgotten.
deleteKeyTimed(d, k, p) == [d EXCEPT !.store[k] = Nil, !.numKeys = @ - 1]

deleteKey(d, k, p) ==
  [d EXCEPT !.store[k] = Nil, !.expires[p] = NoExpiry, !.numKeys = @ - 1]

\* deleteKey of each key in K, keys that are present.
deleteKeys(d, K) ==
  [d EXCEPT !.store   = [k \in Keys |-> IF k \in K THEN Nil ELSE @[k]],
            !.expires = [p \in Ptrs |->
               IF \E k \in K : d.store[k] = p THEN NoExpiry ELSE @[p]],
            !.numKeys = @ - Cardinality(K)]

Del(d, k) == IF d.store[k] = Nil THEN d ELSE deleteKey(d, k, d.store[k])

\* Mutant: no lazy expiry.
getHelperStale(d, k, touch) ==
  IF touch /\ d.store[k] # Nil THEN [d EXCEPT !.obj[d.store[k]].access = now] ELSE d

\* getHelper: lazy expiry; the object found is getHelper(...).store[k].
getHelper(d, k, touch) ==
  LET p == d.store[k]
  IN  IF p = Nil THEN d
      ELSE IF hasExpired(d, p) THEN deleteKey(d, k, p)
      ELSE IF touch THEN [d EXCEPT !.obj[p].access = now] ELSE d

Get(d, k)        == getHelper(d, k, TRUE)
GetNoTouch(d, k) == getHelper(d, k, FALSE)

\* PrimitiveEvictionStrategy: once numKeys reaches MaxKeys, evict down to
\* ceil(MaxKeys * (1 - EvictionRatio)), EvictionRatio = 0.9.
ShouldEvict(d) ==
  LET target == (MaxKeys + 9) \div 10
  IN  IF d.numKeys < MaxKeys THEN 0 ELSE Max({1, d.numKeys - target})

\* Mutant: victims in the order of the scan.
VictimsAny(d, toEvict) ==
  {V \in SUBSET Present(d) : Cardinality(V) = Min({toEvict, Cardinality(Present(d))})}

\* The heap keeps the toEvict least recently accessed keys; ties are broken
\* by the order of the scan.
Victims(d, toEvict) ==
  {V \in SUBSET Present(d) :
     /\ Cardinality(V) = Min({toEvict, Cardinality(Present(d))})
     /\ \A v \in V, u \in Present(d) \ V :
          d.obj[d.store[v]].access <= d.obj[d.store[u]].access}

EvictVictims(d, toEvict) ==
  {deleteKeys(d, V) : V \in Victims(d, toEvict)}

putHelper(d, k, p, keepTTL) ==
  LET cur     == d.store[k]
      touched == [d EXCEPT !.obj[p].access = now]
      kept    == IF keepTTL /\ d.expires[cur] > 0
                 THEN SetUnixTimeExpiry(touched, p, d.expires[cur])
                 ELSE touched
      room    == IF cur # Nil THEN {DelExpiry(kept, cur)}
                 ELSE {[e EXCEPT !.numKeys = @ + 1] : e \in
                         EvictVictims(touched, ShouldEvict(d))}
  IN  {[e EXCEPT !.store[k] = p] : e \in room}

\* Storing a new object: NewObj followed by Put.
PutNew(d, k, val, ms, keepTTL) ==
  putHelper(NewObj(d, val, ms), k, Fresh(d), keepTTL)

\* The store after GetDel; its answer is nil when the object had expired.
GetDel(d, k) == Del(d, k)

Reset(d) == NewStore

\* deleteAllExpiredKeys, the shard thread's cron task.
DeleteExpiredKeys(d) ==
  deleteKeys(d, {k \in Present(d) : hasExpired(d, d.store[k])})

\* EvaluateAndSetExpiry(subCommands, ms, key): opts is the set of upper-cased
\* sub-commands.  The answer is <<store, "set" | "unset" | "err">>.
EvaluateAndSetExpiry(d, k, ms, opts) ==
  LET g    == Get(d, k)
      p    == g.store[k]
      prev == g.expires[p]
      bad  == \/ ~(opts \subseteq {"NX", "XX", "GT", "LT"})
              \/ {"GT", "LT"} \subseteq opts
              \/ "NX" \in opts /\ opts # {"NX"}
      set  == \/ opts = {}
              \/ "NX" \in opts /\ prev = NoExpiry
              \/ "XX" \in opts /\ prev # NoExpiry
              \/ "GT" \in opts /\ prev # NoExpiry /\ ms > prev
              \/ "LT" \in opts /\ prev # NoExpiry /\ ms < prev
  IN  IF p = Nil THEN <<g, "unset">>
      ELSE IF bad THEN <<g, "err">>
      ELSE IF set THEN <<SetUnixTimeExpiry(g, p, ms), "set">>
      ELSE IF "XX" \in opts THEN <<SetUnixTimeExpiry(g, p, ms), "unset">>
      ELSE <<g, "unset">>
=============================================================================
