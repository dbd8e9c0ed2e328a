-------------------------- MODULE EvalCollections --------------------------
(* The evaluators of hashes (hmap.go), sets, lists and sorted sets         *)
(* (sortedset/sorted_set.go, the GEO commands included).  Most change the  *)
(* structure an object holds in place; some then store it again as a new   *)
(* object, which drops the expiry of the key.                              *)
(*   a hash is a function from fields to texts, a set a set of members,    *)
(*   a list a sequence (Deque.tla has the layout that implements it), a    *)
(*   sorted set the tree of <<score, member>> pairs and the map from       *)
(*   members to scores that the code keeps side by side.                   *)
(* Fields, members and elements are numbers in the order of their names.   *)
(* A score or a position that does not parse is <<>>, one that does <<n>>. *)
EXTENDS Eval

\* The object at p changed in place.
InPlace(g, p, x) == [g EXCEPT !.obj[p].val[2] = x]
\* The new contents stored as a new object, without an expiry.
Replaced(g, k, type, x) == PutNew(g, k, <<type, x>>, -1, FALSE)

---------------------------------------------------------------------------
(* Hashes                                                                  *)

NoFields == [f \in {} |-> <<>>]
With(h, f, v) == [x \in DOMAIN h \cup {f} |-> IF x = f THEN v ELSE h[x]]

\* The fields set by the complete pairs of the arguments.
hashMapBuilder(h, pairs) ==
  FoldLeft(LAMBDA m, i : With(m, pairs[2 * i - 1], pairs[2 * i]), h,
           [i \in 1 .. Len(pairs) \div 2 |-> i])

\* With an odd number of arguments the pairs before the last are already in
\* the map of an existing object when the error is returned.
insertInHashMap(d, k, pairs, Answer(_)) ==
  LET g == Get(d, k)
      p == g.store[k]
      h == IF p = Nil THEN NoFields ELSE Data(g, p)
      m == hashMapBuilder(h, pairs)
  IN  IF p # Nil /\ Type(g, p) # "hash" THEN Err(g)
      ELSE IF Len(pairs) % 2 = 1 THEN Err(IF p = Nil THEN g ELSE InPlace(g, p, m))
      ELSE OkEach(Replaced(g, k, "hash", m), Answer(Cardinality(DOMAIN m \ DOMAIN h)))

evalHSET(d, a)  == Arity(Len(a) >= 3, d, insertInHashMap(d, a[1], Tail(a), Integer))
evalHMSET(d, a) == Arity(Len(a) >= 3, d, insertInHashMap(d, a[1], Tail(a), LAMBDA n : OK))

FieldOrNil(h, f) == IF f \in DOMAIN h THEN Bulk(h[f]) ELSE NIL
getValueFromHashMap(d, k, f) ==
  OnType(d, k, "hash", NIL, LAMBDA g, p : Ok(g, FieldOrNil(Data(g, p), f)))
evalHGET(d, a) == Arity(Len(a) = 2, d, getValueFromHashMap(d, a[1], a[2]))
evalHSETNX(d, a) ==
  Arity(Len(a) = 3, d,
    UNION {IF o.st = "err" THEN {o}
           ELSE IF o.res # NIL THEN Ok(o.db, Integer(0))
           ELSE UNION {Ok(x.db, Integer(1)) : x \in evalHSET(o.db, a)} :
             o \in getValueFromHashMap(d, a[1], a[2])})

evalHMGET(d, a) ==
  Arity(Len(a) >= 2, d,
    OnType(d, a[1], "hash", Array([i \in 1 .. Len(a) - 1 |-> NIL]), LAMBDA g, p :
      Ok(g, Array([i \in 1 .. Len(a) - 1 |-> FieldOrNil(Data(g, p), a[i + 1])]))))

\* A read of a hash: the answer for a missing key, and from the contents.
OnHash(d, a, n, nil, F(_)) ==
  Arity(Len(a) = n, d, OnType(d, a[1], "hash", nil, LAMBDA g, p : Ok(g, F(Data(g, p)))))
evalHEXISTS(d, a) == OnHash(d, a, 2, Integer(0), LAMBDA h : Integer(IF a[2] \in DOMAIN h THEN 1 ELSE 0))
evalHKEYS(d, a)   == OnHash(d, a, 1, <<"fields", {}>>, LAMBDA h : <<"fields", DOMAIN h>>)
evalHVALS(d, a)   == OnHash(d, a, 1, <<"bag", <<>>>>, LAMBDA h :
  <<"bag", [v \in Range(h) |-> Cardinality({f \in DOMAIN h : h[f] = v})]>>)
evalHGETALL(d, a) == OnHash(d, a, 1, <<"pairs", {}>>, LAMBDA h : <<"pairs", {<<f, h[f]>> : f \in DOMAIN h}>>)
evalHLEN(d, a)    == OnHash(d, a, 1, Integer(0), LAMBDA h : Integer(Cardinality(DOMAIN h)))
evalHSTRLEN(d, a) == OnHash(d, a, 2, Integer(0), LAMBDA h : Integer(IF a[2] \in DOMAIN h THEN Len(h[a[2]]) ELSE 0))

\* One page of the sorted fields: the next cursor is the position after the
\* last match of a full page, and 0 once the scan is at the end.
ScanPage(keys, cursor, match, count) ==
  LET hits == SelectSeq([i \in 1 .. Len(keys) |-> i - 1],
                        LAMBDA i : i >= cursor /\ keys[i + 1] \in match)
      page == SubSeq(hits, 1, Min({count, Len(hits)}))
  IN  [page |-> [i \in DOMAIN page |-> keys[page[i] + 1]],
       next |-> IF Len(page) < count \/ page[count] + 1 >= Len(keys) THEN 0 ELSE page[count] + 1]

\* a = <<key, cursor, matching fields, count>>; 10 is the default count.
evalHSCAN(d, a) ==
  OnType(d, a[1], "hash", <<"scan", 0, <<>>>>, LAMBDA g, p :
    LET h == Data(g, p)
        s == ScanPage(SetToSortSeq(DOMAIN h, <), a[2], a[3], a[4])
    IN  IF a[4] < 1 THEN Err(g)
        ELSE IF a[2] < 0 THEN Panic(g)
        ELSE Ok(g, <<"scan", s.next, [i \in DOMAIN s.page |-> <<s.page[i], h[s.page[i]]>>]>>))

\* Which fields are drawn is random: distinct ones for a positive count.
selectRandomFields(h, count) ==
  IF count > 0
  THEN {s \in [1 .. Min({count, Cardinality(DOMAIN h)}) -> DOMAIN h] :
          \A i, j \in DOMAIN s : s[i] = s[j] => i = j}
  ELSE [1 .. -count -> DOMAIN h]
evalHRANDFIELD(d, a) ==
  Arity(Len(a) = 2, d, OnType(d, a[1], "hash", NIL, LAMBDA g, p :
    IF DOMAIN Data(g, p) = {} THEN Ok(g, Array(<<>>))
    ELSE UNION {Ok(g, Array(s)) : s \in selectRandomFields(Data(g, p), a[2])}))

\* The new text of the field, the increment itself if it is not there, or <<>>
\* for an error.
incrementValue(h, f, by) ==
  LET i == Numeral(h[f])
  IN  IF f \notin DOMAIN h THEN FormatInt(by)
      ELSE IF ~IsInt(h[f]) \/ Overflows(i, by) THEN <<>>
      ELSE FormatInt(i + by)
incrementFloatValue(h, f, by) ==
  IF f \notin DOMAIN h THEN FormatHalves(by)
  ELSE IF ~IsHalves(h[f]) THEN <<>>
  ELSE FormatHalves(Halves(h[f]) + by)

IncrField(d, a, Step(_, _, _), Answer(_)) ==
  LET g == Get(d, a[1])
      p == g.store[a[1]]
      h == IF p = Nil THEN NoFields ELSE Data(g, p)
      t == Step(h, a[2], a[3])
  IN  IF Len(a) # 3 THEN Err(d)
      ELSE IF p # Nil /\ Type(g, p) # "hash" THEN Err(g)
      ELSE IF t = <<>> THEN Err(g)
      ELSE OkEach(Replaced(g, a[1], "hash", With(h, a[2], t)), Answer(t))
evalHINCRBY(d, a)      == IncrField(d, a, incrementValue, LAMBDA t : Integer(Numeral(t)))
evalHINCRBYFLOAT(d, a) == IncrField(d, a, incrementFloatValue, Bulk)

\* The same object is stored again when a field went.
evalHDEL(d, a) ==
  Arity(Len(a) >= 2, d, OnType(d, a[1], "hash", Integer(0), LAMBDA g, p :
    LET h    == Data(g, p)
        gone == DOMAIN h \cap Range(Tail(a))
        cut  == InPlace(g, p, [f \in DOMAIN h \ gone |-> h[f]])
    IN  IF gone = {} THEN Ok(g, Integer(0))
        ELSE OkEach(putHelper(cut, a[1], p, FALSE), Integer(Cardinality(gone)))))

---------------------------------------------------------------------------
(* Sets                                                                    *)

\* A missing key first gets an empty set.
evalSADD(d, a) ==
  LET g == Get(d, a[1])
      E == IF g.store[a[1]] = Nil THEN Replaced(g, a[1], "set", {}) ELSE {g}
      M == Range(Tail(a))
      Add(e, p) == Ok(InPlace(e, p, Data(e, p) \cup M), Integer(Cardinality(M \ Data(e, p))))
  IN  IF Len(a) < 2 THEN Err(d)
      ELSE IF g.store[a[1]] # Nil /\ Type(g, g.store[a[1]]) # "set" THEN Err(g)
      ELSE UNION {Add(e, e.store[a[1]]) : e \in E}

evalSREM(d, a) ==
  Arity(Len(a) >= 2, d, OnType(d, a[1], "set", Integer(0), LAMBDA g, p :
    LET gone == Data(g, p) \cap Range(Tail(a))
    IN  Ok(InPlace(g, p, Data(g, p) \ gone), Integer(Cardinality(gone)))))
evalSCARD(d, a) ==
  Arity(Len(a) = 1, d, OnType(d, a[1], "set", Integer(0), LAMBDA g, p :
    Ok(g, Integer(Cardinality(Data(g, p))))))
evalSMEMBERS(d, a) ==
  Arity(Len(a) = 1, d, OnType(d, a[1], "set", <<"members", {}>>, LAMBDA g, p :
    Ok(g, <<"members", Data(g, p)>>)))

---------------------------------------------------------------------------
(* Lists                                                                   *)

\* The list is stored, again if it was there, before anything is pushed.
Pushing(d, a, Joined(_)) ==
  LET g == Get(d, a[1])
      p == g.store[a[1]]
      E == IF p = Nil THEN Replaced(g, a[1], "list", <<>>) ELSE putHelper(g, a[1], p, FALSE)
      Push(e, q) == Ok(InPlace(e, q, Joined(Data(e, q))), Integer(Len(Joined(Data(e, q)))))
  IN  IF Len(a) < 2 THEN Err(d)
      ELSE IF p # Nil /\ Type(g, p) # "list" THEN Err(g)
      ELSE UNION {Push(e, e.store[a[1]]) : e \in E}
evalLPUSH(d, a) == Pushing(d, a, LAMBDA l : Reverse(Tail(a)) \o l)
evalRPUSH(d, a) == Pushing(d, a, LAMBDA l : l \o Tail(a))

\* a = <<key, count>>.  An emptied list stays in the store.
evalLPOP(d, a) ==
  IF a[2] = 0 THEN Ok(d, NIL) ELSE IF a[2] < 0 THEN Err(d)
  ELSE OnType(d, a[1], "list", NIL, LAMBDA g, p :
    LET l == Data(g, p)
        n == Min({a[2], Len(l)})
        popped == SubSeq(l, 1, n)
    IN  Ok(InPlace(g, p, SubSeq(l, n + 1, Len(l))),
           IF n = 0 THEN NIL ELSE IF n = 1 THEN <<"elem", l[1]>> ELSE Array(popped)))
evalRPOP(d, a) ==
  Arity(Len(a) = 1, d, OnType(d, a[1], "list", NIL, LAMBDA g, p :
    LET l == Data(g, p)
    IN  IF l = <<>> THEN Ok(g, NIL) ELSE Ok(InPlace(g, p, Front(l)), <<"elem", Last(l)>>)))

evalLLEN(d, a) ==
  Arity(Len(a) = 1, d, OnType(d, a[1], "list", Integer(0), LAMBDA g, p :
    Ok(g, Integer(Len(Data(g, p))))))

\* Positions from the left, negative ones from the right.
Slice(l, start, stop) ==
  LET s == IF start < 0 THEN Max({0, start + Len(l)}) ELSE start
      e == IF stop < 0 THEN stop + Len(l) ELSE Min({stop, Len(l) - 1})
  IN  SubSeq(l, s + 1, e + 1)
evalLRANGE(d, a) ==
  Arity(Len(a) = 3, d, OnType(d, a[1], "list", Array(<<>>), LAMBDA g, p :
    Ok(g, Array(Slice(Data(g, p), a[2], a[3])))))

\* a = <<key, "before" or "after", pivot, element>>.
evalLINSERT(d, a) ==
  Arity(Len(a) = 4, d, OnType(d, a[1], "list", Integer(0), LAMBDA g, p :
    LET l  == Data(g, p)
        at == Min({i \in DOMAIN l : l[i] = a[3]})
        l2 == InsertAt(l, IF a[2] = "before" THEN at ELSE at + 1, a[4])
    IN  IF l = <<>> THEN Ok(g, Integer(-1))
        ELSE IF a[2] \notin {"before", "after"} THEN Err(g)
        ELSE IF a[3] \notin Range(l) THEN Ok(g, Integer(-1))
        ELSE Ok(InPlace(g, p, l2), Integer(Len(l2)))))

---------------------------------------------------------------------------
(* Sorted sets                                                             *)

EmptyZset == [tree |-> {}, map |-> [m \in {} |-> 0]]
Less(x, y) == x[1] < y[1] \/ (x[1] = y[1] /\ x[2] < y[2])
Members(z) == DOMAIN z.map
\* Ascend over the tree.
Ascending(z) == SetToSortSeq(z.tree, Less)

\* Mutant: the item with the old score stays in the tree.
UpsertKeepsOld(z, score, m) ==
  [tree |-> z.tree \cup {<<score, m>>}, map |-> With(z.map, m, score)]

Upsert(z, score, m) ==
  [tree |-> (IF m \in Members(z) THEN z.tree \ {<<z.map[m], m>>} ELSE z.tree) \cup {<<score, m>>},
   map  |-> With(z.map, m, score)]

RemoveMember(z, m) ==
  IF m \notin Members(z) THEN z
  ELSE [tree |-> z.tree \ {<<z.map[m], m>>}, map |-> [x \in Members(z) \ {m} |-> z.map[x]]]

\* RankWithScore: the number of items before the member.
Rank(z, m) == Cardinality({x \in z.tree : Less(x, <<z.map[m], m>>)})

\* GetRange: the slice of the tree, from the right when reversed.
ZGetRange(z, start, stop, rev) ==
  LET t == IF rev THEN Reverse(Ascending(z)) ELSE Ascending(z)
  IN  Slice(t, start, stop)

\* GetMin and PopMax: up to n items from an end leave the tree and the map.
PopFrom(z, s, n) ==
  LET out == SubSeq(s, 1, Min({n, Len(s)}))
  IN  [z |-> FoldLeft(LAMBDA y, x : RemoveMember(y, x[2]), z, out), out |-> out]
CountInRange(z, lo, hi) == Cardinality({x \in z.tree : lo <= x[1] /\ x[1] <= hi})

---------------------------------------------------------------------------
(* Sorted set commands                                                     *)

\* validateFlagsAndArgs, and the parity check before it.
ValidFlags(flags, pairs) ==
  /\ pairs # <<>>
  /\ ~({"NX", "XX"} \subseteq flags)
  /\ Cardinality(flags \cap {"GT", "LT", "NX"}) <= 1
  /\ "INCR" \in flags => Len(pairs) = 1

shouldSkipMember(score, z, m, flags) ==
  LET old == m \in Members(z)
  IN  \/ "NX" \in flags /\ old
      \/ "XX" \in flags /\ ~old
      \/ "LT" \in flags /\ old /\ score >= z.map[m]
      \/ "GT" \in flags /\ old /\ score <= z.map[m]

\* The set after the pairs up to the first score that does not parse, and how
\* many members were added and updated.
Processed(z, flags, pairs) ==
  FoldLeft(LAMBDA acc, x :
    IF acc.bad \/ x[1] = <<>> THEN [acc EXCEPT !.bad = TRUE]
    ELSE IF shouldSkipMember(x[1][1], acc.z, x[2], flags) THEN acc
    ELSE [z |-> Upsert(acc.z, x[1][1], x[2]), bad |-> FALSE,
          added   |-> acc.added + (IF x[2] \in Members(acc.z) THEN 0 ELSE 1),
          updated |-> acc.updated +
             (IF x[2] \in Members(acc.z) /\ acc.z.map[x[2]] # x[1][1] THEN 1 ELSE 0)],
    [z |-> z, bad |-> FALSE, added |-> 0, updated |-> 0], pairs)

\* a = <<key, flags, pairs>>.  The set of an existing key is changed in place
\* pair by pair: what precedes a bad score stays.  With INCR nothing is stored,
\* so the set made for a missing key is lost.
evalZADD(d, a) ==
  LET g     == Get(d, a[1])
      p     == g.store[a[1]]
      flags == a[2]
      z     == IF p = Nil THEN EmptyZset ELSE Data(g, p)
      Kept(y) == IF p = Nil THEN g ELSE InPlace(g, p, y)
      r     == Processed(z, flags, a[3])
      m     == a[3][1][2]
      sum   == a[3][1][1][1] + (IF m \in Members(z) THEN z.map[m] ELSE 0)
  IN  IF p # Nil /\ Type(g, p) # "zset" THEN Err(g)
      ELSE IF ~ValidFlags(flags, a[3]) THEN Err(g)
      ELSE IF "INCR" \in flags /\ a[3][1][1] # <<>>
      THEN IF shouldSkipMember(sum, z, m, flags \cap {"GT", "LT"}) THEN Ok(g, NIL)
           ELSE IF shouldSkipMember(sum, z, m, flags)
           THEN OkEach(Replaced(g, a[1], "zset", z), Integer(0))
           ELSE Ok(Kept(Upsert(z, sum, m)), Integer(sum))
      ELSE IF r.bad THEN Err(Kept(r.z))
      ELSE OkEach(Replaced(g, a[1], "zset", r.z),
                  Integer(r.added + (IF "CH" \in flags THEN r.updated ELSE 0)))

OnZset(d, a, n, nil, F(_)) ==
  Arity(Len(a) = n, d, OnType(d, a[1], "zset", nil, LAMBDA g, p : Ok(g, F(Data(g, p)))))
evalZCOUNT(d, a) == OnZset(d, a, 3, Integer(0), LAMBDA z : Integer(CountInRange(z, a[2], a[3])))
evalZCARD(d, a)  == OnZset(d, a, 1, Integer(0), LAMBDA z : Integer(Cardinality(Members(z))))
\* a = <<key, start, stop, reversed>>; each item with its score.
evalZRANGE(d, a) == OnZset(d, a, 4, Array(<<>>), LAMBDA z : Array(ZGetRange(z, a[2], a[3], a[4])))
evalZRANK(d, a)  == OnZset(d, a, 2, NIL, LAMBDA z :
  IF a[2] \in Members(z) THEN Integer(Rank(z, a[2])) ELSE NIL)

evalZREM(d, a) ==
  Arity(Len(a) >= 2, d, OnType(d, a[1], "zset", Integer(0), LAMBDA g, p :
    LET z == FoldLeft(RemoveMember, Data(g, p), Tail(a))
    IN  Ok(InPlace(g, p, z), Integer(Cardinality(Members(Data(g, p))) - Cardinality(Members(z))))))

\* a = <<key, count>>.
Popping(d, a, S(_)) ==
  OnType(d, a[1], "zset", Array(<<>>), LAMBDA g, p :
    LET r == PopFrom(Data(g, p), S(Data(g, p)), a[2])
    IN  IF a[2] < 1 THEN Ok(g, Array(<<>>)) ELSE Ok(InPlace(g, p, r.z), Array(r.out)))
evalZPOPMIN(d, a) == Popping(d, a, Ascending)
\* The count is looked at before the key and its type.
evalZPOPMAX(d, a) ==
  IF a[2] <= 0 THEN Ok(Get(d, a[1]), Array(<<>>))
  ELSE Popping(d, a, LAMBDA z : Reverse(Ascending(z)))

---------------------------------------------------------------------------
(* Positions.  A position is the number of its geohash cell, the score     *)
(* geo.EncodeInt makes of it; decoding gives the cell back.                *)

\* a = <<key, flags, triples <<position, member>> >>.  As for ZADD, what
\* precedes a position out of range stays in the set of an existing key.
evalGEOADD(d, a) ==
  LET g == Get(d, a[1])
      p == g.store[a[1]]
      z == IF p = Nil THEN EmptyZset ELSE Data(g, p)
      r == Processed(z, a[2], a[3])
  IN  IF a[2] = {"NX", "XX"} THEN Err(d)
      ELSE IF p # Nil /\ Type(g, p) # "zset" THEN Err(g)
      ELSE IF r.bad THEN Err(IF p = Nil THEN g ELSE InPlace(g, p, r.z))
      ELSE OkEach(Replaced(g, a[1], "zset", r.z), Integer(r.added))
Position(z, m) == IF m \in Members(z) THEN Integer(z.map[m]) ELSE NIL
evalGEOPOS(d, a) ==
  Arity(Len(a) >= 2, d, OnType(d, a[1], "zset", NIL, LAMBDA g, p :
    Ok(g, Array([i \in 1 .. Len(a) - 1 |-> Position(Data(g, p), a[i + 1])]))))
\* A missing key is an error here, and only here.
evalGEOHASH(d, a) ==
  LET g == Get(d, a[1]) IN IF g.store[a[1]] = Nil THEN Err(g) ELSE evalGEOPOS(d, a)
\* a = <<key, member, member, unit>>.
evalGEODIST(d, a) ==
  OnType(d, a[1], "zset", NIL, LAMBDA g, p :
    LET at == Data(g, p).map
    IN  IF ~({a[2], a[3]} \subseteq DOMAIN at) THEN Ok(g, NIL)
        ELSE IF a[4] \notin {"m", "km", "ft", "mi"} THEN Err(g)
        ELSE Ok(g, Integer(Max({at[a[2]] - at[a[3]], at[a[3]] - at[a[2]]}))))

---------------------------------------------------------------------------
(* DUMP and RESTORE (dump_restore.go)                                      *)

\* rdbSerialize: hashes and HyperLogLogs have no encoding, and an integer
\* held as a text is refused.
Serializable(val) ==
  /\ val[1] \in {"string", "int", "set", "bytes", "list", "zset", "cms", "bf"}
  /\ val[1] = "int" => val[2][1] = "num"
\* Every structure is written field by field, and read back by the same fields;
\* of a sorted set only the map is.
rdbSerialize(val) == IF val[1] = "zset" THEN <<"zset", val[2].map>> ELSE val

\* A sorted set is built again member by member.
rdbDeserialize(e) ==
  IF e[1] # "zset" THEN e
  ELSE <<"zset", FoldLeft(LAMBDA z, m : Upsert(z, e[2][m], m), EmptyZset,
                          SetToSeq(DOMAIN e[2]))>>

evalDUMP(d, a) ==
  OnKey(d, a[1], NIL, LAMBDA g, p :
    IF Serializable(g.obj[p].val) THEN Ok(g, <<"dump", rdbSerialize(g.obj[p].val)>>) ELSE Err(g))

\* a = <<key, ttl in ms, encoded value>>.  The object made with the ttl is the
\* one stored only when the ttl is positive; with a ttl of 0 its expiry entry
\* stays behind.  A key that has an expiry keeps its own.
evalRestore(d, a) ==
  LET val == rdbDeserialize(a[3])
  IN  IF a[2] > 0 THEN OkEach(PutNew(d, a[1], val, a[2], TRUE), OK)
      ELSE OkEach(PutNew(NewObj(d, val, a[2]), a[1], val, -1, FALSE), OK)
=============================================================================
