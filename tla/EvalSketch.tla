----------------------------- MODULE EvalSketch -----------------------------
(* The probabilistic structures of the evaluation engine: count-min        *)
(* sketches (countminsketch.go), Bloom filters (type_bloomfilter.go) and   *)
(* HyperLogLogs.  The hash functions are constants, with collisions; the   *)
(* HyperLogLog library is taken as exact.  Sketches and filters carry a    *)
(* ghost field, true, with what an exact structure would hold.             *)
EXTENDS Eval

CONSTANTS Items,        \* what is counted or added; EmptyItem is the empty text
          EmptyItem,
          Hash1, Hash2, \* the two halves of the FNV hash: item -> Nat
          SeedHash,     \* murmur3 under a seed: seed -> item -> Nat
          NumHashes,    \* hash functions of a filter
          DefaultBits   \* bits of a filter made without BF.RESERVE

---------------------------------------------------------------------------
(* Count-min sketches: c.matrix[row][col], rows from 0                     *)

newCountMinSketch(width, depth) ==
  [width |-> width, depth |-> depth, count |-> 0, true |-> [x \in Items |-> 0],
   matrix |-> [r \in 0 .. depth - 1 |-> [col \in 0 .. width - 1 |-> 0]]]

matrixPositions(c, x) == [r \in 0 .. c.depth - 1 |-> (Hash1[x] + Hash2[x] * r) % c.width]

updateMatrix(c, x, n) ==
  LET pos == matrixPositions(c, x)
  IN  [c EXCEPT !.matrix = [r \in DOMAIN @ |-> [@[r] EXCEPT ![pos[r]] = @ + n]],
                !.count = @ + n, !.true[x] = @ + n]

estimateCount(c, x) == Min({c.matrix[r][matrixPositions(c, x)[r]] : r \in DOMAIN c.matrix})

Weighted(S, w, F(_)) ==
  FoldLeft(LAMBDA acc, i : acc + w[i] * F(S[i]), 0, [i \in 1 .. Len(S) |-> i])

\* The weighted sum of the sources S, the destination's own counts as they
\* were before among them if it is one.
mergeMatrices(c, S, w) ==
  [c EXCEPT !.matrix = [r \in DOMAIN @ |-> [col \in DOMAIN @[r] |->
                          Weighted(S, w, LAMBDA s : s.matrix[r][col])]],
            !.count  = Weighted(S, w, LAMBDA s : s.count),
            !.true   = [x \in Items |-> Weighted(S, w, LAMBDA s : s.true[x])]]

OnSketch(d, k, Body(_, _)) ==
  LET g == Get(d, k)
      p == g.store[k]
  IN  IF p = Nil \/ Type(g, p) # "cms" THEN Err(g) ELSE Body(g, p)

\* a = <<key, width, depth>>, given or computed from the error rate.
evalCMSINIT(d, a) ==
  LET g == Get(d, a[1])
  IN  IF a[2] <= 0 \/ a[3] <= 0 THEN Err(d)
      ELSE IF g.store[a[1]] # Nil THEN Err(g)
      ELSE OkEach(PutNew(g, a[1], <<"cms", newCountMinSketch(a[2], a[3])>>, -1, FALSE), OK)

\* a = <<key, pairs>>; a number that does not parse is <<>>, and all are
\* looked at before the sketch changes.
evalCMSIncrBy(d, a) ==
  OnSketch(d, a[1], LAMBDA g, p :
    LET steps == FoldLeft(LAMBDA acc, x :
                   LET c == updateMatrix(acc.c, x[1], x[2][1])
                   IN  [c |-> c, out |-> Append(acc.out, estimateCount(c, x[1]))],
                   [c |-> Data(g, p), out |-> <<>>], a[2])
    IN  IF \E i \in DOMAIN a[2] : a[2][i][2] = <<>> THEN Err(g)
        ELSE Ok([g EXCEPT !.obj[p].val[2] = steps.c], Array(steps.out)))

evalCMSQuery(d, a) ==
  OnSketch(d, a[1], LAMBDA g, p :
    Ok(g, Array([i \in 1 .. Len(a) - 1 |-> estimateCount(Data(g, p), a[i + 1])])))
evalCMSINFO(d, a) ==
  OnSketch(d, a[1], LAMBDA g, p :
    Ok(g, Array(<<Data(g, p).width, Data(g, p).depth, Data(g, p).count>>)))

\* a = <<key, source keys, weights>>.
evalCMSMerge(d, a) ==
  OnSketch(d, a[1], LAMBDA g, p :
    LET e == FoldLeft(Get, g, a[2])
        c == Data(g, p)
        S == [i \in DOMAIN a[2] |-> Data(e, e.store[a[2][i]])]
    IN  IF \E i \in DOMAIN a[2] :
             LET q == e.store[a[2][i]]
             IN  \/ q = Nil
                 \/ Type(e, q) # "cms"
                 \/ Data(e, q).width # c.width \/ Data(e, q).depth # c.depth
        THEN Err(e)
        ELSE Ok([e EXCEPT !.obj[p].val[2] = mergeMatrices(c, S, a[3])], OK))

---------------------------------------------------------------------------
(* Bloom filters                                                           *)

\* The seeds of the hash functions are drawn at random.
NewBloomFilter(bits) ==
  {[bits |-> bits, seeds |-> s, bitset |-> {}, cnt |-> 0, true |-> {}] :
     s \in [1 .. NumHashes -> DOMAIN SeedHash]}
updateIndexes(b, x) == {SeedHash[b.seeds[i]][x] % b.bits : i \in DOMAIN b.seeds}

\* Mutant: the second value to set a bit stops there.
bfAddStops(b, x) ==
  [b EXCEPT !.bitset = IF updateIndexes(b, x) \cap @ = {} THEN @ \cup updateIndexes(b, x) ELSE @,
            !.cnt = @ + 1, !.true = @ \cup {x}]

bfAdd(b, x) ==
  [b EXCEPT !.bitset = @ \cup updateIndexes(b, x), !.true = @ \cup {x},
            !.cnt = IF updateIndexes(b, x) \subseteq b.bitset THEN @ ELSE @ + 1]
bfExists(b, x) == updateIndexes(b, x) \subseteq b.bitset

CreateOrReplaceBloomFilter(g, k, bits) ==
  UNION {PutNew(g, k, <<"bf", b>>, -1, FALSE) : b \in NewBloomFilter(bits)}

\* a = <<key, bits>>, the number of bits for the error rate and the capacity.
evalBFRESERVE(d, a) ==
  LET g == Get(d, a[1])
  IN  IF a[2] <= 0 THEN Err(d)
      ELSE IF g.store[a[1]] # Nil THEN Err(g)
      ELSE OkEach(CreateOrReplaceBloomFilter(g, a[1], a[2]), OK)

\* A missing filter is made and stored before the value is looked at.
evalBFADD(d, a) ==
  LET g == Get(d, a[1])
      E == IF g.store[a[1]] = Nil
           THEN CreateOrReplaceBloomFilter(g, a[1], DefaultBits) ELSE {g}
      Add(e, p) ==
        IF Type(e, p) # "bf" \/ a[2] = EmptyItem THEN Err(e)
        ELSE Ok([e EXCEPT !.obj[p].val[2] = bfAdd(@, a[2])],
                Integer(IF bfExists(Data(e, p), a[2]) THEN 0 ELSE 1))
  IN  Arity(Len(a) = 2, d, UNION {Add(e, e.store[a[1]]) : e \in E})

evalBFEXISTS(d, a) ==
  Arity(Len(a) = 2, d, OnType(d, a[1], "bf", Integer(0), LAMBDA g, p :
    IF a[2] = EmptyItem THEN Err(g)
    ELSE Ok(g, Integer(IF bfExists(Data(g, p), a[2]) THEN 1 ELSE 0))))
evalBFINFO(d, a) ==
  LET g == Get(d, a[1])
      p == g.store[a[1]]
  IN  IF p = Nil \/ Type(g, p) # "bf" THEN Err(g)
      ELSE Ok(g, Array(<<Data(g, p).bits, Len(Data(g, p).seeds), Data(g, p).cnt>>))

---------------------------------------------------------------------------
(* HyperLogLogs: the set of what was inserted                              *)

evalPFADD(d, a) ==
  LET g   == Get(d, a[1])
      p   == g.store[a[1]]
      old == IF p = Nil THEN {} ELSE Data(g, p)
      new == old \cup Range(Tail(a))
  IN  IF p # Nil /\ Type(g, p) # "hll" THEN Err(g)
      ELSE OkEach(PutNew(g, a[1], <<"hll", new>>, -1, FALSE),
                  Integer(IF p = Nil \/ new # old THEN 1 ELSE 0))

evalPFCOUNT(d, a) ==
  LET g == FoldLeft(Get, d, a)
      P == {g.store[a[i]] : i \in DOMAIN a} \ {Nil}
  IN  IF \E p \in P : Type(g, p) # "hll" THEN Err(g)
      ELSE Ok(g, Integer(Cardinality(UNION {Data(g, p) : p \in P})))

\* a = <<key, sources>>, whose objects the coordinator has fetched.  An
\* existing destination has the earlier sources merged in when a later one
\* turns out to be something else.
evalPFMERGE(d, a) ==
  LET g    == Get(FoldLeft(Get, d, Tail(a)), a[1])
      p    == g.store[a[1]]
      src  == SelectSeq([i \in 1 .. Len(a) - 1 |-> g.store[a[i + 1]]], LAMBDA q : q # Nil)
      bad  == {i \in DOMAIN src : Type(g, src[i]) # "hll"}
      upto == IF bad = {} THEN Len(src) ELSE Min(bad) - 1
      sum  == (IF p = Nil THEN {} ELSE Data(g, p)) \cup UNION {Data(g, src[i]) : i \in 1 .. upto}
  IN  IF p # Nil /\ Type(g, p) # "hll" THEN Err(g)
      ELSE IF bad # {} THEN Err(IF p = Nil THEN g ELSE [g EXCEPT !.obj[p].val[2] = sum])
      ELSE OkEach(PutNew(g, a[1], <<"hll", sum>>, -1, FALSE), OK)
=============================================================================
