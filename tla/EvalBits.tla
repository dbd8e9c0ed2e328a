------------------------------ MODULE EvalBits ------------------------------
(* The evaluators of bits: SETBIT, GETBIT, BITCOUNT, BITPOS and BITFIELD   *)
(* (store_eval.go, bitpos.go, bytearray.go).  The value is a byte array,   *)
(* or the text of a string or of an integer, taken as a sequence of bytes; *)
(* bit 0 is the highest bit of the first byte.  Offsets are not negative.  *)
EXTENDS Eval

BitAt(s, i) == (s[(i \div 8) + 1] \div 2^(7 - (i % 8))) % 2
NumBits(s)  == 8 * Len(s)
\* The byte with bit b, counted from the lowest, set to v.
ByteWith(x, b, v) == x - ((x \div 2^b) % 2) * 2^b + v * 2^b

IncreaseSize(s, n) == s \o [i \in 1 .. Max({0, n - Len(s)}) |-> 0]

HasBytes(g, p) == HasText(g, p) \/ Type(g, p) = "bytes"
ValueBytes(g, p) == IF Type(g, p) = "bytes" THEN Data(g, p) ELSE ValueText(g, p)

SetBit(s, i, v) == [s EXCEPT ![(i \div 8) + 1] = ByteWith(@, 7 - (i % 8), v)]

\* Mutant: the type is kept whatever the bytes are.
ByteSliceToObjKeeps(type, s) ==
  IF type = "bytes" THEN <<"bytes", s>> ELSE <<type, <<"text", s>>>>

\* ByteSliceToObj: the type is kept, but an integer whose bytes no longer are
\* a numeral becomes a string, and one whose bytes are is parsed again.
ByteSliceToObj(type, s) ==
  CASE type = "bytes"  -> <<"bytes", s>>
    [] type = "string" -> Text(s)
    [] type = "int"    -> IF IsInt(s) THEN Num(Numeral(s)) ELSE Text(s)

\* a = <<key, offset, bit>>.  The changed value is stored as a new object with
\* the time that was left.
evalSETBIT(d, a) ==
  LET g == Get(d, a[1])
      n == (a[2] \div 8) + 1
      E == IF g.store[a[1]] = Nil
           THEN PutNew(g, a[1], <<"bytes", IncreaseSize(<<>>, n)>>, -1, FALSE) ELSE {g}
      Change(e, p) ==
        LET s    == IncreaseSize(ValueBytes(e, p), n)
            left == IF e.expires[p] = NoExpiry THEN -1 ELSE e.expires[p] - now
            x    == ByteSliceToObj(Type(e, p), SetBit(s, a[2], a[3]))
        IN  IF ~HasBytes(e, p) THEN IF Type(e, p) = "int" THEN Panic(e) ELSE Err(e)
            ELSE OkEach(PutNew(e, a[1], x, left, FALSE), Integer(BitAt(s, a[2])))
  IN  IF Len(a) # 3 \/ a[2] < 0 THEN Err(d) ELSE UNION {Change(e, e.store[a[1]]) : e \in E}

\* A missing key is a wrong type here.  Nothing refuses a negative offset: the
\* seven bits before the value read as 0, and the rest are out of its bounds.
evalGETBIT(d, a) ==
  LET g == Get(d, a[1])
      p == g.store[a[1]]
  IN  IF Len(a) # 2 THEN Err(d)
      ELSE IF p = Nil \/ Type(g, p) = "set" THEN Err(g)
      ELSE IF ~HasBytes(g, p) THEN IF Type(g, p) = "int" THEN Panic(g) ELSE Ok(g, Integer(0))
      ELSE LET s == ValueBytes(g, p)
           IN  IF a[2] <= -8 \/ (a[2] < 0 /\ s = <<>>) THEN Panic(g)
               ELSE Ok(g, Integer(IF a[2] \notin 0 .. NumBits(s) - 1 THEN 0 ELSE BitAt(s, a[2])))

Ones(s, from, to) == Cardinality({i \in from .. to : BitAt(s, i) = 1})

\* A range of bytes; -1 stands for the panic when it starts before the value.
CountOnes(s, start, end) ==
  LET lo == IF start < 0 THEN start + Len(s) ELSE start
      hi == IF end < 0 THEN end + Len(s) ELSE end
  IN  IF lo > hi \/ lo >= Len(s) THEN 0
      ELSE IF lo < 0 THEN -1
      ELSE Ones(s, 8 * lo, 8 * Min({hi, Len(s) - 1}) + 7)
\* A range of bits: one that ends in the last byte is taken to its end.
CountOnesBits(s, start, end) ==
  LET lo == IF start < 0 THEN start + NumBits(s) ELSE start
      hi == IF end < 0 THEN end + NumBits(s) ELSE end
  IN  IF lo > hi \/ lo >= NumBits(s) THEN 0
      ELSE IF lo < 0 THEN -1
      ELSE Ones(s, lo, IF hi \div 8 >= Len(s) - 1 THEN NumBits(s) - 1 ELSE hi)

\* a = <<key>>, <<key, start, end>> or <<key, start, end, unit>>.
evalBITCOUNT(d, a) ==
  LET Body(g, p) ==
        LET s == ValueBytes(g, p)
            n == IF Len(a) = 1 THEN CountOnes(s, 0, Len(s) - 1)
                 ELSE IF Len(a) = 3 \/ a[4] = "BYTE" THEN CountOnes(s, a[2], a[3])
                 ELSE CountOnesBits(s, a[2], a[3])
        IN  IF ~HasBytes(g, p) THEN IF Type(g, p) = "int" THEN Panic(g) ELSE Err(g)
            ELSE IF Len(a) = 2 THEN Err(g)
            ELSE IF Len(a) = 4 /\ a[4] \notin {"BYTE", "BIT"} THEN Err(g)
            ELSE IF n = -1 THEN Panic(g) ELSE Ok(g, Integer(n))
  IN  Arity(Len(a) \in 1 .. 4, d, OnKey(d, a[1], Integer(0), Body))

---------------------------------------------------------------------------
(* BITPOS                                                                  *)

adjustBitPosSearchRange(start, end, n) ==
  <<Max({0, IF start < 0 THEN start + n ELSE start}),
    Min({n - 1, IF end < 0 THEN end + n ELSE end})>>

getBitPosWithBitRange(s, b, from, to) ==
  LET hits == {i \in from .. to : BitAt(s, i) = b} IN IF hits = {} THEN -1 ELSE Min(hits)

\* A 0 that is not there is found behind the value, unless an end was given.
getBitPos(s, b, start, end, unit, endGiven) ==
  LET n == IF unit = "BYTE" THEN Len(s) ELSE NumBits(s)
      r == adjustBitPosSearchRange(start, end, n)
      pos == IF unit = "BYTE" THEN getBitPosWithBitRange(s, b, 8 * r[1], 8 * r[2] + 7)
             ELSE getBitPosWithBitRange(s, b, r[1], r[2])
  IN  IF r[1] > r[2] \/ r[1] >= n THEN -1
      ELSE IF b = 0 /\ pos = -1 /\ ~endGiven THEN NumBits(s) ELSE pos

\* a = <<key, bit>>, then start, end and unit.
evalBITPOS(d, a) ==
  LET Body(g, p) ==
        LET s == ValueBytes(g, p)
            start == IF Len(a) > 2 THEN a[3] ELSE 0
            end   == IF Len(a) > 3 THEN a[4] ELSE Len(s) - 1
            unit  == IF Len(a) > 4 THEN a[5] ELSE "BYTE"
        IN  IF ~HasBytes(g, p) THEN IF Type(g, p) = "int" THEN Panic(g) ELSE Err(g)
            ELSE IF unit \notin {"BYTE", "BIT"} THEN Err(g)
            ELSE Ok(g, Integer(getBitPos(s, a[2], start, end, unit, Len(a) > 3)))
  IN  IF Len(a) \notin 2 .. 5 THEN Err(d)
      ELSE IF a[2] \notin {0, 1} THEN Err(Get(d, a[1]))
      ELSE OnKey(d, a[1], Integer(IF a[2] = 0 THEN 0 ELSE -1), Body)

---------------------------------------------------------------------------
(* BITFIELD                                                                *)

\* Fields are read from the highest bit of a byte down; bits behind the value
\* read as 0, and so do the seven before it.
getBits(s, off, width, signed) ==
  LET In(i) == off + i \in 0 .. NumBits(s) - 1
      v == SumSet({IF In(i) THEN BitAt(s, off + i) * 2^(width - 1 - i) ELSE 0 : i \in 0 .. width - 1})
  IN  IF signed /\ v >= 2^(width - 1) THEN v - 2^width ELSE v

\* They are written from the lowest bit of a byte up.
setBits(s, off, width, v) ==
  FoldLeft(LAMBDA t, i : [t EXCEPT ![((off + i) \div 8) + 1] =
                            ByteWith(@, (off + i) % 8, (v \div 2^i) % 2)],
           IncreaseSize(s, (off + width + 7) \div 8), [i \in 1 .. width |-> i - 1])

\* Go's remainder has the sign of the dividend.
Rem(x, m) == IF x >= 0 THEN x % m ELSE -((-x) % m)

\* The field after the increment and whether there is one: with FAIL an
\* overflow leaves the field alone, though the value has grown to hold it.  No
\* operation refuses a negative offset: reading a field is out of bounds from
\* the eighth bit before the value on, writing one shifts by a negative amount.
incrByBits(s, off, width, by, mode, signed) ==
  LET grown == IncreaseSize(s, (off + width + 7) \div 8)
      hi    == IF signed THEN 2^(width - 1) - 1 ELSE 2^width - 1
      lo    == IF signed THEN -(2^(width - 1)) ELSE 0
      new   == getBits(grown, off, width, signed) + by
      fit   == CASE mode = "WRAP" -> IF signed THEN ((new - lo) % (hi - lo + 1)) + lo
                                     ELSE Rem(new, hi + 1)
                 [] mode = "SAT"  -> Max({lo, Min({hi, new})})
                 [] mode = "FAIL" -> new
  IN  IF off <= -8 THEN [s |-> s, res |-> NIL, panics |-> TRUE]
      ELSE IF mode = "FAIL" /\ (new > hi \/ new < lo)
      THEN [s |-> grown, res |-> NIL, panics |-> FALSE]
      ELSE IF off < 0 THEN [s |-> s, res |-> NIL, panics |-> TRUE]
      ELSE [s |-> setBits(grown, off, width, fit), res |-> Integer(fit), panics |-> FALSE]

\* An operation is [kind, signed, width, off, val], or [kind |-> "OVERFLOW", mode].
executeBitfieldOps(s, ops) ==
  LET Incremented(acc, r) ==
        [acc EXCEPT !.out = Append(@, r.res), !.s = r.s, !.panics = @ \/ r.panics]
  IN FoldLeft(LAMBDA acc, op :
    CASE op.kind = "OVERFLOW" -> [acc EXCEPT !.mode = op.mode]
      [] op.kind = "GET" ->
           IF op.off <= -8 THEN [acc EXCEPT !.panics = TRUE]
           ELSE [acc EXCEPT !.out = Append(@, Integer(getBits(acc.s, op.off, op.width, op.signed)))]
      [] op.kind = "SET" ->
           IF op.off < 0 THEN [acc EXCEPT !.panics = TRUE]
           ELSE [acc EXCEPT !.out = Append(@, Integer(getBits(acc.s, op.off, op.width, op.signed))),
                            !.s   = setBits(@, op.off, op.width, op.val)]
      [] op.kind = "INCRBY" ->
           Incremented(acc, incrByBits(acc.s, op.off, op.width, op.val, acc.mode, op.signed)),
    [s |-> s, mode |-> "WRAP", out |-> <<>>, panics |-> FALSE], ops)

\* ParseBitfieldOps: the widths a field may have, and the read-only variant.
ParseBitfieldOps(ops, readOnly) ==
  \A i \in DOMAIN ops :
    /\ ops[i].kind # "OVERFLOW" => ops[i].width \in 1 .. (IF ops[i].signed THEN 64 ELSE 63)
    /\ readOnly => ops[i].kind = "GET"

\* a = <<key, operations, read-only>>.  A missing key is created even for
\* reads; the bytes of a string or an integer are a copy, and changes to them
\* are lost.
evalBITFIELD(d, a) ==
  LET g == Get(d, a[1])
      E == IF g.store[a[1]] = Nil
           THEN PutNew(g, a[1], <<"bytes", <<0>>>>, -1, FALSE) ELSE {g}
      Done(e, p, r) ==
        IF r.panics THEN Panic(e)
        ELSE Ok(IF Type(e, p) = "bytes" THEN [e EXCEPT !.obj[p].val[2] = r.s] ELSE e,
                Array(r.out))
      Run(e, p) ==
        IF ~HasBytes(e, p) THEN IF Type(e, p) = "int" THEN Panic(e) ELSE Err(e)
        ELSE Done(e, p, executeBitfieldOps(ValueBytes(e, p), a[2]))
  IN  IF ~ParseBitfieldOps(a[2], a[3]) THEN Err(d)
      ELSE UNION {Run(e, e.store[a[1]]) : e \in E}
=============================================================================
