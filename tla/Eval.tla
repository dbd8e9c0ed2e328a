-------------------------------- MODULE Eval --------------------------------
(* The evaluation engine (internal/eval), the command set SevenDB carries  *)
(* over from its predecessor: the evaluators of strings, counters, expiry, *)
(* and whole keys (store_eval.go, type_string.go).  Each is an operator    *)
(* from a store and its arguments to the set of its outcomes: a store, a   *)
(* status and a result.                                                    *)
(*                                                                         *)
(* A text is a sequence of bytes.  The value of a string object is         *)
(* <<"text", t>>, of an integer object <<"num", n>>: an evaluator may      *)
(* store one under the type of the other, and reading it then panics.      *)
EXTENDS Store, Sequences, SequencesExt

CONSTANTS MsPerSec,   \* 1000 in the code
          MaxEx,      \* maxExDuration
          IntHalf     \* 2^63 in the code

Reply(d, st, r) == {[db |-> d, st |-> st, res |-> r]}
Ok(d, r)        == Reply(d, "ok", r)
Err(d)          == Reply(d, "err", <<>>)
Panic(d)        == Reply(d, "panic", <<>>)
OkEach(D, r)    == UNION {Ok(d, r) : d \in D}

NIL     == <<"nil">>
OK      == <<"OK">>
Integer(n) == <<"int", n>>
Bulk(t) == <<"text", t>>
Array(s) == <<"array", s>>

Arity(ok, d, outcomes) == IF ok THEN outcomes ELSE Err(d)

\* store.Get, the answer for a missing key, and the rest.
OnKey(d, k, nil, Body(_, _)) ==
  LET g == Get(d, k)
  IN  IF g.store[k] = Nil THEN Ok(g, nil) ELSE Body(g, g.store[k])

\* The same with the type check most evaluators start with.
OnType(d, k, type, nil, Body(_, _)) ==
  OnKey(d, k, nil, LAMBDA g, p : IF Type(g, p) # type THEN Err(g) ELSE Body(g, p))

---------------------------------------------------------------------------
(* Texts                                                                   *)

Dec[n \in Nat] ==
  IF n < 10 THEN <<48 + n>> ELSE Append(Dec[n \div 10], 48 + (n % 10))
FormatInt(n) == IF n < 0 THEN <<45>> \o Dec[-n] ELSE Dec[n]

IsNumeral(t) ==
  LET ds == IF t # <<>> /\ t[1] \in {43, 45} THEN Tail(t) ELSE t
  IN  ds # <<>> /\ \A i \in DOMAIN ds : ds[i] \in 48 .. 57
Numeral(t) ==
  LET ds == SelectSeq(t, LAMBDA c : c \in 48 .. 57)
      n  == FoldLeft(LAMBDA acc, c : 10 * acc + c - 48, 0, ds)
  IN  IF t[1] = 45 THEN -n ELSE n
IsInt(t) == IsNumeral(t) /\ -IntHalf <= Numeral(t) /\ Numeral(t) < IntHalf

Text(t) == <<"string", <<"text", t>>>>
Num(n)  == <<"int", <<"num", n>>>>

\* Mutant: a leading zero is dropped.
getRawStringOrIntEager(t) == IF IsInt(t) THEN Num(Numeral(t)) ELSE Text(t)

\* A text that starts with a zero stays a text.
getRawStringOrInt(t) ==
  IF IsInt(t) /\ ~(Len(t) > 1 /\ t[1] = 48) THEN Num(Numeral(t)) ELSE Text(t)

\* The text of the value at p: of a string, of an integer held as one.
HasText(g, p) ==
  \/ Type(g, p) = "string"
  \/ Type(g, p) = "int" /\ Data(g, p)[1] = "num"
ValueText(g, p) ==
  IF Type(g, p) = "int" THEN FormatInt(Data(g, p)[2]) ELSE Data(g, p)[2]

\* How GET, GETDEL, GETEX and SET .. GET answer with the value at p: the
\* conversion of a byte array or a sketch to []byte fails, and so does that of
\* an integer that is held as a text.
ReplyValue(d, g, p) ==
  IF HasText(g, p) THEN Ok(d, Bulk(ValueText(g, p)))
  ELSE IF Type(g, p) \in {"int", "bytes", "hll"} THEN Panic(d)
  ELSE Err(d)

---------------------------------------------------------------------------
(* Strings                                                                 *)

evalGET(d, a) == Arity(Len(a) = 1, d, OnKey(d, a[1], NIL, LAMBDA g, p : ReplyValue(g, g, p)))

evalGETDEL(d, a) ==
  LET g == GetNoTouch(d, a[1])
      p == g.store[a[1]]
  IN  Arity(Len(a) = 1, d,
        IF p = Nil THEN Ok(g, NIL) ELSE ReplyValue(GetDel(g, a[1]), g, p))

Expiries == {"EX", "PX", "EXAT", "PXAT"}
\* The duration asked for in milliseconds; -1 for none, -2 for one out of range.
Duration(o) ==
  LET Within(n, unit) == IF 0 < n /\ n < MaxEx THEN n * unit ELSE -2
  IN  CASE "EX"   \in DOMAIN o -> Within(o["EX"], MsPerSec)
        [] "PX"   \in DOMAIN o -> Within(o["PX"], 1)
        [] "EXAT" \in DOMAIN o -> Within(o["EXAT"] - now \div MsPerSec, MsPerSec)
        [] "PXAT" \in DOMAIN o -> Within(o["PXAT"] - now, 1)
        [] OTHER -> -1

\* a = <<key, options>>; an option it does not know is ignored.
evalGETEX(d, a) ==
  LET o == a[2]
      E == DOMAIN o \cap Expiries
      Body(g, p) ==
        IF Type(g, p) \notin {"string", "int", "bytes", "hll"} THEN Err(g)
        ELSE IF "PERSIST" \in DOMAIN o THEN ReplyValue(DelExpiry(g, p), g, p)
        ELSE IF Duration(o) = -2 THEN Err(g)
        ELSE ReplyValue(IF E = {} THEN g ELSE SetExpiry(g, p, Duration(o)), g, p)
  IN  IF Cardinality(E) > 1 \/ ("PERSIST" \in DOMAIN o /\ E # {}) THEN Err(d)
      ELSE OnKey(d, a[1], NIL, Body)

\* a = <<key, text, options>>.  The expiry is set once the object is stored.
evalSET(d, a) ==
  LET o   == a[3]
      ms  == Duration(o)
      old == "GET" \in DOMAIN o
      g   == IF old THEN Get(d, a[1]) ELSE d
      p   == g.store[a[1]]
      put == {IF ms > 0 THEN SetExpiry(e, e.store[a[1]], ms) ELSE e :
                e \in PutNew(g, a[1], getRawStringOrInt(a[2]), -1, FALSE)}
  IN  IF ~(DOMAIN o \subseteq {"EX", "PX", "PXAT", "GET"}) THEN Err(d)
      ELSE IF Cardinality(DOMAIN o \cap Expiries) > 1 \/ ms = -2 THEN Err(d)
      ELSE IF ~old THEN OkEach(put, OK)
      ELSE IF p = Nil THEN OkEach(put, NIL)
      ELSE IF HasText(g, p) THEN OkEach(put, Bulk(ValueText(g, p)))
      ELSE ReplyValue(g, g, p)

evalSETEX(d, a) ==
  IF Len(a) # 3 \/ a[2] <= 0 \/ a[2] >= MaxEx \div MsPerSec THEN Err(d)
  ELSE OkEach(PutNew(d, a[1], getRawStringOrInt(a[3]), a[2] * MsPerSec, FALSE), OK)

\* The remaining time is computed again for the new object.
evalAPPEND(d, a) ==
  LET g    == Get(d, a[1])
      p    == g.store[a[1]]
      left == IF p = Nil \/ g.expires[p] = NoExpiry THEN -1
              ELSE Max({0, g.expires[p] - now})
      Joined(t) == OkEach(PutNew(g, a[1], Text(t \o a[2]), left, FALSE),
                          Integer(Len(t) + Len(a[2])))
  IN  IF Len(a) # 2 THEN Err(d)
      ELSE IF p = Nil
      THEN OkEach(PutNew(g, a[1], getRawStringOrInt(a[2]), left, FALSE), Integer(Len(a[2])))
      ELSE IF HasText(g, p) THEN Joined(ValueText(g, p))
      ELSE IF Type(g, p) = "bytes" THEN Joined(Data(g, p))
      ELSE IF Type(g, p) = "int" THEN Panic(g)
      ELSE Err(g)

\* The bytes from start to end, negative positions counting from the right.
GetRange(t, start, end) ==
  LET s == IF start < 0 THEN Len(t) + start ELSE start
      e == IF end < 0 THEN Len(t) + end ELSE end
  IN  IF t = <<>> \/ s >= Len(t) \/ e < 0 \/ s > e THEN <<>>
      ELSE SubSeq(t, Max({0, s}) + 1, Min({e, Len(t) - 1}) + 1)

evalGETRANGE(d, a) ==
  Arity(Len(a) = 3, d, OnKey(d, a[1], Bulk(<<>>), LAMBDA g, p :
    IF HasText(g, p) THEN Ok(g, Bulk(GetRange(ValueText(g, p), a[2], a[3])))
    ELSE IF Type(g, p) = "bytes" THEN Ok(g, Bulk(GetRange(Data(g, p), a[2], a[3])))
    ELSE IF Type(g, p) = "int" THEN Panic(g)
    ELSE Err(g)))

---------------------------------------------------------------------------
(* Counters                                                                *)

Overflows(v, by) == v + by >= IntHalf \/ v + by < -IntHalf

\* Mutant: the sum is stored before the check.
evalINCRBYEager(d, a) ==
  LET g == Get(d, a[1])
      p == g.store[a[1]]
      v == Numeral(ValueText(g, p))
      e == [g EXCEPT !.obj[p].val = Num(v + a[2])]
  IN  IF p = Nil THEN OkEach(PutNew(g, a[1], Num(a[2]), -1, FALSE), Integer(a[2]))
      ELSE IF ~HasText(g, p) \/ ~IsInt(ValueText(g, p)) THEN Err(g)
      ELSE IF Overflows(v, a[2]) THEN Err(e) ELSE Ok(e, Integer(v + a[2]))

\* a = <<key, increment>>.  The object is changed in place; a text that is an
\* integer becomes one.
evalINCRBY(d, a) ==
  LET g == Get(d, a[1])
      p == g.store[a[1]]
      v == Numeral(ValueText(g, p))
  IN  IF p = Nil THEN OkEach(PutNew(g, a[1], Num(a[2]), -1, FALSE), Integer(a[2]))
      ELSE IF ~HasText(g, p) THEN IF Type(g, p) = "int" THEN Panic(g) ELSE Err(g)
      ELSE IF ~IsInt(ValueText(g, p)) THEN Err(g)
      ELSE IF Overflows(v, a[2]) THEN Err(g)
      ELSE Ok([g EXCEPT !.obj[p].val = Num(v + a[2])], Integer(v + a[2]))
evalINCR(d, a) == Arity(Len(a) = 1, d, evalINCRBY(d, <<a[1], 1>>))
evalDECR(d, a) == Arity(Len(a) = 1, d, evalINCRBY(d, <<a[1], -1>>))
\* -by is taken of an int64: the least integer is its own negation.
evalDECRBY(d, a) ==
  Arity(Len(a) = 2, d, evalINCRBY(d, <<a[1], IF a[2] = -IntHalf THEN a[2] ELSE -a[2]>>))

\* Decimal texts, in halves: 3 is 1.5.  formatFloat, and floatValue.
FormatHalves(h) ==
  LET n == IF h < 0 THEN -h ELSE h
  IN  (IF h < 0 THEN <<45>> ELSE <<>>) \o Dec[n \div 2] \o (IF n % 2 = 1 THEN <<46, 53>> ELSE <<>>)
IsHalves(t) ==
  \/ IsNumeral(t)
  \/ Len(t) > 2 /\ SubSeq(t, Len(t) - 1, Len(t)) = <<46, 53>> /\ IsNumeral(SubSeq(t, 1, Len(t) - 2))
Halves(t) ==
  IF IsNumeral(t) THEN 2 * Numeral(t)
  ELSE 2 * Numeral(SubSeq(t, 1, Len(t) - 2)) + (IF t[1] = 45 THEN -1 ELSE 1)

\* a = <<key, increment in halves>>.  A new key gets the text under the type
\* the text would have; an existing one the type of the text with its ".0".
evalINCRBYFLOAT(d, a) ==
  LET g == Get(d, a[1])
      p == g.store[a[1]]
      t == IF Type(g, p) = "int" /\ Data(g, p)[1] = "num" THEN ValueText(g, p) ELSE Data(g, p)[2]
      sum == FormatHalves(Halves(t) + a[2])
      new == FormatHalves(a[2])
  IN  IF p = Nil
      THEN OkEach(PutNew(g, a[1], <<getRawStringOrInt(new)[1], <<"text", new>>>>, -1, FALSE),
                  Bulk(new))
      ELSE IF Type(g, p) \notin {"string", "int"} THEN Err(g)
      ELSE IF ~IsHalves(t) THEN Err(g)
      ELSE Ok([g EXCEPT !.obj[p].val = Text(sum)], Bulk(sum))

---------------------------------------------------------------------------
(* Expiry                                                                  *)

evalEXPIRE(d, a) ==
  OnKey(d, a[1], Integer(0), LAMBDA g, p :
    IF a[2] = 0 THEN Ok(DelExpiry(g, p), Integer(1))
    ELSE IF a[2] < 0 \/ a[2] >= MaxEx \div MsPerSec THEN Err(g)
    ELSE Ok(SetExpiry(g, p, a[2] * MsPerSec), Integer(1)))

evalEXPIREAT(d, a) ==
  IF a[2] < 0 \/ a[2] >= IntHalf \div MsPerSec THEN Err(d)
  ELSE OnKey(d, a[1], Integer(0), LAMBDA g, p :
         Ok(SetUnixTimeExpiry(g, p, a[2] * MsPerSec), Integer(1)))

evalPERSIST(d, a) ==
  Arity(Len(a) = 1, d, OnKey(d, a[1], Integer(0), LAMBDA g, p :
    IF g.expires[p] = NoExpiry THEN Ok(g, Integer(0)) ELSE Ok(DelExpiry(g, p), Integer(1))))

\* The common shape of TTL, PTTL and EXPIRETIME.
OnExpiry(d, a, F(_)) ==
  Arity(Len(a) = 1, d, OnKey(d, a[1], Integer(-2), LAMBDA g, p :
    IF g.expires[p] = NoExpiry THEN Ok(g, Integer(-1)) ELSE Ok(g, Integer(F(g.expires[p])))))
evalPTTL(d, a)       == OnExpiry(d, a, LAMBDA exp : exp - now)
evalTTL(d, a)        == OnExpiry(d, a, LAMBDA exp : IF exp <= now THEN -2 ELSE (exp - now) \div MsPerSec)
evalEXPIRETIME(d, a) == OnExpiry(d, a, LAMBDA exp : exp)

---------------------------------------------------------------------------
(* Whole keys                                                              *)

evalDEL(d, a) ==
  Arity(a # <<>>, d,
    LET gone == Present(d) \cap Range(a)
    IN  Ok(deleteKeys(d, gone), Integer(Cardinality(gone))))

evalTYPE(d, a) ==
  Arity(Len(a) = 1, d, OnKey(d, a[1], Bulk("none"), LAMBDA g, p :
    Ok(g, Bulk(IF Type(g, p) \in {"string", "list", "set", "hash", "zset"}
               THEN Type(g, p) ELSE "none"))))

evalTouch(d, a)  == Arity(Len(a) = 1, d, OnKey(d, a[1], Integer(0), LAMBDA g, p : Ok(g, Integer(1))))
evalDBSize(d, a) == LET e == DeleteExpiredKeys(d) IN Ok(e, Integer(e.numKeys))
evalKEYS(d, a)   == Arity(Len(a) = 1, d, Ok(d, <<"keys", Present(d)>>))
evalOBJECT(d, a) ==
  LET g == GetNoTouch(d, a[2])
      p == g.store[a[2]]
  IN  IF a[1] # "IDLETIME" THEN Err(d)
      ELSE IF p = Nil THEN Ok(g, NIL) ELSE Ok(g, Integer(now - g.obj[p].access))

\* DeepCopy: none of the structures has the method the interface asks for, so
\* only strings (and JSON) have a copy.
HasCopy(val) == val[1] = "string"

\* a = <<source, target, REPLACE given>>: evalGetObject on the source, then
\* evalCOPYObject with what it found.  The target is deleted first.
evalCOPYObject(d, a) ==
  LET s   == Get(d, a[1])
      val == s.obj[s.store[a[1]]].val
      exp == s.expires[s.store[a[1]]]
      g   == Get(s, a[2])
      del == Del(g, a[2])
      put == {IF exp # NoExpiry /\ exp > now THEN SetExpiry(e, e.store[a[2]], exp - now) ELSE e :
                e \in PutNew(del, a[2], val, -1, FALSE)}
  IN  IF s.store[a[1]] = Nil THEN Ok(s, Integer(0))
      ELSE IF g.store[a[2]] # Nil /\ ~a[3] THEN Err(g)
      ELSE IF ~HasCopy(val) THEN Ok(del, Integer(0))
      ELSE OkEach(put, Integer(1))
=============================================================================
