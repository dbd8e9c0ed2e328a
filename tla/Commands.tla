----------------------------- MODULE Commands -------------------------------
(* The commands of the running server (internal/cmd): each is an operator  *)
(* from a store and an argument list to the set of its outcomes, a store   *)
(* and a reply.  The IO threads execute them one at a time here and send   *)
(* the reply in a later step; the shard thread's cron task runs between.   *)
(*                                                                         *)
(* Arguments are a tuple; an option list is a record from option to value  *)
(* (the params map).  A text is a tuple: <<"digits", n>> is an integer in  *)
(* canonical form, <<"padded", n>> an integer written otherwise (007),     *)
(* <<"decimal", x>> and <<"fixed", x>> a number before and after "%f",     *)
(* <<"word", w>> anything else.  A command line is <<name, args, watch>>;  *)
(* its fingerprint is the line itself, a hash without collisions.          *)
EXTENDS Store, Lists, TLC

CONSTANTS Threads,           \* IO threads
          Menus,             \* sets of command lines a behaviour draws from
          MsPerSec,          \* 1000 in the code
          MaxEXDurationSec,  \* one year in the code
          MaxExpireAt,       \* EXPIREATMaxAbsTimestamp, in seconds
          IntHalf,           \* 2^63 in the code: int64 wraps at it
          MaxNow             \* bound on the clock

VARIABLES db,      \* the shard's Store
          out,     \* thread -> the reply it is about to send, or Idle
          nilFp,   \* Fingerprint64 of the package-level nil results
          menu     \* the command lines of this behaviour

vars == <<now, db, out, nilFp, menu>>

NoFp == <<>>
NotShared == "own"      \* in place of the name of a shared result
EmptyText == "empty"    \* the empty string
Idle == [cmd |-> NoFp, nil |-> NotShared]
NilResults == {"HGETResNilRes", "HGETALLResNilRes", "ZCARDResNilRes",
               "ZCOUNTRes0", "ZRANGEResNilRes", "ZRANKResNilRes"}

\* An outcome: the store, the status, the payload; when the reply is one of the
\* shared package-level results, its name; whether a .WATCH evaluator wrote its
\* fingerprint into it.
Reply(d, st, r, nil) == {[db |-> d, st |-> st, res |-> r, nil |-> nil, marked |-> FALSE]}
Ok(d, r)          == Reply(d, "ok", r, NotShared)
Shared(d, r, nil) == Reply(d, "ok", r, nil)
Err(d)            == Reply(d, "err", <<>>, NotShared)
ErrStatus(d)      == Reply(d, "status_err", <<>>, NotShared)
OkEach(D, r)      == UNION {Ok(d, r) : d \in D}

Wrap(n) == ((n + IntHalf) % (2 * IntHalf)) - IntHalf

\* The frame most commands share: s.Get, the nil reply, the type check.
OnType(d, k, type, Missing(_), Body(_, _)) ==
  LET g == Get(d, k)
      p == g.store[k]
  IN  IF p = Nil THEN Missing(g)
      ELSE IF Type(g, p) # type THEN Err(g)
      ELSE Body(g, p)

---------------------------------------------------------------------------
(* Strings and numbers                                                     *)

CreateObjectFromValue(text) ==
  CASE text[1] \in {"digits", "padded"} -> <<"int", text[2]>>
    [] text[1] \in {"decimal", "fixed"} -> <<"float", text[2]>>
    [] OTHER                            -> <<"string", text[2]>>

\* The text of a stored value; an object of another type has none.
getWireValueFromObj(d, p) ==
  IF p = Nil THEN <<"word", EmptyText>>
  ELSE CASE Type(d, p) = "int"     -> <<"digits", Data(d, p)>>
         [] Type(d, p) = "float"   -> <<"fixed", Data(d, p)>>
         [] Type(d, p) = "string"  -> <<"word", Data(d, p)>>
         [] OTHER                  -> <<"unknown">>

\* newGETRes and its siblings: a value without a text becomes a result with
\* an error status, which the thread sends like any other result.
ValueReply(d, text) == IF text = <<"unknown">> THEN ErrStatus(d) ELSE Ok(d, text)

Expiries == {"EX", "PX", "EXAT", "PXAT"}

incompatible(params) ==
  LET E == DOMAIN params \cap Expiries
  IN  \/ Cardinality(E) > 1
      \/ {"XX", "NX"} \subseteq DOMAIN params
      \/ DOMAIN params \cap {"KEEPTTL", "PERSIST"} # {} /\ E # {}

\* The duration in milliseconds an expiry option asks for, -1 for none and
\* -2 for a value out of range.
Duration(params) ==
  LET Within(n, max, unit) == IF 0 < n /\ n < max THEN n * unit ELSE -2
  IN  IF "EX" \in DOMAIN params THEN Within(params["EX"], MaxEXDurationSec, MsPerSec)
      ELSE IF "PX" \in DOMAIN params THEN Within(params["PX"], MaxEXDurationSec, 1)
      ELSE IF "EXAT" \in DOMAIN params
      THEN Within(params["EXAT"] - now \div MsPerSec, MaxEXDurationSec, MsPerSec)
      ELSE IF "PXAT" \in DOMAIN params
      THEN Within(params["PXAT"] - now, MaxEXDurationSec * MsPerSec, 1)
      ELSE -1

evalSET(d, a) ==
  LET params == a[3]
      ms     == Duration(params)
      g      == Get(d, a[1])
      exists == g.store[a[1]] # Nil
      known  == DOMAIN params \subseteq
                  Expiries \cup {"XX", "NX", "KEEPTTL", "DURABLE", "SYNC"}
                           \cup {"LT", "GT", "CH", "INCR"}   \* read and ignored
  IN  IF ~known \/ incompatible(params) \/ ms = -2 THEN Err(d)
      ELSE IF "XX" \in DOMAIN params /\ ~exists THEN Ok(g, <<>>)
      ELSE IF "NX" \in DOMAIN params /\ exists THEN Ok(g, <<>>)
      ELSE OkEach(PutNew(g, a[1], CreateObjectFromValue(a[2]), ms,
                         "KEEPTTL" \in DOMAIN params), <<>>)

evalGET(d, a) ==
  LET g == Get(d, a[1]) IN ValueReply(g, getWireValueFromObj(g, g.store[a[1]]))

evalGETDEL(d, a) ==
  LET g    == GetNoTouch(d, a[1])
      p    == g.store[a[1]]
      text == getWireValueFromObj(g, p)
  IN  IF p = Nil THEN Ok(g, text) ELSE ValueReply(GetDel(g, a[1]), text)

evalGETEX(d, a) ==
  LET params == a[2]
      ms     == Duration(params)
      g      == Get(d, a[1])
      p      == g.store[a[1]]
      timed  == IF "PERSIST" \in DOMAIN params THEN DelExpiry(g, p)
                ELSE IF ms # -1 THEN SetExpiry(g, p, ms) ELSE g
  IN  IF incompatible(params) \/ ms = -2 THEN Err(d)
      ELSE IF p = Nil THEN Ok(g, getWireValueFromObj(g, Nil))
      ELSE ValueReply(timed, getWireValueFromObj(g, p))

evalGETSET(d, a) ==
  LET g    == Get(d, a[1])
      text == getWireValueFromObj(g, g.store[a[1]])
  IN  UNION {ValueReply(e, text) :
               e \in PutNew(g, a[1], CreateObjectFromValue(a[2]), -1, FALSE)}

\* doIncr adds in place, so the expiry of the object stays.
doIncr(d, k, delta) ==
  LET g == Get(d, k)
      p == g.store[k]
      n == Wrap(Data(g, p) + delta)
  IN  IF p = Nil THEN OkEach(PutNew(g, k, <<"int", delta>>, -1, FALSE), <<delta>>)
      ELSE IF Type(g, p) # "int" THEN Err(g)
      ELSE Ok([g EXCEPT !.obj[p].val = <<"int", n>>], <<n>>)

evalINCR(d, a)   == doIncr(d, a[1], 1)
evalDECR(d, a)   == doIncr(d, a[1], -1)
evalINCRBY(d, a) == IF a[2][1] \notin {"digits", "padded"} THEN Err(d)
                    ELSE doIncr(d, a[1], a[2][2])
evalDECRBY(d, a) == IF a[2][1] \notin {"digits", "padded"} THEN Err(d)
                    ELSE doIncr(d, a[1], Wrap(-a[2][2]))

---------------------------------------------------------------------------
(* Keys and their expiry                                                   *)

\* executeDEL evaluates the whole argument list once per key; Del does not
\* look at the expiry, so a key past its expiry still counts.
evalDEL(d, a) ==
  LET gone == Range(a) \cap Present(d)
  IN  Ok(deleteKeys(d, gone), <<Cardinality(gone)>>)

\* GetNoTouch of each argument.
evalEXISTS(d, a) ==
  LET g == deleteKeys(d, {k \in Range(a) \cap Present(d) : hasExpired(d, d.store[k])})
  IN  Ok(g, <<Cardinality({i \in DOMAIN a : g.store[a[i]] # Nil})>>)

ExpiryReply(r) == IF r[2] = "err" THEN Err(r[1]) ELSE Ok(r[1], <<r[2]>>)

evalEXPIRE(d, a) ==
  IF a[2] < 0 THEN Err(d)
  ELSE ExpiryReply(EvaluateAndSetExpiry(d, a[1], now + a[2] * MsPerSec, a[3]))

evalEXPIREAT(d, a) ==
  IF a[2] < 0 \/ a[2] > MaxExpireAt THEN Err(d)
  ELSE ExpiryReply(EvaluateAndSetExpiry(d, a[1], a[2] * MsPerSec, a[3]))

\* The reply of TTL and EXPIRETIME: -2 without the key, -1 without an expiry.
ExpiryOf(d, k, Seconds(_)) ==
  LET g == Get(d, k)
      p == g.store[k]
  IN  IF p = Nil THEN Ok(g, <<-2>>)
      ELSE IF g.expires[p] = NoExpiry THEN Ok(g, <<-1>>)
      ELSE Ok(g, <<Seconds(g.expires[p])>>)

evalTTL(d, a)        == ExpiryOf(d, a[1], LAMBDA ms : (ms - now) \div MsPerSec)
evalEXPIRETIME(d, a) == ExpiryOf(d, a[1], LAMBDA ms : ms \div MsPerSec)

evalTYPE(d, a) ==
  LET g == Get(d, a[1])
      p == g.store[a[1]]
  IN  Ok(g, <<IF p = Nil THEN "none" ELSE Type(g, p)>>)

\* The argument is the set of keys the pattern matches.  Store.Keys lists
\* keys past their expiry too.
evalKEYS(d, a) == Ok(d, <<Present(d) \cap a[1]>>)

evalFLUSHDB(d, a) == Ok(Reset(d), <<>>)

evalECHO(d, a)      == Ok(d, a)
evalPING(d, a)      == Ok(d, <<"PONG">> \o a)
evalHANDSHAKE(d, a) == Ok(d, <<>>)
evalHELLOCmd(d, a)  == Ok(d, <<>>)
evalUNWATCH(d, a)   == Ok(d, <<>>)

---------------------------------------------------------------------------
(* Hashes: contents are a function from field to value                     *)

\* HSET writes the pairs into the map and wraps it in a new object without
\* expiry, which replaces the old one.
evalHSET(d, a) ==
  LET k     == a[1]
      kvs   == Tail(a)
      g     == Get(d, k)
      p     == g.store[k]
      m     == IF p = Nil THEN <<>> ELSE Data(g, p)
      pairs == [i \in 1 .. Len(kvs) \div 2 |-> kvs[2 * i - 1] :> kvs[2 * i]]
      new   == LeftFold(LAMBDA acc, f : f @@ acc, m, pairs)
  IN  IF p # Nil /\ Type(g, p) # "ssmap" THEN Err(g)
      ELSE IF Len(kvs) % 2 = 1 THEN Err(g)
      ELSE OkEach(PutNew(g, k, <<"ssmap", new>>, -1, FALSE),
                  <<Cardinality(DOMAIN new \ DOMAIN m)>>)

evalHGET(d, a) ==
  LET None(g)     == Shared(g, <<EmptyText>>, "HGETResNilRes")
      Field(g, p) == LET m == Data(g, p) IN
                     IF a[2] \in DOMAIN m THEN Ok(g, <<m[a[2]]>>) ELSE None(g)
  IN  OnType(d, a[1], "ssmap", None, Field)

evalHGETALL(d, a) ==
  LET None(g)   == Shared(g, <<>>, "HGETALLResNilRes")
      All(g, p) == LET m == Data(g, p) IN
                   IF m = <<>> THEN None(g) ELSE Ok(g, <<m>>)
  IN  OnType(d, a[1], "ssmap", None, All)

---------------------------------------------------------------------------
(* Sorted sets: contents are a function from member (a number: members are *)
(* compared) to score.  Order and ranks are those of the sortedset library *)

Ordered(z) == SortedBy(DOMAIN z, LAMBDA x, y :
                z[x] < z[y] \/ (z[x] = z[y] /\ x < y))
FindRank(z, m) == IF m \in DOMAIN z
                  THEN CHOOSE i \in 1 .. Cardinality(DOMAIN z) : Ordered(z)[i] = m
                  ELSE 0
GetByScoreRange(z, lo, hi) ==
  LET In(a, b) == SelectSeq(Ordered(z), LAMBDA m : a <= z[m] /\ z[m] <= b)
  IN  IF lo <= hi THEN In(lo, hi) ELSE Backwards(In(hi, lo))
GetByRankRange(z, start, stop) ==
  LET n      == Cardinality(DOMAIN z)
      Pos(i) == Max({1, IF i < 0 THEN n + i + 1 ELSE i})
      In(a, b) == SubSeq(Ordered(z), a, Min({b, n}))
  IN  IF Pos(start) <= Pos(stop) THEN In(Pos(start), Pos(stop))
      ELSE Backwards(In(Pos(stop), Pos(start)))

\* SortedSet.ZADD over one score and member; acc counts added and updated.
ZAddOne(acc, score, m, flags) ==
  LET z      == acc.z
      exists == m \in DOMAIN z
      skip   == \/ "NX" \in flags /\ exists
                \/ "XX" \in flags /\ ~exists
                \/ "GT" \in flags /\ exists /\ score <= z[m]
                \/ "LT" \in flags /\ exists /\ score >= z[m]
  IN  IF skip THEN acc
      ELSE [z |-> (m :> score) @@ z,
            added   |-> acc.added + (IF exists THEN 0 ELSE 1),
            updated |-> acc.updated + (IF exists /\ score # z[m] THEN 1 ELSE 0)]

\* SortedSet.ZADD: the new contents, the count, and whether it succeeds.
ZADD(z, scores, members, flags) ==
  LET bad   == \/ {"XX", "NX"} \subseteq flags
               \/ Cardinality(flags \cap {"GT", "LT", "NX"}) > 1
               \/ "INCR" \in flags /\ Len(members) > 1
      incr  == Wrap(scores[1] + (IF members[1] \in DOMAIN z THEN z[members[1]] ELSE 0))
      all   == LeftFold(LAMBDA acc, i : ZAddOne(acc, scores[i], members[i], flags),
                        [z |-> z, added |-> 0, updated |-> 0],
                        [i \in 1 .. Len(scores) |-> i])
  IN  CASE bad -> <<z, 0, FALSE>>
        [] ~bad /\ "INCR" \in flags /\ members # <<>> ->
             <<(members[1] :> incr) @@ z, incr, TRUE>>
        [] OTHER -> <<all.z, all.added + (IF "CH" \in flags THEN all.updated ELSE 0),
                       TRUE>>

\* evalZADD puts a new empty set into the store before the options are
\* validated.
evalZADD(d, a) ==
  LET k       == a[1]
      n       == Len(a[3]) \div 2
      texts   == [i \in 1 .. n |-> a[3][2 * i - 1]]
      members == [i \in 1 .. n |-> a[3][2 * i]]
      scores  == [i \in 1 .. n |-> texts[i][2]]
      Add(g, p) == LET r == ZADD(Data(g, p), scores, members, a[2])
                       e == [g EXCEPT !.obj[p].val = <<"sortedset", r[1]>>]
                   IN  IF r[3] THEN Ok(e, <<r[2]>>) ELSE Err(e)
      New(g)    == UNION {Add(e, e.store[k]) :
                            e \in PutNew(g, k, <<"sortedset", <<>>>>, -1, FALSE)}
  IN  IF Len(a[3]) % 2 = 1 \/ \E i \in 1 .. n : texts[i][1] \notin {"digits", "padded"}
      THEN Err(d)
      ELSE OnType(d, k, "sortedset", New, Add)

\* Reading commands on a sorted set, with their package-level nil result.
ZRead(d, k, nil, Read(_)) ==
  OnType(d, k, "sortedset", LAMBDA g : Shared(g, <<>>, nil),
         LAMBDA g, p : Ok(g, Read(Data(g, p))))

evalZCARD(d, a) == ZRead(d, a[1], "ZCARDResNilRes", LAMBDA z : <<Cardinality(DOMAIN z)>>)

evalZCOUNT(d, a) ==
  IF a[2] > a[3] THEN Shared(d, <<0>>, "ZCOUNTRes0")
  ELSE ZRead(d, a[1], "ZCOUNTRes0", LAMBDA z : <<Len(GetByScoreRange(z, a[2], a[3]))>>)

\* SortedSet.ZRANGE ranks the first element and counts up from there.
ZRANGE(z, start, stop, byScore) ==
  LET nodes == IF byScore THEN GetByScoreRange(z, start, stop)
               ELSE GetByRankRange(z, start, stop)
      rank  == IF nodes = <<>> THEN 0 ELSE FindRank(z, nodes[1])
  IN  [i \in 1 .. Len(nodes) |-> <<nodes[i], z[nodes[i]], rank + i - 1>>]

evalZRANGE(d, a) ==
  ZRead(d, a[1], "ZRANGEResNilRes", LAMBDA z : ZRANGE(z, a[2], a[3], a[4] = "BYSCORE"))

evalZRANK(d, a) ==
  ZRead(d, a[1], "ZRANKResNilRes", LAMBDA z :
          <<a[2], FindRank(z, a[2]), IF a[2] \in DOMAIN z THEN z[a[2]] ELSE 0>>)

\* Taking members out; the set stays in the store when it becomes empty.
Without(d, p, gone) ==
  [d EXCEPT !.obj[p].val = <<"sortedset", Restrict(@[2], DOMAIN @[2] \ gone)>>]

evalZREM(d, a) ==
  LET Rem(g, p) == LET gone == Range(Tail(a)) \cap DOMAIN Data(g, p)
                   IN  Ok(Without(g, p, gone), <<Cardinality(gone)>>)
  IN  OnType(d, a[1], "sortedset", LAMBDA g : Ok(g, <<0>>), Rem)

\* ZPOPMIN and ZPOPMAX; the ranks of popped elements count up, or down from
\* the size before the call.
Pop(d, k, count, Order(_), Rank(_, _)) ==
  LET Some(g, p) ==
        LET z   == Data(g, p)
            seq == Order(Ordered(z))
            n   == Min({count, Len(seq)})
        IN  Ok(Without(g, p, {seq[i] : i \in 1 .. n}),
               [i \in 1 .. n |-> <<seq[i], z[seq[i]], Rank(Len(seq), i)>>])
  IN  IF count <= 0 THEN Err(d)
      ELSE OnType(d, k, "sortedset", LAMBDA g : Ok(g, <<>>), Some)

evalZPOPMIN(d, a) == Pop(d, a[1], a[2], LAMBDA s : s, LAMBDA n, i : i)
evalZPOPMAX(d, a) == Pop(d, a[1], a[2], Backwards, LAMBDA n, i : n - i + 1)

---------------------------------------------------------------------------
(* The .WATCH evaluators write the fingerprint into the result they got,   *)
(* which may be one of the package-level ones all threads share.           *)

Marked(O) == {IF o.st = "err" THEN o ELSE [o EXCEPT !.marked = TRUE] : o \in O}

evalGETWATCH(d, a)     == Marked(evalGET(d, a))
evalHGETWATCH(d, a)    == Marked(evalHGET(d, a))
evalHGETALLWATCH(d, a) == Marked(evalHGETALL(d, a))
evalZCARDWATCH(d, a)   == Marked(evalZCARD(d, a))
evalZCOUNTWATCH(d, a)  == Marked(evalZCOUNT(d, a))
evalZRANGEWATCH(d, a)  == Marked(evalZRANGE(d, a))
evalZRANKWATCH(d, a)   == Marked(evalZRANK(d, a))

---------------------------------------------------------------------------
(* Dispatch, the IO threads and the cron task                              *)

\* CommandRegistry and the argument counts the execute functions check.
Registry ==
  [GET |-> {1}, SET |-> {3}, GETDEL |-> {1}, GETEX |-> {2}, GETSET |-> {2},
   INCR |-> {1}, DECR |-> {1}, INCRBY |-> {2}, DECRBY |-> {2}, DEL |-> 1 .. 9,
   EXISTS |-> 1 .. 9, EXPIRE |-> {3}, EXPIREAT |-> {3}, TTL |-> {1},
   EXPIRETIME |-> {1}, TYPE |-> {1}, KEYS |-> {1}, FLUSHDB |-> {0},
   ECHO |-> {1}, PING |-> {0, 1}, HANDSHAKE |-> {2}, HELLO |-> {0, 1},
   UNWATCH |-> {1}, HSET |-> 3 .. 9, HGET |-> {2}, HGETALL |-> {1},
   ZADD |-> {3}, ZCARD |-> {1}, ZCOUNT |-> {3}, ZRANGE |-> {4}, ZRANK |-> {2},
   ZREM |-> 2 .. 9, ZPOPMIN |-> {2}, ZPOPMAX |-> {2}]

\* The commands registered under a second name, with the suffix .WATCH.
Watchable == {"GET", "HGET", "HGETALL", "ZCARD", "ZCOUNT", "ZRANGE", "ZRANK"}

Eval(d, name, a) ==
  CASE name = "GET" -> evalGET(d, a)          [] name = "SET" -> evalSET(d, a)
    [] name = "GETDEL" -> evalGETDEL(d, a)    [] name = "GETEX" -> evalGETEX(d, a)
    [] name = "GETSET" -> evalGETSET(d, a)    [] name = "INCR" -> evalINCR(d, a)
    [] name = "DECR" -> evalDECR(d, a)        [] name = "INCRBY" -> evalINCRBY(d, a)
    [] name = "DECRBY" -> evalDECRBY(d, a)    [] name = "DEL" -> evalDEL(d, a)
    [] name = "EXISTS" -> evalEXISTS(d, a)    [] name = "EXPIRE" -> evalEXPIRE(d, a)
    [] name = "EXPIREAT" -> evalEXPIREAT(d, a) [] name = "TTL" -> evalTTL(d, a)
    [] name = "EXPIRETIME" -> evalEXPIRETIME(d, a)
    [] name = "TYPE" -> evalTYPE(d, a)        [] name = "KEYS" -> evalKEYS(d, a)
    [] name = "FLUSHDB" -> evalFLUSHDB(d, a)  [] name = "ECHO" -> evalECHO(d, a)
    [] name = "PING" -> evalPING(d, a)        [] name = "HANDSHAKE" -> evalHANDSHAKE(d, a)
    [] name = "HELLO" -> evalHELLOCmd(d, a)   [] name = "UNWATCH" -> evalUNWATCH(d, a)
    [] name = "HSET" -> evalHSET(d, a)        [] name = "HGET" -> evalHGET(d, a)
    [] name = "HGETALL" -> evalHGETALL(d, a)  [] name = "ZADD" -> evalZADD(d, a)
    [] name = "ZCARD" -> evalZCARD(d, a)      [] name = "ZCOUNT" -> evalZCOUNT(d, a)
    [] name = "ZRANGE" -> evalZRANGE(d, a)    [] name = "ZRANK" -> evalZRANK(d, a)
    [] name = "ZREM" -> evalZREM(d, a)        [] name = "ZPOPMIN" -> evalZPOPMIN(d, a)
    [] name = "ZPOPMAX" -> evalZPOPMAX(d, a)

EvalWatch(d, name, a) ==
  CASE name = "GET" -> evalGETWATCH(d, a)       [] name = "HGET" -> evalHGETWATCH(d, a)
    [] name = "HGETALL" -> evalHGETALLWATCH(d, a)
    [] name = "ZCARD" -> evalZCARDWATCH(d, a)   [] name = "ZCOUNT" -> evalZCOUNTWATCH(d, a)
    [] name = "ZRANGE" -> evalZRANGEWATCH(d, a) [] name = "ZRANK" -> evalZRANKWATCH(d, a)

\* Cmd.Execute: an unknown name or a wrong argument count changes nothing.
Run(d, c) ==
  IF \/ c[1] \notin DOMAIN Registry \/ Len(c[2]) \notin Registry[c[1]]
     \/ c[3] /\ c[1] \notin Watchable
  THEN Err(d)
  ELSE IF c[3] THEN EvalWatch(d, c[1], c[2]) ELSE Eval(d, c[1], c[2])

\* The shard is chosen by the key, so a command line reaches it with keys of
\* this shard; the values of its options and durations are integers.
Keyless == {"KEYS", "FLUSHDB", "ECHO", "PING", "HANDSHAKE", "HELLO", "UNWATCH"}
WellFormed(c) ==
  LET a == c[2]
      Options(params) == \A o \in DOMAIN params : params[o] \in Int
  IN  c[1] \in DOMAIN Registry /\ Len(a) \in Registry[c[1]] =>
        /\ c[1] \notin Keyless => a[1] \in Keys
        /\ c[1] \in {"DEL", "EXISTS"} => Range(a) \subseteq Keys
        /\ c[1] \in {"EXPIRE", "EXPIREAT"} => a[2] \in Int
        /\ c[1] = "SET" => Options(a[3])
        /\ c[1] = "GETEX" => Options(a[2])

ASSUME MenusAssumption == \A m \in Menus : \A c \in m : WellFormed(c)
ASSUME ClockAssumption == MaxNow \in Nat /\ MsPerSec \in Nat \ {0}

\* A reply nobody else can reach is sent with the command; a shared result
\* is filled in now and read by a later Send.
Execute(t) ==
  /\ out[t] = Idle
  /\ \E c \in menu : \E o \in Run(db, c) :
       /\ db' = Collect(o.db)
       /\ out' = IF o.nil = NotShared THEN out
                 ELSE [out EXCEPT ![t] = [cmd |-> c, nil |-> o.nil]]
       /\ nilFp' = IF o.marked /\ o.nil # NotShared THEN [nilFp EXCEPT ![o.nil] = c]
                   ELSE nilFp
  /\ UNCHANGED <<now, menu>>

Send(t) ==
  /\ out[t] # Idle
  /\ out' = [out EXCEPT ![t] = Idle]
  /\ UNCHANGED <<now, db, nilFp, menu>>

\* runCronTasks
Cron ==
  /\ db' = Collect(DeleteExpiredKeys(db))
  /\ UNCHANGED <<now, out, nilFp, menu>>

Tick ==
  /\ now < MaxNow
  /\ now' = now + 1
  /\ UNCHANGED <<db, out, nilFp, menu>>

Init ==
  /\ now = 0
  /\ db = NewStore
  /\ out = [t \in Threads |-> Idle]
  /\ nilFp = [n \in NilResults |-> NoFp]
  /\ menu \in Menus

Next == \/ \E t \in Threads : Execute(t) \/ Send(t)
        \/ Cron
        \/ Tick

\* The shard thread's ticker keeps running the cron task.
Spec == Init /\ [][Next]_vars

---------------------------------------------------------------------------
(* Properties                                                              *)

Expired(d, k) == d.store[k] # Nil /\ hasExpired(d, d.store[k])

\* What a client can see: value and expiry of every key that is not expired.
View(d) == [k \in Keys |-> IF d.store[k] = Nil \/ Expired(d, k) THEN <<"none">>
                           ELSE <<d.obj[d.store[k]].val, d.expires[d.store[k]]>>]

\* Type correctness of the store and of the pending replies.
TypeOK ==
  /\ now \in 0 .. MaxNow
  /\ DOMAIN db.store = Keys /\ \A k \in Keys : db.store[k] \in Ptrs \cup {Nil}
  /\ \A p \in Ptrs : /\ db.expires[p] \in Nat \cup {NoExpiry}
                     /\ (Type(db, p) = "free") = (p \notin Stored(db) \cup Timed(db))
  /\ db.numKeys \in Int
  /\ \A t \in Threads : out[t].nil \in NilResults \cup {NotShared}

\* The key counter that decides on eviction is the number of keys in the
\* table, whatever mixture of puts, deletes, lazy and active expiry,
\* evictions and flushes has run (Store.numKeys).
Counted == db.numKeys = Cardinality(Present(db))

\* Every expiry entry belongs to an object some key holds, and no two keys
\* hold the same object: overwritten, deleted, expired and evicted objects
\* leave nothing behind in the pointer-keyed expires table.
ExpiryOwned ==
  /\ Timed(db) \subseteq Stored(db)
  /\ \A j, k \in Present(db) : db.store[j] = db.store[k] => j = k

\* Whether an expired key has been collected cannot be seen: while nothing
\* must be evicted, every command but DEL and KEYS replies the same and
\* leaves the same keys visible as if the cron task had run just before it.
ExpiryInvisible ==
  LET Seen(d, c) == {<<o.st, o.res, View(o.db)>> : o \in Run(d, c)}
  IN  db.numKeys < MaxKeys =>
        \A c \in menu : c[1] \notin {"DEL", "KEYS"} =>
          Seen(db, c) = Seen(DeleteExpiredKeys(db), c)

\* The shard never holds more keys than its limit (ShouldEvict, putHelper).
WithinCapacity == Cardinality(Present(db)) <= MaxKeys

\* The three tables of a shard (objects, expiries, counter) agree, and the
\* shard stays within its limit.
TablesAgree == TypeOK /\ Counted /\ ExpiryOwned /\ WithinCapacity

\* The keys a command line names; FLUSHDB names them all.
Named(c) == IF c[1] = "FLUSHDB" THEN Keys
            ELSE IF c[1] \in {"DEL", "EXISTS"} THEN Range(c[2])
            ELSE IF c[2] = <<>> THEN {} ELSE {c[2][1]}

\* A live key a command does not name disappears only as an eviction victim:
\* the table was full, and no key that stays was used less recently.
OnlyVictimsVanish ==
  \A c \in menu : \A o \in Run(db, c) :
    LET gone == {k \in Keys \ Named(c) : View(db)[k] # <<"none">> /\ o.db.store[k] = Nil}
    IN  gone # {} =>
          /\ db.numKeys >= MaxKeys
          /\ \A k \in gone, j \in Present(db) \cap Present(o.db) :
               db.obj[db.store[k]].access <= db.obj[db.store[j]].access

\* The failures that come after the change: ZADD stores a new empty set before
\* it validates its options, and GETDEL, GETEX and GETSET remove, time and
\* replace a hash or a sorted set before newGETRes finds that it has no text.
ActsAnyway(name, st) ==
  \/ name = "ZADD"
  \/ st = "status_err" /\ name \in {"GETDEL", "GETEX", "GETSET"}

\* A command that fails, with an error or with a result whose status is one,
\* changes nothing a client can see, but for the failures ActsAnyway names.
FailsCleanly ==
  \A c \in menu : \A o \in Run(db, c) :
    o.st # "ok" /\ ~ActsAnyway(c[1], o.st) => View(o.db) = View(db)

\* Only the commands about expiry, and those that store a new object, move
\* the expiry of a live key: counting, adding to or taking from a sorted set
\* in place, and every read, keep it.
KeepsExpiry ==
  \A c \in menu : \A o \in Run(db, c) :
    c[1] \notin {"SET", "GETSET", "GETEX", "EXPIRE", "EXPIREAT", "HSET"} =>
      \A k \in Keys : View(db)[k] # <<"none">> /\ o.db.store[k] # Nil =>
        o.db.expires[o.db.store[k]] = db.expires[db.store[k]]

\* A command has no effect beyond its own: none on other keys but eviction,
\* none when it fails but for the failures ActsAnyway names, none on expiries
\* unless it is about them.
CommandsConfined == OnlyVictimsVanish /\ FailsCleanly /\ KeepsExpiry

\* HGET.WATCH: "The client invoking the command will receive the output of
\* the HGET command [...] whenever the value against the key and field is
\* updated."  The IO thread notifies watchers after these commands only.
shouldNotify(c) == ~c[3] /\ c[1] \in {"SET", "GETSET", "DEL", "RENAME"}

\* A command that changes the reply of a watched query notifies its watchers.
UpdatesNotified ==
  \A c, w \in menu : \A o \in Run(db, c) :
    w[3] /\ {r.res : r \in Run(db, w)} # {r.res : r \in Run(o.db, w)} => shouldNotify(c)

\* The reply to a .WATCH command carries that command's fingerprint, and the
\* reply to any other command none.
OwnFingerprint ==
  \A t \in Threads : out[t] # Idle =>
    nilFp[out[t].nil] = IF out[t].cmd[3] THEN out[t].cmd ELSE NoFp
=============================================================================
