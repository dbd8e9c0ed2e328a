----------------------------- MODULE EvalEngine -----------------------------
(* The evaluation engine as a whole: the commands of a menu run one after  *)
(* the other on one store (execute.go) while time passes.  A client keeps  *)
(* the last payload DUMP gave it and hands that to RESTORE.  A panic ends  *)
(* the process and with it the behaviour; the properties look at every     *)
(* outcome of every command of the menu in every store that is reached.    *)
EXTENDS EvalCollections, EvalBits, EvalSketch

CONSTANTS Menus,     \* records: cmds, the commands; until, the last millisecond
          MaxText,   \* bound on the bytes of a text
          MaxSize,   \* bound on the elements of a collection
          MaxCount   \* bound on the total count of a sketch

VARIABLES db,        \* the store
          dump,      \* the payload the client holds, <<>> for none
          menu       \* the commands of this behaviour

vars == <<now, db, dump, menu>>

\* DiceCmds: a command is <<name, arguments>>.
Strings(d, name, a) ==
  CASE name = "GET" -> evalGET(d, a)            [] name = "SET" -> evalSET(d, a)
    [] name = "GETDEL" -> evalGETDEL(d, a)      [] name = "GETEX" -> evalGETEX(d, a)
    [] name = "SETEX" -> evalSETEX(d, a)        [] name = "APPEND" -> evalAPPEND(d, a)
    [] name = "GETRANGE" -> evalGETRANGE(d, a)  [] name = "INCRBY" -> evalINCRBY(d, a)
    [] name = "INCR" -> evalINCR(d, a)          [] name = "DECR" -> evalDECR(d, a)
    [] name = "DECRBY" -> evalDECRBY(d, a)      [] name = "INCRBYFLOAT" -> evalINCRBYFLOAT(d, a)
    [] name = "EXPIRE" -> evalEXPIRE(d, a)      [] name = "EXPIREAT" -> evalEXPIREAT(d, a)
    [] name = "PERSIST" -> evalPERSIST(d, a)    [] name = "TTL" -> evalTTL(d, a)
    [] name = "PTTL" -> evalPTTL(d, a)          [] name = "EXPIRETIME" -> evalEXPIRETIME(d, a)
    [] name = "DEL" -> evalDEL(d, a)            [] name = "TYPE" -> evalTYPE(d, a)
    [] name = "TOUCH" -> evalTouch(d, a)        [] name = "DBSIZE" -> evalDBSize(d, a)
    [] name = "KEYS" -> evalKEYS(d, a)          [] name = "OBJECT" -> evalOBJECT(d, a)
    [] name = "COPY" -> evalCOPYObject(d, a)    [] name = "DUMP" -> evalDUMP(d, a)
    [] name = "RESTORE" -> evalRestore(d, Append(a, dump))

Collections(d, name, a) ==
  CASE name = "HSET" -> evalHSET(d, a)          [] name = "HMSET" -> evalHMSET(d, a)
    [] name = "HGET" -> evalHGET(d, a)          [] name = "HMGET" -> evalHMGET(d, a)
    [] name = "HSETNX" -> evalHSETNX(d, a)      [] name = "HEXISTS" -> evalHEXISTS(d, a)
    [] name = "HKEYS" -> evalHKEYS(d, a)        [] name = "HVALS" -> evalHVALS(d, a)
    [] name = "HGETALL" -> evalHGETALL(d, a)    [] name = "HLEN" -> evalHLEN(d, a)
    [] name = "HSTRLEN" -> evalHSTRLEN(d, a)    [] name = "HSCAN" -> evalHSCAN(d, a)
    [] name = "HRANDFIELD" -> evalHRANDFIELD(d, a) [] name = "HINCRBY" -> evalHINCRBY(d, a)
    [] name = "HINCRBYFLOAT" -> evalHINCRBYFLOAT(d, a) [] name = "HDEL" -> evalHDEL(d, a)
    [] name = "SADD" -> evalSADD(d, a)          [] name = "SREM" -> evalSREM(d, a)
    [] name = "SCARD" -> evalSCARD(d, a)        [] name = "SMEMBERS" -> evalSMEMBERS(d, a)
    [] name = "LPUSH" -> evalLPUSH(d, a)        [] name = "RPUSH" -> evalRPUSH(d, a)
    [] name = "LPOP" -> evalLPOP(d, a)          [] name = "RPOP" -> evalRPOP(d, a)
    [] name = "LLEN" -> evalLLEN(d, a)          [] name = "LRANGE" -> evalLRANGE(d, a)
    [] name = "LINSERT" -> evalLINSERT(d, a)    [] name = "ZADD" -> evalZADD(d, a)
    [] name = "ZCOUNT" -> evalZCOUNT(d, a)      [] name = "ZCARD" -> evalZCARD(d, a)
    [] name = "ZRANGE" -> evalZRANGE(d, a)      [] name = "ZRANK" -> evalZRANK(d, a)
    [] name = "ZREM" -> evalZREM(d, a)          [] name = "ZPOPMIN" -> evalZPOPMIN(d, a)
    [] name = "ZPOPMAX" -> evalZPOPMAX(d, a)    [] name = "GEOADD" -> evalGEOADD(d, a)
    [] name = "GEOPOS" -> evalGEOPOS(d, a)      [] name = "GEOHASH" -> evalGEOHASH(d, a)
    [] name = "GEODIST" -> evalGEODIST(d, a)

BitsAndSketches(d, name, a) ==
  CASE name = "SETBIT" -> evalSETBIT(d, a)      [] name = "GETBIT" -> evalGETBIT(d, a)
    [] name = "BITCOUNT" -> evalBITCOUNT(d, a)  [] name = "BITPOS" -> evalBITPOS(d, a)
    [] name = "BITFIELD" -> evalBITFIELD(d, a)  [] name = "CMS.INIT" -> evalCMSINIT(d, a)
    [] name = "CMS.INCRBY" -> evalCMSIncrBy(d, a) [] name = "CMS.QUERY" -> evalCMSQuery(d, a)
    [] name = "CMS.INFO" -> evalCMSINFO(d, a)   [] name = "CMS.MERGE" -> evalCMSMerge(d, a)
    [] name = "BF.RESERVE" -> evalBFRESERVE(d, a) [] name = "BF.ADD" -> evalBFADD(d, a)
    [] name = "BF.EXISTS" -> evalBFEXISTS(d, a) [] name = "BF.INFO" -> evalBFINFO(d, a)
    [] name = "PFADD" -> evalPFADD(d, a)        [] name = "PFCOUNT" -> evalPFCOUNT(d, a)
    [] name = "PFMERGE" -> evalPFMERGE(d, a)

StringNames ==
  {"GET", "SET", "GETDEL", "GETEX", "SETEX", "APPEND", "GETRANGE", "INCRBY", "INCR", "DECR",
   "DECRBY", "INCRBYFLOAT", "EXPIRE", "EXPIREAT", "PERSIST", "TTL", "PTTL", "EXPIRETIME",
   "DEL", "TYPE", "TOUCH", "DBSIZE", "KEYS", "OBJECT", "COPY", "DUMP", "RESTORE"}
BitAndSketchNames ==
  {"SETBIT", "GETBIT", "BITCOUNT", "BITPOS", "BITFIELD", "CMS.INIT", "CMS.INCRBY",
   "CMS.QUERY", "CMS.INFO", "CMS.MERGE", "BF.RESERVE", "BF.ADD", "BF.EXISTS", "BF.INFO",
   "PFADD", "PFCOUNT", "PFMERGE"}

ExecuteCommand(d, c) ==
  IF c[1] \in StringNames THEN Strings(d, c[1], c[2])
  ELSE IF c[1] \in BitAndSketchNames THEN BitsAndSketches(d, c[1], c[2])
  ELSE Collections(d, c[1], c[2])

---------------------------------------------------------------------------
(* Behaviours                                                              *)

\* A value within the bounds.
Small(val) ==
  CASE val[1] = "string"          -> Len(val[2][2]) <= MaxText
    [] val[1] = "bytes"           -> Len(val[2]) <= MaxText
    [] val[1] = "list"            -> Len(val[2]) <= MaxSize
    [] val[1] \in {"set", "hll"}  -> Cardinality(val[2]) <= MaxSize
    [] val[1] = "zset"            -> \A x \in val[2].tree : x[1] \in -MaxCount .. MaxCount
    [] val[1] = "hash"            -> \A f \in DOMAIN val[2] : Len(val[2][f]) <= MaxText
    [] val[1] = "cms"             -> val[2].count <= MaxCount
    [] OTHER                      -> TRUE

\* At most one expiry entry of RESTORE is left behind, and RESTORE needs a
\* payload.
Allowed(c) == c[1] = "RESTORE" => dump # <<>> /\ Timed(db) \subseteq Stored(db)

\* The pointers of the objects that are left, renamed: the object of the
\* i-th key is at i, the one RESTORE left behind after the last key.
KeySeq == SetToSeq(Keys)
Compacted(d) ==
  LET left == Timed(d) \ Stored(d)
      Of(p) == IF p \in DOMAIN KeySeq /\ d.store[KeySeq[p]] # Nil THEN d.store[KeySeq[p]]
               ELSE IF p = Len(KeySeq) + 1 /\ left # {} THEN Min(left) ELSE Nil
  IN  [d EXCEPT !.store   = [k \in Keys |->
                               IF @[k] = Nil THEN Nil ELSE CHOOSE i \in Ptrs : KeySeq[i] = k],
                !.obj     = [p \in Ptrs |-> IF Of(p) = Nil THEN Blank ELSE @[Of(p)]],
                !.expires = [p \in Ptrs |-> IF Of(p) = Nil THEN NoExpiry ELSE @[Of(p)]]]

Execute ==
  /\ \E c \in menu.cmds : Allowed(c) /\ \E o \in ExecuteCommand(db, c) :
       /\ o.st # "panic"
       /\ \A k \in Present(o.db) : Small(o.db.obj[o.db.store[k]].val)
       /\ db' = Compacted(o.db)
       /\ dump' = IF c[1] = "DUMP" /\ o.st = "ok" /\ o.res # NIL THEN o.res[2] ELSE dump
  /\ UNCHANGED <<now, menu>>

Tick ==
  /\ now < menu.until
  /\ now' = now + 1
  /\ UNCHANGED <<db, dump, menu>>

Init ==
  /\ now = 0
  /\ db = NewStore
  /\ dump = <<>>
  /\ menu \in Menus

Next == Execute \/ Tick

Spec == Init /\ [][Next]_vars

---------------------------------------------------------------------------
(* Properties                                                              *)

Gone(d, k) == d.store[k] = Nil \/ hasExpired(d, d.store[k])
Value(d, k) == d.obj[d.store[k]].val
\* What a client can see: value and expiry of every key that is not expired.
View(d) == [k \in Keys |-> IF Gone(d, k) THEN <<"none">>
                           ELSE <<Value(d, k), d.expires[d.store[k]]>>]
Outcomes(c) == IF Allowed(c) THEN ExecuteCommand(db, c) ELSE {}
Answers(outcomes) == {o.res : o \in outcomes}
CommandsNamed(names) == {c \in menu.cmds : c[1] \in names}

\* Type correctness of the store.
TypeOK ==
  /\ now \in 0 .. menu.until
  /\ \A k \in Keys : db.store[k] \in Ptrs \cup {Nil}
  /\ \A p \in Ptrs :
       /\ db.expires[p] \in Nat \cup {NoExpiry}
       /\ Type(db, p) \in {"free", "string", "int", "bytes", "hll", "set", "list", "zset",
                           "hash", "cms", "bf"}

Readers ==
  {"GET", "GETRANGE", "TTL", "PTTL", "EXPIRETIME", "TYPE", "TOUCH", "DBSIZE", "KEYS", "OBJECT",
   "DUMP", "HGET", "HMGET", "HEXISTS", "HKEYS", "HVALS", "HGETALL", "HLEN", "HSTRLEN", "HSCAN",
   "HRANDFIELD", "SCARD", "SMEMBERS", "LLEN", "LRANGE", "ZCOUNT", "ZCARD", "ZRANGE", "ZRANK",
   "GEOPOS", "GEOHASH", "GEODIST", "GETBIT", "BITCOUNT", "BITPOS", "CMS.QUERY", "CMS.INFO",
   "BF.EXISTS", "BF.INFO", "PFCOUNT"}
\* The evaluators that have changed the store when they find the error.
Partial == {"HSET", "HMSET", "ZADD", "GEOADD", "PFMERGE", "GETDEL", "BF.ADD"}

\* A command that only reads, and one that is refused, leaves every value and
\* every expiry a client can see as it was.  BITFIELD_RO is not among the
\* readers: it creates the key.
QuietCommandsKeep(c, o) ==
  c[1] \in Readers \/ (o.st = "err" /\ c[1] \notin Partial) => View(o.db) = View(db)

\* Writing to a value in place, and APPEND and SETBIT, which store a new
\* object, keep the expiry of a live key.  The commands listed set or clear
\* it, or store the structure again as an object without one.
KeepsExpiry(c, o) ==
  c[1] \notin {"SET", "SETEX", "GETEX", "EXPIRE", "EXPIREAT", "PERSIST", "COPY", "RESTORE",
               "HSET", "HMSET", "HSETNX", "HINCRBY", "HINCRBYFLOAT", "HDEL", "LPUSH",
               "RPUSH", "ZADD", "GEOADD", "PFADD", "PFMERGE"} =>
    \A k \in Keys : ~Gone(db, k) /\ o.db.store[k] # Nil =>
      o.db.expires[o.db.store[k]] = db.expires[db.store[k]]

\* No command but RESTORE without a ttl leaves an expiry entry behind for an
\* object that no key holds, and the key counter stays exact.
NothingAbandoned(c, o) ==
  /\ c[1] # "RESTORE" => Timed(o.db) \ Stored(o.db) \subseteq Timed(db) \ Stored(db)
  /\ o.db.numKeys = Cardinality(Present(o.db))

\* A command has no effect beyond its own: on what it only reads or refuses,
\* on expiries, or on the tables of the store.
EffectsConfined ==
  /\ TypeOK
  /\ \A c \in menu.cmds : \A o \in Outcomes(c) :
       QuietCommandsKeep(c, o) /\ KeepsExpiry(c, o) /\ NothingAbandoned(c, o)

\* GET gives back the text SET was given, whether it was stored as a text or
\* as an integer.  An integer with a plus sign, or with a zero after a minus
\* sign, is written in its usual form instead.
SetReadsBack(c, o) ==
  c[1] = "SET" /\ o.st = "ok" =>
    LET t == c[2][2]
        unusual == IsInt(t) /\ (t[1] = 43 \/ (t[1] = 45 /\ t[2] = 48))
    IN  Answers(evalGET(o.db, <<c[2][1]>>)) =
          {Bulk(IF unusual THEN FormatInt(Numeral(t)) ELSE t)}

\* Two adjacent ranges of a text make up the text, wherever it is cut, also
\* when a position counts from the right or lies outside.
RangesJoin ==
  \A k \in Keys : ~Gone(db, k) /\ HasText(db, db.store[k]) =>
    LET t == ValueText(db, db.store[k])
        R(i, j) == {r[2] : r \in Answers(evalGETRANGE(db, <<k, i, j>>))}
    IN  \A i \in 1 .. Len(t) :
          /\ {x \o y : x \in R(0, i - 1), y \in R(i, Len(t) + 1)} = {t}
          /\ R(-i, -1) = R(Len(t) - i, Len(t) - 1)

\* What INCRBY and DECRBY answer, and then GET, is the integer before plus or
\* minus the amount: a counter at the end of its range refuses rather than
\* wraps.  DECRBY of the least integer is left out: its negation is itself.
CountersExact(c, o) ==
  c[1] \in {"INCRBY", "DECRBY"} /\ o.st = "ok" /\ c[2][2] # -IntHalf =>
    LET k == c[2][1]
        n == (IF Gone(db, k) THEN 0 ELSE Numeral(ValueText(db, db.store[k])))
             + (IF c[1] = "INCRBY" THEN c[2][2] ELSE -c[2][2])
    IN  o.res = Integer(n) /\ Answers(evalGET(o.db, <<k>>)) = {Bulk(FormatInt(n))}

Mistyped(d) == {k \in Present(d) : Type(d, d.store[k]) = "int" /\ Data(d, d.store[k])[1] = "text"}

\* A position before the value, which GETBIT, BITCOUNT, BITFIELD and HSCAN do
\* not refuse.  A start of BITCOUNT that counts from the end may be negative,
\* as long as it lies in the value.
BeforeValue(c) ==
  LET a == c[2]
      s == ValueBytes(db, db.store[a[1]])
  IN  CASE c[1] = "GETBIT"   -> a[2] < 0
        [] c[1] = "BITCOUNT" -> Len(a) > 2 /\ a[2] < (IF Len(a) = 4 THEN -NumBits(s) ELSE -Len(s))
        [] c[1] = "BITFIELD" -> \E i \in DOMAIN a[2] : a[2][i].kind # "OVERFLOW" /\ a[2][i].off < 0
        [] c[1] = "HSCAN"    -> a[2] < 0
        [] OTHER             -> FALSE

\* An evaluator panics only on a byte array or a HyperLogLog it takes for a
\* text, on a text held under the type of an integer, or on a position before
\* the value; and only INCRBYFLOAT makes a text that has the type of an
\* integer, whatever bits or characters of an integer are changed.
PanicsExplained ==
  \A c \in menu.cmds : \A o \in Outcomes(c) :
    /\ o.st = "panic" => \/ BeforeValue(c)
                         \/ c[2][1] \in Mistyped(db)
                         \/ /\ c[1] \in {"GET", "GETDEL", "GETEX", "SET"}
                            /\ Type(db, db.store[c[2][1]]) \in {"bytes", "hll"}
    /\ c[1] # "INCRBYFLOAT" => Mistyped(o.db) \subseteq Mistyped(db)

\* The two halves of a sorted set never part: the tree holds exactly the
\* members of the map, each under the score the map gives it.
TreeIsMap ==
  \A k \in Present(db) : Type(db, db.store[k]) = "zset" =>
    LET z == Data(db, db.store[k]) IN z.tree = {<<z.map[m], m>> : m \in Members(z)}

\* ZRANK is the position at which ZRANGE shows the member, and ZCARD the number
\* of items ZRANGE and ZCOUNT find.
RankIsPosition ==
  \A k \in Keys : ~Gone(db, k) /\ Type(db, db.store[k]) = "zset" =>
    LET z   == Data(db, db.store[k])
        all == Answers(evalZRANGE(db, <<k, 0, -1, FALSE>>))
    IN  /\ \A m \in Members(z) : \A r \in Answers(evalZRANK(db, <<k, m>>)) :
             Answers(evalZRANGE(db, <<k, r[2], r[2], FALSE>>)) = {Array(<<<<z.map[m], m>>>>)}
        /\ \A s \in all :
             /\ Answers(evalZCARD(db, <<k>>)) = {Integer(Len(s[2]))}
             /\ Answers(evalZCOUNT(db, <<k, -MaxCount, MaxCount>>)) = {Integer(Len(s[2]))}

\* The fields an HSCAN from cursor 0 until the cursor is 0 again hands out.
Scanned(h, match, count) ==
  LET keys == SetToSortSeq(DOMAIN h, <)
      Page(acc, i) ==
        LET s == ScanPage(keys, acc.cursor, match, count)
        IN  IF acc.done THEN acc
            ELSE [cursor |-> s.next, done |-> s.next = 0, out |-> acc.out \o s.page]
  IN  FoldLeft(Page, [cursor |-> 0, done |-> FALSE, out |-> <<>>],
               [i \in 1 .. Len(keys) + 1 |-> i])

\* A complete HSCAN of a hash that does not change ends, and hands out every
\* matching field exactly once, whatever the pattern and the page size.
ScanComplete ==
  \A k \in Present(db) : Type(db, db.store[k]) = "hash" =>
    LET h == Data(db, db.store[k])
    IN  \A match \in SUBSET DOMAIN h, count \in 1 .. 3 :
          LET r == Scanned(h, match, count)
          IN  r.done /\ ToSet(r.out) = match /\ Len(r.out) = Cardinality(match)

\* Taking from an end takes what it answers: the elements of the reply and
\* those left are those there were.
PopsTake(c, o) ==
  LET k == c[2][1]
      before == Data(db, db.store[k])
      after  == Data(o.db, o.db.store[k])
      taken  == IF o.res[1] = "elem" THEN <<o.res[2]>> ELSE IF o.res = NIL THEN <<>> ELSE o.res[2]
  IN  o.st = "ok" /\ ~Gone(db, k) =>
        CASE c[1] = "LPOP" -> Type(db, db.store[k]) = "list" => taken \o after = before
          [] c[1] = "RPOP" -> after \o taken = before
          [] c[1] \in {"ZPOPMIN", "ZPOPMAX"} -> Type(db, db.store[k]) = "zset" =>
               /\ ToSet(taken) \cup after.tree = before.tree
               /\ Len(taken) + Cardinality(Members(after)) = Cardinality(Members(before))

Bits(d, k, n) == [i \in 0 .. n - 1 |-> Answers(evalGETBIT(d, <<k, i>>))]

\* SETBIT changes the bit it names and no other, answers with its old value and
\* grows the value with zeros.  An integer is left out: its changed bytes are
\* parsed again, and lose a leading zero.
SetBitLocal(c, o) ==
  c[1] = "SETBIT" /\ o.st = "ok" =>
    LET k == c[2][1]
        n == 8 * (MaxText + 1)
        old == IF Gone(db, k) THEN [i \in 0 .. n - 1 |-> {Integer(0)}] ELSE Bits(db, k, n)
    IN  (Gone(db, k) \/ Type(db, db.store[k]) # "int") =>
          /\ old[c[2][2]] = {o.res}
          /\ Bits(o.db, k, n) = [old EXCEPT ![c[2][2]] = {Integer(c[2][3])}]

\* BITCOUNT is the number of bits GETBIT shows as set, over the value and over
\* every range of its bytes, and BITPOS the first bit that GETBIT shows as set.
BitsAgree ==
  \A k \in Keys : ~Gone(db, k) /\ HasBytes(db, db.store[k]) =>
    LET n   == Len(ValueBytes(db, db.store[k]))
        b   == Bits(db, k, 8 * n)
        Set(lo, hi) == {i \in 8 * lo .. 8 * hi + 7 : b[i] = {Integer(1)}}
    IN  \A lo \in 0 .. n - 1 : \A hi \in lo .. n - 1 :
          /\ Answers(evalBITCOUNT(db, <<k, lo, hi>>)) = {Integer(Cardinality(Set(lo, hi)))}
          /\ Answers(evalBITPOS(db, <<k, 1, lo, hi>>)) =
               {Integer(IF Set(lo, hi) = {} THEN -1 ELSE Min(Set(lo, hi)))}
          /\ Answers(evalBITPOS(db, <<k, 1, 8 * lo, 8 * hi + 7, "BIT">>)) =
               Answers(evalBITPOS(db, <<k, 1, lo, hi>>))

\* What a text, a counter or a bit map was set to is what every command that
\* reads it shows, whichever of its three encodings it is held in.
ValuesReadBack ==
  /\ RangesJoin /\ BitsAgree
  /\ \A c \in CommandsNamed({"SET", "INCRBY", "DECRBY", "SETBIT"}) : \A o \in Outcomes(c) :
       SetReadsBack(c, o) /\ CountersExact(c, o) /\ SetBitLocal(c, o)

\* A sorted set DUMP accepts comes back from RESTORE with both halves as they
\* were, though only the map is written, under another key too.  The other
\* types are written whole; that lists come back is Deque's to show.
SortedSetsRestored ==
  \A k \in Present(db) : Type(db, db.store[k]) = "zset" =>
    \A o \in evalDUMP(db, <<k>>), j \in Keys :
      o.st = "ok" /\ o.res # NIL /\ Timed(db) \subseteq Stored(db) =>
        \A r \in evalRestore(o.db, <<j, 0, o.res[2]>>) : Value(r.db, j) = Value(db, k)

\* Sorted sets, hashes and lists show the same elements whichever way they are
\* read, and neither lose nor repeat one when they are scanned, popped, dumped
\* or restored.
CollectionsAgree ==
  /\ TreeIsMap /\ RankIsPosition /\ ScanComplete /\ SortedSetsRestored
  /\ \A c \in CommandsNamed({"LPOP", "RPOP", "ZPOPMIN", "ZPOPMAX"}) :
       \A o \in Outcomes(c) : PopsTake(c, o)

\* A sketch never estimates less than the true count of an item, and its total
\* is the sum of the true counts, through increments and weighted merges, also
\* of a sketch into itself.
NeverUndercounts ==
  \A k \in Present(db) : Type(db, db.store[k]) = "cms" =>
    LET s == Data(db, db.store[k])
    IN  /\ \A x \in Items : estimateCount(s, x) >= s.true[x]
        /\ s.count = FoldSet(LAMBDA x, acc : acc + s.true[x], 0, Items)

\* A filter never denies a value that was added to it, whichever seeds were
\* drawn, and counts no value twice.
NoFalseNegatives ==
  \A k \in Keys : ~Gone(db, k) /\ Type(db, db.store[k]) = "bf" =>
    LET b == Data(db, db.store[k])
    IN  /\ \A x \in b.true : Answers(evalBFEXISTS(db, <<k, x>>)) = {Integer(1)}
        /\ b.cnt <= Cardinality(b.true)

\* The probabilistic structures err on one side only.
OneSidedErrors == NeverUndercounts /\ NoFalseNegatives
=============================================================================
