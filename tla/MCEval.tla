------------------------------- MODULE MCEval -------------------------------
(* Instances of EvalEngine for TLC: two keys, and one menu of commands for *)
(* each family of evaluators; and, in the behaviours whose menu is empty,  *)
(* of Deque.                                                               *)
EXTENDS EvalEngine, Deque

CONSTANTS k1, k2, ia, ib, ic, empty

None == [o \in {} |-> 0]
C(name, args) == <<name, args>>
Menu(cmds, until) == [cmds |-> cmds, until |-> until]

\* Texts: 7, 15 (the greatest integer), 07, +7, -0 and x.
T7 == <<55>>
T15 == <<49, 53>>
T07 == <<48, 55>>
Plus7 == <<43, 55>>
Minus0 == <<45, 48>>
Tx == <<120>>

StringMenu ==
  {C("SET", <<k1, t, None>>) : t \in {T7, T15, T07, Plus7, Minus0, Tx}}
  \cup {C(n, <<k1, by>>) : n \in {"INCRBY", "DECRBY"}, by \in {1, 9, -IntHalf}}
  \cup {C("INCRBYFLOAT", <<k1, h>>) : h \in {15, 2, -15}}
  \cup {C("GETRANGE", <<k1, i, j>>) : i \in {-2, 0, 1}, j \in {-3, 0, 2}}
  \cup {C(n, <<k1>>) : n \in {"GET", "GETDEL", "INCR", "DECR", "TYPE", "DEL", "DBSIZE"}}
  \cup {C("APPEND", <<k1, T7>>), C("APPEND", <<k1, Tx>>), C("SADD", <<k1, 1>>),
        C("GET", <<>>), C("SETBIT", <<k1, 6, 1>>), C("SETBIT", <<k1, 1, 0>>)}

ExpiryMenu ==
  {C("SET", <<k1, T7, o>>) : o \in {None, [EX |-> 1], [PX |-> 1], [PXAT |-> 2], [PX |-> 2, GET |-> 0],
     [GET |-> 0], [EX |-> 1, PX |-> 1], [EXAT |-> 1], [PX |-> 0]}}
  \cup {C("GETEX", <<k1, o>>) : o \in {None, [PERSIST |-> 0], [EX |-> 1], [PXAT |-> 2],
          [PERSIST |-> 0, PX |-> 1], [EX |-> 1, PX |-> 1], [PX |-> 9]}}
  \cup {C("EXPIRE", <<k1, n>>) : n \in {-1, 0, 1, 9}}
  \cup {C("EXPIREAT", <<k1, n>>) : n \in {-1, 0, 1}}
  \cup {C(n, <<k1>>) : n \in {"PERSIST", "TTL", "PTTL", "EXPIRETIME", "TOUCH", "INCR", "GET",
          "GETDEL", "DEL"}}
  \cup {C("SETEX", <<k1, 1, Tx>>), C("SETEX", <<k1, 0, Tx>>), C("APPEND", <<k1, T7>>),
        C("SETBIT", <<k1, 1, 0>>), C("DBSIZE", <<>>), C("KEYS", <<"*">>), C("SET", <<k2, Tx, None>>),
        C("OBJECT", <<"IDLETIME", k1>>), C("OBJECT", <<"FREQ", k1>>), C("DEL", <<k1, k2, k1>>),
        C("LPUSH", <<k2, 1>>), C("GETEX", <<k2, None>>), C("SET", <<k2, Tx, [GET |-> 0]>>)}

WholeMenu ==
  {C("COPY", <<k1, k2, r>>) : r \in BOOLEAN}
  \cup {C("RESTORE", <<k, ttl>>) : k \in {k1, k2}, ttl \in {0, 1}}
  \cup {C("SET", <<k1, T7, None>>), C("SET", <<k1, Tx, [PX |-> 1]>>), C("SADD", <<k1, 1>>),
        C("RPUSH", <<k1, 1, 2>>), C("ZADD", <<k1, {}, <<<<<<1>>, 1>>, <<<<0>>, 2>>>>>>),
        C("HSET", <<k1, 1, Tx>>), C("DUMP", <<k1>>), C("DEL", <<k1>>), C("DEL", <<k2>>),
        C("EXPIRE", <<k2, 1>>), C("DBSIZE", <<>>)}

HashMenu ==
  {C("HSET", <<k1, f, T7>>) : f \in {1, 2, 3}}
  \cup {C("HSET", <<k1, 1, Tx, 2, Tx>>), C("HMSET", <<k1, 2, T15, 3>>), C("HSETNX", <<k1, 2, Tx>>),
        C("HDEL", <<k1, 2, 3>>), C("HDEL", <<k1, 1>>), C("HSTRLEN", <<k1, 1>>),
        C("HEXISTS", <<k1, 1>>), C("HGET", <<k1, 2>>), C("HMGET", <<k1, 1, 2>>),
        C("SET", <<k1, Tx, None>>), C("EXPIRE", <<k1, 1>>), C("DEL", <<k1>>)}
  \cup {C(n, <<k1>>) : n \in {"HKEYS", "HVALS", "HGETALL", "HLEN", "HSET"}}
  \cup {C("HINCRBY", <<k1, 1, by>>) : by \in {9, -9}}
  \cup {C("HINCRBYFLOAT", <<k1, 3, h>>) : h \in {15, -15}}
  \cup {C("HSCAN", <<k1, i, m, n>>) : i \in {-1, 0, 2}, m \in {{1, 3}}, n \in {0, 1}}
  \cup {C("HRANDFIELD", <<k1, n>>) : n \in {-2, 0, 2}}

ListMenu ==
  {C(n, <<k1, 1, 2>>) : n \in {"LPUSH", "RPUSH", "SADD", "SREM"}}
  \cup {C(n, <<k1, 3>>) : n \in {"LPUSH", "RPUSH", "SADD"}}
  \cup {C("LPOP", <<k1, n>>) : n \in {-1, 0, 1, 2}}
  \cup {C(n, <<k1>>) : n \in {"RPOP", "LLEN", "SCARD", "SMEMBERS", "LPUSH", "DEL"}}
  \cup {C("LRANGE", <<k1, i, j>>) : i \in {0, -2}, j \in {-1, 5}}
  \cup {C("LINSERT", <<k1, w, 2, 4>>) : w \in {"before", "after", "beside"}}
  \cup {C("EXPIRE", <<k1, 1>>), C("SET", <<k1, Tx, None>>)}

ZsetMenu ==
  {C("ZADD", <<k1, f, <<<<<<s>>, m>>>>>>) : f \in {{}, {"NX"}, {"XX", "CH"}, {"GT"}, {"LT"},
     {"INCR"}, {"INCR", "XX"}, {"INCR", "GT"}}, s \in {0, 1}, m \in {1, 2}}
  \cup {C("ZADD", <<k1, {}, <<<<<<2>>, 3>>, <<<<>>, 1>>>>>>), C("ZADD", <<k1, {"GT", "LT"}, <<<<<<1>>, 1>>>>>>),
        C("ZADD", <<k1, {}, <<<<<<1>>, 3>>, <<<<2>>, 3>>>>>>), C("ZREM", <<k1, 1, 3>>),
        C("ZCOUNT", <<k1, 1, 2>>), C("ZCARD", <<k1>>), C("ZRANK", <<k1, 2>>), C("SET", <<k1, Tx, None>>),
        C("GEOADD", <<k1, {}, <<<<<<2>>, 2>>>>>>), C("GEOADD", <<k1, {"XX"}, <<<<<<1>>, 1>>, <<<<>>, 2>>>>>>),
        C("GEOADD", <<k1, {"NX", "XX"}, <<<<<<2>>, 2>>>>>>), C("GEOPOS", <<k1, 1, 3>>),
        C("GEOHASH", <<k1, 1>>), C("EXPIRE", <<k1, 1>>), C("DEL", <<k1>>)}
  \cup {C("GEODIST", <<k1, 1, 2, u>>) : u \in {"km", "mm"}}
  \cup {C("ZRANGE", <<k1, 0, -1, r>>) : r \in BOOLEAN}
  \cup {C(n, <<k1, i>>) : n \in {"ZPOPMIN", "ZPOPMAX"}, i \in {0, 1, 2}}

Field(kind, signed, width, off, val) ==
  [kind |-> kind, signed |-> signed, width |-> width, off |-> off, val |-> val]
BitMenu ==
  {C("SETBIT", <<k1, i, bit>>) : i \in {-1, 1, 7, 9}, bit \in {0, 1}}
  \cup {C("GETBIT", <<k1, i>>) : i \in {-8, -1, 9}}
  \cup {C("BITCOUNT", <<k1, i, -1>>) : i \in {-3, -1}}
  \cup {C("BITCOUNT", <<k1, i, 3, "BIT">>) : i \in {-17, -8}}
  \cup {C("BITFIELD", <<k1, <<Field(kind, FALSE, 3, i, 1)>>, FALSE>>) : kind \in {"GET", "SET"}, i \in {-8, -2}}
  \cup {C("BITFIELD", <<k1, <<Field("SET", FALSE, 4, 2, 9), Field("GET", TRUE, 3, 3, 0)>>, FALSE>>),
        C("BITFIELD", <<k1, <<[kind |-> "OVERFLOW", mode |-> "SAT"], Field("INCRBY", TRUE, 3, 7, 3)>>, FALSE>>),
        C("BITFIELD", <<k1, <<[kind |-> "OVERFLOW", mode |-> "FAIL"], Field("INCRBY", FALSE, 2, 0, 2)>>, FALSE>>),
        C("BITFIELD", <<k1, <<[kind |-> "OVERFLOW", mode |-> "FAIL"], Field("INCRBY", FALSE, 3, -2, 2)>>, FALSE>>),
        C("BITFIELD", <<k1, <<Field("INCRBY", FALSE, 2, 0, 3)>>, FALSE>>),
        C("BITFIELD", <<k1, <<Field("GET", FALSE, 8, 0, 0)>>, TRUE>>),
        C("BITFIELD", <<k1, <<Field("SET", FALSE, 8, 0, 0)>>, TRUE>>),
        C("BITCOUNT", <<k1>>), C("BITCOUNT", <<k1, 0>>), C("BITCOUNT", <<k1, 2, -2, "BIT">>),
        C("BITCOUNT", <<k1, 0, 1, "WORD">>), C("BITPOS", <<k1, 0>>), C("BITPOS", <<k1, 2>>),
        C("BITPOS", <<k1, 1, -1>>), C("GET", <<k1>>), C("GETRANGE", <<k1, 0, 0>>),
        C("APPEND", <<k1, T7>>), C("SET", <<k1, T7, None>>), C("SET", <<k1, T15, None>>),
        C("SET", <<k1, Tx, None>>), C("SADD", <<k1, 1>>), C("EXPIRE", <<k1, 1>>), C("DEL", <<k1>>)}

SketchMenu ==
  {C("CMS.INIT", <<k, w, 2>>) : k \in {k1, k2}, w \in {0, 2, 3}}
  \cup {C("CMS.INCRBY", <<k, <<<<i, <<1>>>>>>>>) : k \in {k1, k2}, i \in {ia, ib}}
  \cup {C("CMS.MERGE", <<k1, <<k2>>, <<2>>>>), C("CMS.MERGE", <<k1, <<k1, k2>>, <<1, 1>>>>),
        C("CMS.INCRBY", <<k1, <<<<ia, <<1>>>>, <<ic, <<2>>>>>>>>), C("CMS.INCRBY", <<k1, <<<<ia, <<1>>>>, <<ic, <<>>>>>>>>),
        C("CMS.QUERY", <<k1, ia, ic>>), C("CMS.INFO", <<k2>>), C("SET", <<k2, Tx, None>>), C("DEL", <<k2>>)}

FilterMenu ==
  {C(n, <<k1, i>>) : n \in {"BF.ADD", "BF.EXISTS"}, i \in {ia, ib, ic, empty}}
  \cup {C("PFADD", <<k, i>>) : k \in {k1, k2}, i \in {ia, ib}}
  \cup {C("BF.RESERVE", <<k1, 2>>), C("BF.RESERVE", <<k1, 0>>), C("BF.INFO", <<k1>>),
        C("PFCOUNT", <<k1, k2>>), C("PFMERGE", <<k1, k2>>), C("PFMERGE", <<k2, k2, k1>>),
        C("GET", <<k1>>), C("SET", <<k1, Tx, None>>), C("DEL", <<k1>>), C("EXPIRE", <<k2, 1>>)}

AllMenus == {Menu(StringMenu, 0), Menu(ExpiryMenu, 2), Menu(WholeMenu, 1), Menu(HashMenu, 2),
             Menu(ListMenu, 2), Menu(ZsetMenu, 2), Menu(BitMenu, 1), Menu(SketchMenu, 0),
             Menu(FilterMenu, 1), Menu({}, 0)}

\* Hash values with collisions.
H1 == ia :> 0 @@ ib :> 1 @@ ic :> 3 @@ empty :> 0
H2 == ia :> 1 @@ ib :> 0 @@ ic :> 2 @@ empty :> 0
Seeds == 1 :> H1 @@ 2 :> H2

\* Elements of a list: a numeral that is read back shorter, and a text that
\* does not fit a node with anything else.
MCElems   == {"007", "big"}
MCPivots  == {"007", "7", "big"}
MCNorm    == [e \in MCPivots |-> IF e = "007" THEN "7" ELSE e]
MCSize    == [e \in MCPivots |-> IF e = "big" THEN 6 ELSE 2]
MCIndices == {-2, 0, 1, 3}

MCInit == Init /\ DequeInit

MCNext == \/ Next /\ UNCHANGED dvars
          \/ menu.cmds = {} /\ DequeNext /\ UNCHANGED vars

MCSpec == MCInit /\ [][MCNext]_<<vars, dvars>>
=============================================================================
