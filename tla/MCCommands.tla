----------------------------- MODULE MCCommands -----------------------------
(* Instances of Commands for TLC: three keys, room for two; and, in the    *)
(* behaviours with an empty menu, of StoreThreads.                         *)
EXTENDS Commands, StoreThreads

CONSTANTS k1, k2, k3

None == [x \in {} |-> 0]
C(name, args) == <<name, args, FALSE>>
W(name, args) == <<name, args, TRUE>>
One == <<"digits", 1>>
Txt == <<"word", "w">>

\* Strings, counters and expiry on one key, with a second for DEL and EXISTS.
StringMenu ==
  {C("SET", <<k1, v, o>>) : v \in {One, Txt},
     o \in {None, [PX |-> 1], [KEEPTTL |-> 0]}}
  \cup {C("SET", <<k1, <<"decimal", "x">>, o>>) :
          o \in {[EX |-> 1], [PXAT |-> 2], [EXAT |-> 1], [NX |-> 0], [XX |-> 0],
                 [EX |-> 1, PX |-> 1], [EX |-> 9], [BY |-> 0], [XX |-> 0, NX |-> 0]}}
  \cup {C(n, <<k1>>) : n \in {"GET", "GETDEL", "INCR", "DECR", "TTL", "EXPIRETIME", "TYPE"}}
  \cup {C("GETEX", <<k1, o>>) : o \in {None, [PERSIST |-> 0], [PX |-> 2],
                                       [PERSIST |-> 0, EX |-> 1], [EX |-> 9]}}
  \cup {C("GETSET", <<k1, Txt>>), C("INCRBY", <<k1, One>>), C("DECRBY", <<k1, One>>),
        C("INCRBY", <<k1, Txt>>), C("DECRBY", <<k1, Txt>>), C("SET", <<k2, One, None>>),
        C("DEL", <<k1, k2>>), C("EXISTS", <<k1, k2, k1>>), C("GET", <<>>),
        C("KEYS", <<{k1, k2}>>), C("FLUSHDB", <<>>), C("NOSUCH", <<>>)}

ExpiryMenu ==
  {C(n, <<k1, s, o>>) : n \in {"EXPIRE", "EXPIREAT"}, s \in {-1, 0, 1, 2},
     o \in {{}, {"NX"}, {"XX"}, {"GT"}, {"LT"}, {"GT", "XX"}, {"GT", "LT"},
            {"NX", "XX"}, {"ZZ"}}}
  \cup {C("SET", <<k1, One, [KEEPTTL |-> 0]>>), C("TTL", <<k1>>), C("INCR", <<k1>>),
        C("EXPIRETIME", <<k1>>), C("HSET", <<k1, "f", "v">>),
        C("ECHO", <<"e">>), C("PING", <<>>), C("HANDSHAKE", <<"c", "m">>),
        C("HELLO", <<>>), C("UNWATCH", <<"f">>)}

HashMenu ==
  {C("HSET", <<k, "f", v>>) : k \in {k1, k2}, v \in {"u", "v"}}
  \cup {C("HSET", <<k1, "f", "v", "g", "u">>), C("HSET", <<k1, "f", "v", "g">>),
        C("HGETALL", <<k1>>), C("HGETALL", <<k2>>), C("GETDEL", <<k1>>),
        C("SET", <<k1, Txt, [PX |-> 1]>>), C("EXPIRE", <<k1, 1, {}>>)}
  \cup {C("HGET", <<k, "f">>) : k \in {k1, k2}}

ZsetMenu ==
  {C("ZADD", <<k1, f, <<<<"digits", s>>, m>>>>) : f \in {{}, {"NX"}, {"XX"}, {"GT", "CH"},
      {"LT"}, {"INCR"}, {"NX", "XX"}, {"GT", "LT"}}, s \in {0, 1}, m \in {1, 2}}
  \cup {C("ZADD", <<k1, {"INCR"}, <<One, 1, One, 2>>>>), C("ZADD", <<k1, {}, <<One, 1, One>>>>),
        C("ZADD", <<k1, {}, <<Txt, 1>>>>), C("ZADD", <<k1, {}, <<One, 1, <<"digits", 0>>, 2>>>>),
        C("ZCARD", <<k1>>), C("ZREM", <<k1, 1, 2>>), C("SET", <<k1, Txt, None>>),
        C("EXPIRE", <<k1, 1, {}>>), C("GET", <<k1>>)}
  \cup {C("ZCOUNT", <<k1, lo, 1>>) : lo \in {0, 2}}
  \cup {C("ZRANGE", <<k1, s, -1, by>>) : s \in {1, 2}, by \in {"BYRANK", "BYSCORE"}}
  \cup {C("ZRANK", <<k1, m>>) : m \in {1, 3}}
  \cup {C(n, <<k1, i>>) : n \in {"ZPOPMIN", "ZPOPMAX"}, i \in {0, 1, 2}}

\* Three keys in a table of two, some of them with an expiry.
FullMenu ==
  {C("SET", <<k, Txt, None>>) : k \in {k1, k2, k3}}
  \cup {C("GET", <<k>>) : k \in {k1, k2}}
  \cup {C("SET", <<k1, Txt, [PX |-> 1]>>), C("DEL", <<k2>>), C("INCR", <<k1>>),
        C("ZADD", <<k3, {}, <<One, 1>>>>), C("HSET", <<k2, "f", "u">>)}

\* Watched queries beside the commands that change their replies.
WatchMenu ==
  {W("HGET", <<k1, f>>) : f \in {"f", "g"}}
  \cup {W("GET", <<k1>>), W("HGETALL", <<k1>>), W("ZCARD", <<k2>>),
        W("ZCOUNT", <<k2, 0, 1>>), W("ZRANGE", <<k2, 1, 2, "BYRANK">>),
        W("ZRANK", <<k2, 1>>), C("HGET", <<k1, "f">>), C("HSET", <<k1, "f", "v">>),
        C("ZADD", <<k2, {}, <<One, 1>>>>), C("DEL", <<k1>>)}

AllMenus == {StringMenu, ExpiryMenu, HashMenu, ZsetMenu, FullMenu, WatchMenu, {}}

\* Registers, with and without deadlines.
Mix(kinds, n, passes) == [ops |-> kinds, n |-> n, sweeps |-> passes]
NoMix    == Mix({}, 0, 0)
AllMixes == {NoMix, Mix({"set", "get", "del"}, 4, 0), Mix({"set", "setkeep", "setttl", "get"}, 3, 0),
             Mix({"set", "setttl", "get"}, 3, 1), Mix({"set", "del"}, 2, 1)}

MCInit == Init /\ ThreadsInit /\ (menu = {} <=> mix # NoMix)

CommandStep(A) == menu # {} /\ A /\ UNCHANGED tvars

MCNext == \/ CommandStep(Next)
          \/ mix # NoMix /\ ThreadsNext /\ UNCHANGED vars

MCSpec == MCInit /\ [][MCNext]_<<vars, tvars>>
=============================================================================
