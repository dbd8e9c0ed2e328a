------------------------- MODULE CommandViewProofs --------------------------
(* What a client can see of a command, for any finite set of keys, any     *)
(* limit on their number, any number of threads, any clock and any set of  *)
(* command lines: a command is confined to the keys it names, and whether  *)
(* an expired key has been collected cannot be told.                       *)
EXTENDS CommandsProofs

---------------------------------------------------------------------------
(* Commands are confined                                                   *)

Live(d, j) == d.store[j] # Nil /\ ~Expired(d, j)

\* A lookup of k changes nothing but k: it may drop it, when expired.
ReadAs(d, g, k) ==
  /\ \A j \in Keys : j # k => g.store[j] = d.store[j]
  /\ g.store[k] = d.store[k] \/ (g.store[k] = Nil /\ Expired(d, k))
  /\ \A p \in Ptrs : g.obj[p].val = d.obj[p].val
  /\ \A j \in Keys : g.store[j] # Nil => g.expires[g.store[j]] = d.expires[d.store[j]]
  /\ g.store[k] = Nil => g = d \/ g.numKeys < d.numKeys

LEMMA ReadFacts ==
  ASSUME NEW d, Sound(d), NEW k \in Keys, NEW g, Reads(d, g, k)
  PROVE  ReadAs(d, g, k) /\ Sound(g)
<1>0. IsStore(d) /\ Owned(d) /\ d.numKeys \in Int /\ d.store \in [Keys -> Ptrs \cup {Nil}]
  BY Zenon DEF Sound, IsStore
<1>1. CASE g = d
  BY Zenon, <1>1 DEF ReadAs
<1>2. ASSUME NEW touch \in BOOLEAN, g = getHelper(d, k, touch)
      PROVE  ReadAs(d, g, k) /\ Sound(g)
  <2>1. Sound(g)
    BY Zenon, <1>2, GetFacts
  <2>2. CASE d.store[k] = Nil /\ g = d
    BY Zenon, <2>1, <2>2 DEF ReadAs
  <2>3. CASE Expired(d, k) /\ g = deleteKeys(d, {k})
    <3>1. DeleteAs(d, g, {k})
      BY Zenon, <2>3, <1>0, DeleteShape
    <3>2. g.store = [j \in Keys |-> IF j = k THEN Nil ELSE d.store[j]]
      BY Zenon, <3>1 DEF DeleteAs
    <3>3. g.obj = d.obj /\ g.numKeys < d.numKeys
      <4>1. Cardinality({k}) = 1
        BY Zenon, FS_Singleton
      <4>2. g.obj = d.obj /\ g.numKeys = d.numKeys - Cardinality({k})
        BY Zenon, <3>1 DEF DeleteAs
      <4> QED BY <1>0, <4>1, <4>2
    <3>4. \A j \in Keys : g.store[j] # Nil => g.expires[g.store[j]] = d.expires[d.store[j]]
      <4> SUFFICES ASSUME NEW j \in Keys, g.store[j] # Nil
                   PROVE  g.expires[g.store[j]] = d.expires[d.store[j]]
        BY Zenon
      <4>1. j # k /\ g.store[j] = d.store[j] /\ d.store[j] \in Ptrs
        BY Zenon, <3>2, <1>0
      <4>2. d.store[k] # d.store[j]
        BY Zenon, <4>1, <1>0, PtrFacts DEF Owned
      <4> QED BY <3>1, <4>1, <4>2 DEF DeleteAs
    <3> QED BY Zenon, <2>1, <2>3, <3>2, <3>3, <3>4 DEF ReadAs
  <2>4. CASE /\ d.store[k] # Nil
             /\ g.store = d.store /\ g.expires = d.expires
             /\ \A q \in Ptrs : g.obj[q].val = d.obj[q].val
    BY Zenon, <2>1, <2>4 DEF ReadAs
  <2>5. \/ d.store[k] = Nil /\ g = d
        \/ Expired(d, k) /\ g = deleteKeys(d, {k})
        \/ /\ d.store[k] # Nil
           /\ g.store = d.store /\ g.expires = d.expires
           /\ \A q \in Ptrs : g.obj[q].val = d.obj[q].val
    <3>1. FetchedAs(d, g, k)
      BY Zenon, <1>2, Fetches
    <3> QED BY Zenon, <3>1 DEF FetchedAs
  <2> QED BY Zenon, <2>2, <2>3, <2>4, <2>5
<1>3. CASE g = Get(d, k)
  BY Zenon, <1>2, <1>3 DEF Get
<1>4. CASE g = GetNoTouch(d, k)
  BY Zenon, <1>2, <1>4 DEF GetNoTouch
<1> QED BY Zenon, <1>1, <1>3, <1>4 DEF Reads

LEMMA SameView ==
  ASSUME NEW d, Sound(d), NEW k \in Keys, NEW g, ReadAs(d, g, k)
  PROVE  View(g) = View(d)
<1> SUFFICES ASSUME NEW j \in Keys PROVE View(g)[j] = View(d)[j]
  BY Zenon DEF View
<1>1. CASE g.store[j] = d.store[j] /\ d.store[j] # Nil
  <2>1. d.store[j] \in Ptrs
    BY Zenon, <1>1 DEF Sound, IsStore
  <2>2. g.expires[g.store[j]] = d.expires[d.store[j]] /\ g.obj[g.store[j]].val = d.obj[d.store[j]].val
    BY Zenon, <1>1, <2>1 DEF ReadAs
  <2>3. Expired(g, j) <=> Expired(d, j)
    BY Zenon, <1>1, <2>2 DEF Expired, hasExpired
  <2> QED BY Zenon, <1>1, <2>2, <2>3 DEF View
<1>2. CASE g.store[j] = d.store[j] /\ d.store[j] = Nil
  BY Zenon, <1>2 DEF View
<1>3. CASE g.store[j] = Nil /\ Expired(d, j)
  BY Zenon, <1>3 DEF View
<1> QED BY <1>1, <1>2, <1>3 DEF ReadAs

\* A key other than k goes only when the table is full and no key that stays
\* was used less recently.
Spares(d, e, K) ==
  \A j \in Keys \ K : d.store[j] # Nil /\ e.store[j] = Nil =>
    /\ d.numKeys >= MaxKeys
    /\ \A u \in Present(d) \cap Present(e) :
         d.obj[d.store[j]].access <= d.obj[d.store[u]].access

Keeps(d, e) ==
  \A j \in Keys : Live(d, j) /\ e.store[j] # Nil =>
    e.expires[e.store[j]] = d.expires[d.store[j]]

LEMMA PutsSpare ==
  ASSUME NEW d, Sound(d), now \in Nat, NEW k \in Keys, NEW e, Puts(d, e, k)
  PROVE  /\ Spares(d, e, {k})
         /\ Get(d, k).store[k] = Nil => Keeps(d, e)
<1>0. PICK g : g = Get(d, k) /\ ReadAs(d, g, k) /\ Sound(g)
  BY Zenon, ReadFacts DEF Reads
<1>1. PICK val, v : \E ms \in Int, keepTTL \in BOOLEAN :
        \E n \in PutNew(g, k, val, ms, keepTTL) :
          e = n \/ e = Valued(n, n.store[k], v)
  BY Zenon, <1>0 DEF Puts
<1>a. PICK ms \in Int, keepTTL \in BOOLEAN : \E n \in PutNew(g, k, val, ms, keepTTL) :
        e = n \/ e = Valued(n, n.store[k], v)
  BY Zenon, <1>1
<1>2. PICK n \in PutNew(g, k, val, ms, keepTTL) : e = n \/ e = Valued(n, n.store[k], v)
  BY Zenon, <1>a
<1>3. PICK V \in Evicted(g, k) : PutAs(g, n, k, val, PutLife(g, k, ms, keepTTL), V)
  BY Zenon, <1>0, <1>2, PutFacts
<1>4. IsStore(g) /\ Owned(g) /\ IsStore(d) /\ Owned(d) /\ IsStore(n)
  BY Zenon, <1>0, <1>3 DEF Sound, PutAs
<1>5. Fresh(g) \in Ptrs /\ n.store[k] = Fresh(g)
  BY Zenon, <1>3, <1>4, FreshFacts DEF PutAs
<1>6. e.store = n.store /\ e.expires = n.expires
  BY <1>2, <1>4, <1>5, ValFacts
<1>7. Spares(d, e, {k})
  <2> SUFFICES ASSUME NEW j \in Keys, j # k, d.store[j] # Nil, e.store[j] = Nil
               PROVE  /\ d.numKeys >= MaxKeys
                      /\ \A u \in Present(d) \cap Present(e) :
                           d.obj[d.store[j]].access <= d.obj[d.store[u]].access
    BY Zenon DEF Spares
  <2>1. g.store[j] = d.store[j]
    BY Zenon, <1>0 DEF ReadAs
  <2>2. j \in V
    BY <1>3, <1>6, <2>1 DEF PutAs
  <2>3. g.store[k] = Nil /\ V \in Victims(g, ShouldEvict(g))
    BY Zenon, <1>3, <2>2 DEF Evicted
  <2>4. /\ ~(g.numKeys < MaxKeys)
        /\ \A w \in V, u \in Present(g) \ V :
             g.obj[g.store[w]].access <= g.obj[g.store[u]].access
    BY Zenon, <1>0, <2>2, <2>3, VictimFacts
  <2>5. g = d
    <3>1. d.numKeys \in Int /\ g.numKeys \in Int /\ d.numKeys <= MaxKeys /\ MaxKeys \in Int
      BY <1>0, <1>4, MaxKeysAssumption DEF Sound, IsStore
    <3> QED BY <1>0, <2>3, <2>4, <3>1 DEF ReadAs
  <2>6. d.numKeys >= MaxKeys
    <3>1. d.numKeys \in Int /\ MaxKeys \in Int
      BY <1>4, MaxKeysAssumption DEF IsStore
    <3> QED BY <2>4, <2>5, <3>1
  <2>7. ASSUME NEW u \in Present(d) \cap Present(e)
        PROVE  d.obj[d.store[j]].access <= d.obj[d.store[u]].access
    <3>1. u \in Keys /\ d.store[u] # Nil /\ e.store[u] # Nil
      BY Zenon DEF Present
    <3>2. u # k
      BY Zenon, <3>1, <2>3, <2>5
    <3>3. u \notin V
      BY <3>1, <3>2, <1>3, <1>6 DEF PutAs
    <3>4. u \in Present(g) \ V
      BY Zenon, <3>1, <3>3, <2>5 DEF Present
    <3> QED BY Zenon, <2>2, <2>4, <2>5, <3>4
  <2> QED BY Zenon, <2>6, <2>7
<1>8. ASSUME g.store[k] = Nil PROVE Keeps(d, e)
  <2> SUFFICES ASSUME NEW j \in Keys, Live(d, j), e.store[j] # Nil
               PROVE  e.expires[e.store[j]] = d.expires[d.store[j]]
    BY Zenon DEF Keeps
  <2>1. j # k
    BY Zenon, <1>0, <1>8 DEF ReadAs, Live
  <2>2. j \notin V /\ n.store[j] = g.store[j] /\ g.store[j] # Nil /\ g.store[j] \in Ptrs
    BY <1>3, <1>4, <1>6, <2>1 DEF PutAs, IsStore
  <2>3. g.store[j] # Fresh(g)
    BY Zenon, <1>4, FreshFacts
  <2>4. V \subseteq Keys
    BY Zenon, <1>0, <1>3, <1>8, VictimFacts DEF Evicted, Present
  <2>5. \A w \in V : g.store[w] # g.store[j]
    BY Zenon, <1>4, <2>2, <2>4 DEF Owned
  <2>6. n.expires[g.store[j]] = g.expires[g.store[j]]
    BY <1>3, <1>8, <2>2, <2>3, <2>5 DEF PutAs
  <2> QED BY Zenon, <1>0, <1>6, <2>2, <2>6 DEF ReadAs
<1> QED BY Zenon, <1>0, <1>7, <1>8
LEMMA ReadsSpare ==
  ASSUME NEW d, Sound(d), NEW k \in Keys, NEW e, Reads(d, e, k)
  PROVE  Spares(d, e, {k}) /\ Keeps(d, e) /\ View(e) = View(d)
<1>1. ReadAs(d, e, k)
  BY Zenon, ReadFacts
<1>2. Spares(d, e, {k})
  BY Zenon, <1>1 DEF ReadAs, Spares
<1>3. Keeps(d, e)
  BY Zenon, <1>1 DEF ReadAs, Keeps
<1> QED BY Zenon, <1>1, <1>2, <1>3, SameView

LEMMA WritesSpare ==
  ASSUME NEW d, Sound(d), NEW k \in Keys, NEW e, Writes(d, e, k)
  PROVE  Spares(d, e, {k}) /\ Keeps(d, e)
<1>0. PICK g : g = Get(d, k) /\ Reads(d, g, k) /\ Sound(g) /\ ReadAs(d, g, k)
  BY Zenon, ReadFacts DEF Reads
<1>1. PICK v : g.store[k] # Nil /\ e = Valued(g, g.store[k], v)
  BY Zenon, <1>0 DEF Writes
<1>2. IsStore(g) /\ g.store[k] \in Ptrs
  BY Zenon, <1>0, <1>1 DEF Sound, IsStore
<1>3. e.store = g.store /\ e.expires = g.expires
  BY <1>1, <1>2, ValFacts
<1>4. Spares(d, e, {k})
  BY Zenon, <1>0, <1>3 DEF ReadAs, Spares
<1>5. Keeps(d, e)
  BY <1>0, <1>3 DEF ReadAs, Keeps
<1> QED BY Zenon, <1>4, <1>5

LEMMA TimesSpare ==
  ASSUME NEW d, Sound(d), NEW k \in Keys, NEW e, Times(d, e, k)
  PROVE  Spares(d, e, {k})
<1>0. PICK g : g = Get(d, k) /\ Sound(g) /\ ReadAs(d, g, k)
  BY Zenon, ReadFacts DEF Reads
<1>1. PICK x \in Stamps : g.store[k] # Nil /\ e = SetUnixTimeExpiry(g, g.store[k], x)
  BY Zenon, <1>0 DEF Times
<1>2. IsStore(g) /\ g.store[k] \in Ptrs
  BY Zenon, <1>0, <1>1 DEF Sound, IsStore
<1>3. ExpiryAs(g, e, g.store[k], x)
  BY Zenon, <1>1, <1>2, ExpiryFacts
<1>4. e.store = g.store
  BY Zenon, <1>3 DEF ExpiryAs
<1> QED BY Zenon, <1>0, <1>4 DEF ReadAs, Spares

LEMMA RemovesSpare ==
  ASSUME NEW d, Sound(d), NEW K, NEW e, Removes(d, e, K)
  PROVE  Spares(d, e, K) /\ Keeps(d, e)
<1>1. PICK D \in SUBSET (K \cap Present(d)) : e = deleteKeys(d, D)
  BY Zenon DEF Removes
<1>2. IsStore(d) /\ Owned(d) /\ D \in SUBSET Keys /\ D \subseteq K
  BY Zenon, <1>1, PresentFacts DEF Sound
<1>3. DeleteAs(d, e, D)
  BY Zenon, <1>1, <1>2, DeleteShape
<1>4. Spares(d, e, K)
  BY Zenon, <1>2, <1>3 DEF DeleteAs, Spares
<1>5. Keeps(d, e)
  <2> SUFFICES ASSUME NEW j \in Keys, Live(d, j), e.store[j] # Nil
               PROVE  e.expires[e.store[j]] = d.expires[d.store[j]]
    BY Zenon DEF Keeps
  <2>1. j \notin D /\ e.store[j] = d.store[j] /\ d.store[j] # Nil /\ d.store[j] \in Ptrs
    BY <1>2, <1>3 DEF DeleteAs, IsStore
  <2>2. \A i \in D : d.store[i] # d.store[j]
    BY Zenon, <1>2, <2>1 DEF Owned
  <2> QED BY <1>3, <2>1, <2>2 DEF DeleteAs
<1> QED BY Zenon, <1>4, <1>5

\* The three parts of CommandsConfined for one outcome of a command line.
About == {"SET", "GETSET", "GETEX", "EXPIRE", "EXPIREAT", "HSET"}
Confined(d, c, o) ==
  /\ Spares(d, o.db, Named(c))
  /\ ~Acted(c[1], o) => View(o.db) = View(d)
  /\ c[1] \notin About => Keeps(d, o.db)

LEMMA RanConfined ==
  ASSUME NEW d, Sound(d), now \in Nat, NEW c, NEW o, Ran(d, c, o)
  PROVE  Confined(d, c, o)
<1>1. CASE o.db = d
  BY Zenon, <1>1 DEF Confined, Spares, Keeps
<1>2. CASE c[2][1] \in Keys /\ Named(c) = {c[2][1]} /\ Outcome(d, c[1], c[2][1], o)
  <2>a. PICK k \in Keys : k = c[2][1] /\ Named(c) = {k} /\ Outcome(d, c[1], k, o)
    BY Zenon, <1>2
  <2>0. PICK n : n = c[1] /\ Named(c) = {k} /\ Outcome(d, n, k, o)
    BY Zenon, <2>a
  <2> SUFFICES /\ Spares(d, o.db, {k})
               /\ ~Acted(n, o) => View(o.db) = View(d)
               /\ n \notin About => Keeps(d, o.db)
    BY Zenon, <2>0 DEF Confined
  <2>1. CASE Reads(d, o.db, k)
    BY Zenon, <2>1, ReadsSpare
  <2>2. CASE n \in {"SET", "GETSET", "HSET"} /\ Acted(n, o) /\ Puts(d, o.db, k)
    BY Zenon, <2>2, PutsSpare DEF About
  <2>3. CASE /\ n \in Counters \cup {"ZADD"} /\ Acted(n, o)
             /\ Get(d, k).store[k] = Nil /\ Puts(d, o.db, k)
    BY Zenon, <2>3, PutsSpare
  <2>4. CASE Acted(n, o) /\ Writes(d, o.db, k)
    BY Zenon, <2>4, WritesSpare
  <2>5. CASE n \in {"GETEX", "EXPIRE", "EXPIREAT"} /\ Acted(n, o) /\ Times(d, o.db, k)
    BY Zenon, <2>5, TimesSpare DEF About
  <2>6. CASE n = "GETDEL" /\ Acted(n, o) /\ Removes(d, o.db, {k})
    BY Zenon, <2>6, RemovesSpare
  <2> QED BY Zenon, <2>0, <2>1, <2>2, <2>3, <2>4, <2>5, <2>6 DEF Outcome
<1>3. CASE o.st = "ok" /\ Removes(d, o.db, Named(c))
  BY Zenon, <1>3, RemovesSpare DEF Confined, Acted
<1>4. CASE o.st = "ok" /\ Named(c) = Keys /\ o.db = NewStore
  <2>1. \A j \in Keys : o.db.store[j] = Nil
    BY <1>4 DEF NewStore
  <2> QED BY Zenon, <1>4, <2>1 DEF Confined, Acted, Spares, Keeps
<1> QED BY Zenon, <1>1, <1>2, <1>3, <1>4 DEF Ran

LEMMA StoreInvConfines == StoreInv => CommandsConfined
<1> SUFFICES ASSUME StoreInv PROVE CommandsConfined
  BY Zenon
<1>0. now \in Nat /\ Sound(db) /\ \A c \in menu : WellFormed(c)
  BY ClockAssumption, MenusAssumption DEF StoreInv
<1>1. ASSUME NEW c \in menu, NEW o \in Run(db, c) PROVE Confined(db, c, o)
  <2>1. PICK d : d = db /\ Sound(d)
    BY Zenon, <1>0
  <2>2. Ran(d, c, o)
    BY Zenon, <1>0, <2>1, RunRan
  <2>3. Confined(d, c, o)
    BY Zenon, <1>0, <2>1, <2>2, RanConfined
  <2> QED BY Zenon, <2>1, <2>3
<1>2. \A k \in Keys : View(db)[k] # <<"none">> => Live(db, k)
  BY Zenon DEF View, Live
<1>3. OnlyVictimsVanish
  <2> SUFFICES ASSUME NEW c \in menu, NEW o \in Run(db, c), NEW k \in Keys \ Named(c),
                      View(db)[k] # <<"none">>, o.db.store[k] = Nil
               PROVE  /\ db.numKeys >= MaxKeys
                      /\ \A j \in Present(db) \cap Present(o.db) :
                           db.obj[db.store[k]].access <= db.obj[db.store[j]].access
    BY Zenon DEF OnlyVictimsVanish
  <2>1. Spares(db, o.db, Named(c)) /\ db.store[k] # Nil
    BY Zenon, <1>1, <1>2 DEF Confined, Live
  <2> QED BY Zenon, <2>1 DEF Spares
<1>4. FailsCleanly
  BY Zenon, <1>1 DEF FailsCleanly, Confined, Acted
<1>5. KeepsExpiry
  <2> SUFFICES ASSUME NEW c \in menu, NEW o \in Run(db, c), c[1] \notin About,
                      NEW k \in Keys, View(db)[k] # <<"none">>, o.db.store[k] # Nil
               PROVE  o.db.expires[o.db.store[k]] = db.expires[db.store[k]]
    BY Zenon DEF KeepsExpiry, About
  <2>1. Keeps(db, o.db) /\ Live(db, k)
    BY Zenon, <1>1, <1>2 DEF Confined
  <2> QED BY Zenon, <2>1 DEF Keeps
<1> QED BY Zenon, <1>3, <1>4, <1>5 DEF CommandsConfined

\* internal/cmd and store.go: in every reachable state and for every command
\* line, a live key the command does not name goes only as an eviction victim,
\* a failing command changes nothing a client sees but for the failures that
\* ActsAnyway names, and only the commands about expiry or that store a new
\* object move the expiry of a live key.
THEOREM CommandsStayConfined == Spec => []CommandsConfined
<1> QED BY StoreInvariant, StoreInvConfines, PTL
---------------------------------------------------------------------------
(* Whether an expired key has been collected cannot be seen                *)

\* What a client sees of a key that holds the value v with expiry x.
Shown(v, x) == IF x # NoExpiry /\ x <= now THEN <<"none">> ELSE <<v, x>>

LEMMA ViewOf ==
  ASSUME NEW d, NEW j \in Keys
  PROVE  /\ View(d) = [i \in Keys |-> View(d)[i]]
         /\ d.store[j] # Nil => View(d)[j] = Shown(d.obj[d.store[j]].val, d.expires[d.store[j]])
         /\ d.store[j] = Nil => View(d)[j] = <<"none">>
         /\ Live(d, j) => View(d)[j] = <<d.obj[d.store[j]].val, d.expires[d.store[j]]>>
         /\ ~Live(d, j) => View(d)[j] = <<"none">>
<1>1. View(d) = [i \in Keys |-> View(d)[i]]
  BY Zenon DEF View
<1> QED BY Zenon, <1>1 DEF View, Live, Shown, Expired, hasExpired

\* e shows the same as d but for k, which it shows as w.
ShowsAt(d, e, k, w) == View(e) = [View(d) EXCEPT ![k] = w]

LEMMA ShowFacts ==
  ASSUME NEW d, NEW e, NEW k \in Keys, NEW w, View(e)[k] = w,
         \A j \in Keys : j # k => View(e)[j] = View(d)[j]
  PROVE  ShowsAt(d, e, k, w)
<1>1. View(d) = [i \in Keys |-> View(d)[i]] /\ View(e) = [i \in Keys |-> View(e)[i]]
  BY Zenon, ViewOf
<1> QED BY Zenon, <1>1 DEF ShowsAt

LEMMA SameKey ==
  ASSUME NEW d, NEW e, NEW j \in Keys, e.store[j] = d.store[j],
         d.store[j] # Nil => /\ e.obj[d.store[j]].val = d.obj[d.store[j]].val
                             /\ e.expires[d.store[j]] = d.expires[d.store[j]]
  PROVE  View(e)[j] = View(d)[j]
BY Zenon DEF View, Expired, hasExpired

LEMMA ValuedView ==
  ASSUME NEW d, Sound(d), NEW k \in Keys, Live(d, k), NEW v
  PROVE  ShowsAt(d, Valued(d, d.store[k], v), k, <<v, d.expires[d.store[k]]>>)
<1>0. PICK e : e = Valued(d, d.store[k], v)
  BY Zenon
<1>1. IsStore(d) /\ Owned(d) /\ d.store[k] \in Ptrs /\ d.store[k] # Nil
  BY Zenon DEF Sound, IsStore, Live
<1>2. /\ e.store = d.store /\ e.expires = d.expires
      /\ \A q \in Ptrs : e.obj[q].val = IF q = d.store[k] THEN v ELSE d.obj[q].val
  BY <1>0, <1>1, ValFacts
<1>3. Live(e, k) /\ e.obj[e.store[k]].val = v
  BY Zenon, <1>1, <1>2 DEF Live, Expired, hasExpired
<1>4. View(e)[k] = <<v, d.expires[d.store[k]]>>
  BY <1>2, <1>3, ViewOf
<1>5. ASSUME NEW j \in Keys, j # k PROVE View(e)[j] = View(d)[j]
  <2>1. d.store[j] # Nil => d.store[j] # d.store[k] /\ d.store[j] \in Ptrs
    BY <1>1, <1>5 DEF Owned, IsStore
  <2> QED BY <1>2, <2>1, SameKey
<1>6. ShowsAt(d, e, k, <<v, d.expires[d.store[k]]>>)
  BY Zenon, <1>4, <1>5, ShowFacts
<1> QED BY Zenon, <1>0, <1>6

LEMMA ExpiryView ==
  ASSUME NEW d, Sound(d), NEW k \in Keys, d.store[k] # Nil, NEW x \in Stamps
  PROVE  ShowsAt(d, SetUnixTimeExpiry(d, d.store[k], x), k, Shown(d.obj[d.store[k]].val, x))
<1>1. IsStore(d) /\ Owned(d) /\ d.store[k] \in Ptrs
  BY Zenon DEF Sound, IsStore
<1>2. PICK e : e = SetUnixTimeExpiry(d, d.store[k], x) /\ ExpiryAs(d, e, d.store[k], x)
  BY Zenon, <1>1, ExpiryFacts
<1>3. /\ e.store = d.store /\ e.obj = d.obj
      /\ \A q \in Ptrs : e.expires[q] = IF q = d.store[k] THEN x ELSE d.expires[q]
  BY Zenon, <1>2 DEF ExpiryAs
<1>4. View(e)[k] = Shown(d.obj[d.store[k]].val, x)
  BY <1>1, <1>3, ViewOf
<1>5. ASSUME NEW j \in Keys, j # k PROVE View(e)[j] = View(d)[j]
  <2>1. d.store[j] # Nil => d.store[j] # d.store[k] /\ d.store[j] \in Ptrs
    BY <1>1, <1>5 DEF Owned, IsStore
  <2> QED BY <1>3, <2>1, SameKey
<1>6. ShowsAt(d, e, k, Shown(d.obj[d.store[k]].val, x))
  BY Zenon, <1>4, <1>5, ShowFacts
<1> QED BY Zenon, <1>2, <1>6

LEMMA DeleteView ==
  ASSUME NEW d, Sound(d), NEW K \in SUBSET Keys
  PROVE  View(deleteKeys(d, K)) = [j \in Keys |-> IF j \in K THEN <<"none">> ELSE View(d)[j]]
<1>1. IsStore(d) /\ Owned(d)
  BY Zenon DEF Sound
<1>2. PICK e : e = deleteKeys(d, K) /\ DeleteAs(d, e, K)
  BY Zenon, <1>1, DeleteShape
<1>3. ASSUME NEW j \in K PROVE View(e)[j] = <<"none">>
  <2>1. e.store[j] = Nil
    BY Zenon, <1>2 DEF DeleteAs
  <2> QED BY Zenon, <2>1, ViewOf
<1>4. ASSUME NEW j \in Keys \ K PROVE View(e)[j] = View(d)[j]
  <2>1. e.store[j] = d.store[j] /\ e.obj = d.obj
    BY Zenon, <1>2 DEF DeleteAs
  <2>2. d.store[j] # Nil => e.expires[d.store[j]] = d.expires[d.store[j]]
    <3> SUFFICES ASSUME d.store[j] # Nil PROVE e.expires[d.store[j]] = d.expires[d.store[j]]
      BY Zenon
    <3>1. d.store[j] \in Ptrs /\ \A i \in K : d.store[i] # d.store[j]
      BY <1>1 DEF Owned, IsStore
    <3> QED BY <1>2, <3>1 DEF DeleteAs
  <2> QED BY <2>1, <2>2, SameKey
<1>5. View(e) = [j \in Keys |-> View(e)[j]]
  BY Zenon DEF View
<1> QED BY Zenon, <1>2, <1>3, <1>4, <1>5

\* Below the limit a Put evicts nothing.
LEMMA PutView ==
  ASSUME NEW d, Sound(d), d.numKeys < MaxKeys, NEW k \in Keys, NEW val, NEW ms \in Int,
         NEW keepTTL \in BOOLEAN, now \in Nat, NEW n \in PutNew(d, k, val, ms, keepTTL)
  PROVE  /\ ShowsAt(d, n, k, Shown(val, PutLife(d, k, ms, keepTTL)))
         /\ n.store[k] = Fresh(d) /\ n.store[k] \in Ptrs
         /\ n.obj[n.store[k]].val = val
         /\ n.expires[n.store[k]] = PutLife(d, k, ms, keepTTL)
<1>1. PICK V \in Evicted(d, k) : PutAs(d, n, k, val, PutLife(d, k, ms, keepTTL), V)
  BY Zenon, PutFacts
<1>2. V = {}
  BY Zenon, <1>1, VictimFacts DEF Evicted
<1>3. IsStore(d) /\ Owned(d) /\ Fresh(d) \in Ptrs /\ \A j \in Keys : d.store[j] # Fresh(d)
  BY Zenon, FreshFacts DEF Sound
<1>4. /\ n.store[k] = Fresh(d)
      /\ n.obj[Fresh(d)].val = val
      /\ n.expires[Fresh(d)] = PutLife(d, k, ms, keepTTL)
  BY <1>1, <1>3 DEF PutAs
<1>5. View(n)[k] = Shown(val, PutLife(d, k, ms, keepTTL))
  BY <1>3, <1>4, ViewOf, PtrFacts
<1>6. ASSUME NEW j \in Keys, j # k PROVE View(n)[j] = View(d)[j]
  <2>1. n.store[j] = d.store[j]
    BY <1>1, <1>2, <1>6 DEF PutAs
  <2>2. ASSUME d.store[j] # Nil
        PROVE  /\ n.obj[d.store[j]].val = d.obj[d.store[j]].val
               /\ n.expires[d.store[j]] = d.expires[d.store[j]]
    <3>1. d.store[j] \in Ptrs /\ d.store[j] # d.store[k] /\ d.store[j] # Fresh(d)
      BY <1>3, <1>6, <2>2 DEF Owned, IsStore
    <3> QED BY Zenon, <1>1, <1>2, <3>1 DEF PutAs
  <2> QED BY Zenon, <2>1, <2>2, SameKey
<1> QED BY Zenon, <1>3, <1>4, <1>5, <1>6, ShowFacts

LEMMA PutSome ==
  ASSUME NEW d, Sound(d), d.numKeys < MaxKeys, NEW k \in Keys, NEW val, NEW ms \in Int,
         NEW keepTTL \in BOOLEAN, now \in Nat
  PROVE  \E n : n \in PutNew(d, k, val, ms, keepTTL)
<1>0. PICK c : c = NewObj(d, val, ms)
  BY Zenon
<1>a. c.numKeys = d.numKeys
  <2>1. IsStore(d) /\ Owned(d)
    BY Zenon DEF Sound
  <2> QED BY Zenon, <1>0, <2>1 DEF NewObj, SetExpiry, SetUnixTimeExpiry, IsStore
<1>1. ShouldEvict(c) = 0
  BY Zenon, <1>a DEF ShouldEvict
<1>2. ASSUME NEW t PROVE {} \in Victims(t, 0)
  <2>1. Cardinality({}) = 0
    BY Zenon, FS_EmptySet
  <2>2. Cardinality(Present(t)) \in Nat
    BY Zenon, PresentFacts
  <2>3. Min({0, Cardinality(Present(t))}) = 0
    BY <2>2, MinOfTwo
  <2> QED BY Zenon, <2>1, <2>3 DEF Victims
<1>3. \A t : EvictVictims(t, 0) # {}
  BY Zenon, <1>2 DEF EvictVictims
<1>4. PICK p : p = Fresh(d)
  BY Zenon
<1>5. putHelper(c, k, p, keepTTL) # {}
  <2> DEFINE touched == [c EXCEPT !.obj[p].access = now]
  <2>1. CASE c.store[k] # Nil
    BY Zenon, <2>1 DEF putHelper
  <2>2. CASE c.store[k] = Nil
    <3>1. PICK e : e \in EvictVictims(touched, 0)
      BY Zenon, <1>3
    <3>2. PICK b : b = [[e EXCEPT !.numKeys = @ + 1] EXCEPT !.store[k] = p]
      BY Zenon
    <3>3. b \in putHelper(c, k, p, keepTTL)
      BY Zenon, <1>1, <2>2, <3>1, <3>2 DEF putHelper
    <3> QED BY Zenon, <3>3
  <2> QED BY Zenon, <2>1, <2>2
<1> QED BY Zenon, <1>0, <1>4, <1>5 DEF PutNew
\* Two stores below the limit that a client cannot tell apart,
Roomy(d)    == Sound(d) /\ d.numKeys < MaxKeys
Alike(d, e) == Roomy(d) /\ Roomy(e) /\ View(d) = View(e)

\* also after a lookup of k: both or neither find it, with the same contents.
Paired(g, h, k) ==
  /\ Alike(g, h)
  /\ g.store[k] = Nil <=> h.store[k] = Nil
  /\ g.store[k] # Nil =>
       /\ Live(g, k) /\ Live(h, k)
       /\ g.obj[g.store[k]].val = h.obj[h.store[k]].val
       /\ g.expires[g.store[k]] = h.expires[h.store[k]]

LEMMA Lookup ==
  ASSUME NEW d, Roomy(d), NEW k \in Keys, NEW touch \in BOOLEAN, NEW g, g = getHelper(d, k, touch)
  PROVE  Roomy(g) /\ View(g) = View(d) /\ (g.store[k] # Nil => Live(g, k))
<1>0. Sound(d) /\ d.numKeys \in Int /\ d.numKeys < MaxKeys /\ MaxKeys \in Int /\ IsStore(d)
  BY MaxKeysAssumption DEF Roomy, Sound, IsStore
<1>1. Reads(d, g, k)
  BY Zenon DEF Reads, Get, GetNoTouch
<1>2. Sound(g) /\ View(g) = View(d)
  BY <1>0, <1>1, ReadFacts, SameView
<1>3. \/ d.store[k] = Nil /\ g = d
      \/ Expired(d, k) /\ g = deleteKeys(d, {k})
      \/ /\ d.store[k] # Nil /\ ~Expired(d, k)
         /\ g.store = d.store /\ g.expires = d.expires /\ g.numKeys = d.numKeys
  <2>1. FetchedAs(d, g, k)
    BY Zenon, <1>0, Fetches
  <2> QED BY Zenon, <2>1 DEF FetchedAs
<1>4. CASE d.store[k] = Nil /\ g = d
  BY Zenon, <1>0, <1>2, <1>4 DEF Roomy
<1>5. CASE Expired(d, k) /\ g = deleteKeys(d, {k})
  <2>1. DeleteAs(d, g, {k})
    BY Zenon, <1>0, <1>5, DeleteShape
  <2>2. Cardinality({k}) = 1
    BY Zenon, FS_Singleton
  <2>3. g.store[k] = Nil /\ g.numKeys = d.numKeys - 1
    BY Zenon, <2>1, <2>2 DEF DeleteAs
  <2> QED BY <1>0, <1>2, <2>3 DEF Roomy
<1>6. CASE /\ d.store[k] # Nil /\ ~Expired(d, k)
           /\ g.store = d.store /\ g.expires = d.expires /\ g.numKeys = d.numKeys
  BY Zenon, <1>0, <1>2, <1>6 DEF Roomy, Live, Expired, hasExpired
<1> QED BY Zenon, <1>3, <1>4, <1>5, <1>6

LEMMA Distinguish ==
  ASSUME NEW v, NEW x PROVE <<v, x>> # <<"none">>
<1>1. Len(<<v, x>>) = 2 /\ Len(<<"none">>) = 1
  BY Zenon
<1> QED BY Zenon, <1>1

LEMMA LookupPair ==
  ASSUME NEW d, NEW e, Alike(d, e), NEW k \in Keys, NEW touch \in BOOLEAN,
         NEW g, g = getHelper(d, k, touch), NEW h, h = getHelper(e, k, touch)
  PROVE  Paired(g, h, k)
<1>1. Roomy(g) /\ View(g) = View(d) /\ (g.store[k] # Nil => Live(g, k))
  BY Zenon, Lookup DEF Alike
<1>2. Roomy(h) /\ View(h) = View(e) /\ (h.store[k] # Nil => Live(h, k))
  BY Zenon, Lookup DEF Alike
<1>3. View(g)[k] = View(h)[k]
  BY Zenon, <1>1, <1>2 DEF Alike
<1>4. /\ g.store[k] = Nil => View(g)[k] = <<"none">>
      /\ h.store[k] = Nil => View(h)[k] = <<"none">>
      /\ g.store[k] # Nil => View(g)[k] = <<g.obj[g.store[k]].val, g.expires[g.store[k]]>>
      /\ h.store[k] # Nil => View(h)[k] = <<h.obj[h.store[k]].val, h.expires[h.store[k]]>>
  BY Zenon, <1>1, <1>2, ViewOf
<1>5. g.store[k] = Nil <=> h.store[k] = Nil
  BY <1>3, <1>4, Distinguish
<1>6. ASSUME g.store[k] # Nil
      PROVE  /\ g.obj[g.store[k]].val = h.obj[h.store[k]].val
             /\ g.expires[g.store[k]] = h.expires[h.store[k]]
  <2>1. <<g.obj[g.store[k]].val, g.expires[g.store[k]]>> =
          <<h.obj[h.store[k]].val, h.expires[h.store[k]]>>
    BY Zenon, <1>3, <1>4, <1>5, <1>6
  <2> QED BY Zenon, <2>1
<1>7. Alike(g, h)
  BY Zenon, <1>1, <1>2 DEF Alike
<1> QED BY Zenon, <1>1, <1>2, <1>5, <1>6, <1>7 DEF Paired

LEMMA GetPair ==
  ASSUME NEW d, NEW e, Alike(d, e), NEW k \in Keys
  PROVE  Paired(Get(d, k), Get(e, k), k) /\ Paired(GetNoTouch(d, k), GetNoTouch(e, k), k)
<1>1. \A t \in BOOLEAN : Paired(getHelper(d, k, t), getHelper(e, k, t), k)
  BY Zenon, LookupPair
<1> QED BY Zenon, <1>1 DEF Get, GetNoTouch

\* Both hold k, with the same contents.
Twins(g, h, k) ==
  /\ Sound(g) /\ Sound(h) /\ View(g) = View(h)
  /\ Live(g, k) /\ Live(h, k)
  /\ g.obj[g.store[k]].val = h.obj[h.store[k]].val
  /\ g.expires[g.store[k]] = h.expires[h.store[k]]

LEMMA PairTwins ==
  ASSUME NEW g, NEW h, NEW k, Paired(g, h, k), g.store[k] # Nil PROVE Twins(g, h, k)
BY Zenon DEF Paired, Twins, Alike, Roomy

\* In-place writes, new expiries and deletions of a pair show the same.
LEMMA WritePair ==
  ASSUME NEW k \in Keys, NEW g, NEW h, Twins(g, h, k), NEW v
  PROVE  View(Valued(g, g.store[k], v)) = View(Valued(h, h.store[k], v))
<1>1. /\ Sound(g) /\ Sound(h) /\ Live(g, k) /\ Live(h, k)
      /\ g.expires[g.store[k]] = h.expires[h.store[k]] /\ View(g) = View(h)
  BY Zenon DEF Twins
<1>2. /\ ShowsAt(g, Valued(g, g.store[k], v), k, <<v, g.expires[g.store[k]]>>)
      /\ ShowsAt(h, Valued(h, h.store[k], v), k, <<v, h.expires[h.store[k]]>>)
  BY Zenon, <1>1, ValuedView
<1> QED BY Zenon, <1>1, <1>2 DEF ShowsAt

LEMMA TimePair ==
  ASSUME NEW k \in Keys, NEW g, NEW h, Paired(g, h, k), g.store[k] # Nil, NEW x \in Stamps
  PROVE  View(SetUnixTimeExpiry(g, g.store[k], x)) = View(SetUnixTimeExpiry(h, h.store[k], x))
<1>1. /\ Sound(g) /\ Sound(h) /\ h.store[k] # Nil
      /\ g.obj[g.store[k]].val = h.obj[h.store[k]].val /\ View(g) = View(h)
  BY Zenon DEF Paired, Alike, Roomy
<1>2. /\ ShowsAt(g, SetUnixTimeExpiry(g, g.store[k], x), k, Shown(g.obj[g.store[k]].val, x))
      /\ ShowsAt(h, SetUnixTimeExpiry(h, h.store[k], x), k, Shown(h.obj[h.store[k]].val, x))
  BY Zenon, <1>1, ExpiryView
<1> QED BY Zenon, <1>1, <1>2 DEF ShowsAt

LEMMA DeletePair ==
  ASSUME NEW k \in Keys, NEW g, NEW h, Paired(g, h, k), g.store[k] # Nil
  PROVE  View(GetDel(g, k)) = View(GetDel(h, k))
<1>1. /\ Sound(g) /\ Sound(h) /\ h.store[k] # Nil /\ View(g) = View(h)
      /\ IsStore(g) /\ IsStore(h) /\ {k} \in SUBSET Keys
  BY Zenon DEF Paired, Alike, Roomy, Sound
<1>2. GetDel(g, k) = deleteKeys(g, {k}) /\ GetDel(h, k) = deleteKeys(h, {k})
  BY Zenon, <1>1, DeleteOne DEF GetDel, Del
<1>3. /\ View(deleteKeys(g, {k})) = [j \in Keys |-> IF j \in {k} THEN <<"none">> ELSE View(g)[j]]
      /\ View(deleteKeys(h, {k})) = [j \in Keys |-> IF j \in {k} THEN <<"none">> ELSE View(h)[j]]
  BY <1>1, DeleteView
<1> QED BY Zenon, <1>1, <1>2, <1>3

\* So does a new object, filled afterwards or not.
LEMMA PutPair ==
  ASSUME NEW k \in Keys, NEW g, NEW h, Paired(g, h, k), now \in Nat, NEW val, NEW ms \in Int,
         NEW keepTTL \in BOOLEAN, NEW n \in PutNew(g, k, val, ms, keepTTL)
  PROVE  \E m \in PutNew(h, k, val, ms, keepTTL) : View(n) = View(m)
<1>1. /\ Sound(g) /\ g.numKeys < MaxKeys /\ Sound(h) /\ h.numKeys < MaxKeys
      /\ View(g) = View(h)
  BY Zenon DEF Paired, Alike, Roomy
<1>2. PICK m : m \in PutNew(h, k, val, ms, keepTTL)
  BY Zenon, <1>1, PutSome
<1>3. PutLife(g, k, ms, keepTTL) = PutLife(h, k, ms, keepTTL)
  BY Zenon DEF PutLife, Paired
<1>4. ShowsAt(g, n, k, Shown(val, PutLife(g, k, ms, keepTTL)))
  BY Zenon, <1>1, PutView
<1>5. ShowsAt(h, m, k, Shown(val, PutLife(h, k, ms, keepTTL)))
  BY Zenon, <1>1, <1>2, PutView
<1> QED BY Zenon, <1>1, <1>2, <1>3, <1>4, <1>5 DEF ShowsAt
LEMMA FillPair ==
  ASSUME NEW k \in Keys, NEW g, NEW h, Paired(g, h, k), now \in Nat, NEW val, val[1] # "free",
         NEW ms \in Int, ms < 0, NEW n \in PutNew(g, k, val, ms, FALSE)
  PROVE  \E m \in PutNew(h, k, val, ms, FALSE) : Twins(n, m, k)
<1>a. FALSE \in BOOLEAN
  BY Zenon
<1>0. PICK keepTTL \in BOOLEAN : keepTTL = FALSE
  BY <1>a, Zenon
<1>1. /\ Sound(g) /\ g.numKeys < MaxKeys /\ Sound(h) /\ h.numKeys < MaxKeys
      /\ View(g) = View(h)
  BY Zenon DEF Paired, Alike, Roomy
<1>2. n \in PutNew(g, k, val, ms, keepTTL)
  BY Zenon, <1>0
<1>3. PICK m \in PutNew(h, k, val, ms, keepTTL) : View(n) = View(m)
  BY <1>2, PutPair
<1>4. Sound(n) /\ Sound(m)
  <2>1. PICK V \in Evicted(g, k) : PutAs(g, n, k, val, PutLife(g, k, ms, keepTTL), V)
    BY Zenon, <1>1, <1>2, PutFacts
  <2>2. PICK W \in Evicted(h, k) : PutAs(h, m, k, val, PutLife(h, k, ms, keepTTL), W)
    BY Zenon, <1>1, <1>3, PutFacts
  <2> QED BY Zenon, <1>1, <2>1, <2>2, SoundPut
<1>5. PutLife(g, k, ms, keepTTL) = NoExpiry /\ PutLife(h, k, ms, keepTTL) = NoExpiry
  BY <1>0 DEF PutLife, Life
<1>6. /\ n.store[k] \in Ptrs /\ n.obj[n.store[k]].val = val /\ n.expires[n.store[k]] = NoExpiry
      /\ m.store[k] \in Ptrs /\ m.obj[m.store[k]].val = val /\ m.expires[m.store[k]] = NoExpiry
  BY <1>1, <1>2, <1>3, <1>5, PutView
<1>7. Live(n, k) /\ Live(m, k)
  BY Zenon, <1>6, PtrFacts DEF Live, Expired, hasExpired
<1>8. m \in PutNew(h, k, val, ms, FALSE)
  BY Zenon, <1>0, <1>3
<1>9. Twins(n, m, k)
  BY Zenon, <1>3, <1>4, <1>6, <1>7 DEF Twins
<1> QED BY Zenon, <1>8, <1>9

\* Every outcome in O is one in Q as far as a client can see.
Same(O, Q) ==
  \A o \in O : \E q \in Q : o.st = q.st /\ o.res = q.res /\ View(o.db) = View(q.db)

LEMMA SameReplies ==
  ASSUME NEW d, NEW e, View(d) = View(e), NEW r, NEW nil
  PROVE  /\ Same(Ok(d, r), Ok(e, r)) /\ Same(Err(d), Err(e))
         /\ Same(Shared(d, r, nil), Shared(e, r, nil))
         /\ Same(ValueReply(d, r), ValueReply(e, r))
<1>1. ASSUME NEW st, NEW p, NEW n PROVE Same(Reply(d, st, p, n), Reply(e, st, p, n))
  BY DEF Same, Reply
<1> QED BY Zenon, <1>1 DEF Ok, Err, ErrStatus, Shared, ValueReply

LEMMA SamePuts ==
  ASSUME NEW k \in Keys, NEW g, NEW h, Paired(g, h, k), now \in Nat, NEW val, NEW ms \in Int,
         NEW keepTTL \in BOOLEAN, NEW r
  PROVE  /\ Same(OkEach(PutNew(g, k, val, ms, keepTTL), r), OkEach(PutNew(h, k, val, ms, keepTTL), r))
         /\ Same(UNION {ValueReply(n, r) : n \in PutNew(g, k, val, ms, keepTTL)},
                 UNION {ValueReply(m, r) : m \in PutNew(h, k, val, ms, keepTTL)})
<1> DEFINE G == PutNew(g, k, val, ms, keepTTL)
           H == PutNew(h, k, val, ms, keepTTL)
<1>1. \A n \in G : \E m \in H : View(n) = View(m)
  BY PutPair
<1> HIDE DEF G, H
<1>2. Same(OkEach(G, r), OkEach(H, r))
  <2> SUFFICES ASSUME NEW n \in G, NEW o \in Ok(n, r)
               PROVE  \E q \in OkEach(H, r) : o.st = q.st /\ o.res = q.res /\ View(o.db) = View(q.db)
    BY DEF Same, OkEach
  <2>1. PICK m \in H : View(n) = View(m)
    BY Zenon, <1>1
  <2>2. Same(Ok(n, r), Ok(m, r))
    BY Zenon, <2>1, SameReplies
  <2> QED BY Zenon, <2>1, <2>2 DEF Same, OkEach
<1>3. Same(UNION {ValueReply(n, r) : n \in G}, UNION {ValueReply(m, r) : m \in H})
  <2> SUFFICES ASSUME NEW n \in G, NEW o \in ValueReply(n, r)
               PROVE  \E q \in UNION {ValueReply(m, r) : m \in H} :
                        o.st = q.st /\ o.res = q.res /\ View(o.db) = View(q.db)
    BY DEF Same
  <2>1. PICK m \in H : View(n) = View(m)
    BY <1>1
  <2>2. Same(ValueReply(n, r), ValueReply(m, r))
    BY Zenon, <2>1, SameReplies
  <2> QED BY Zenon, <2>1, <2>2 DEF Same
<1> QED BY Zenon, <1>2, <1>3 DEF G, H
LEMMA SameWire ==
  ASSUME NEW k, NEW g, NEW h, Paired(g, h, k)
  PROVE  getWireValueFromObj(g, g.store[k]) = getWireValueFromObj(h, h.store[k])
<1>1. CASE g.store[k] = Nil
  <2>1. h.store[k] = Nil
    BY Zenon, <1>1 DEF Paired
  <2> QED BY Zenon, <1>1, <2>1 DEF getWireValueFromObj
<1>2. CASE g.store[k] # Nil
  <2>1. h.store[k] # Nil /\ g.obj[g.store[k]].val = h.obj[h.store[k]].val
    BY Zenon, <1>2 DEF Paired
  <2>2. Type(g, g.store[k]) = Type(h, h.store[k]) /\ Data(g, g.store[k]) = Data(h, h.store[k])
    BY Zenon, <2>1 DEF Type, Data
  <2> QED BY Zenon, <1>2, <2>1, <2>2 DEF getWireValueFromObj
<1> QED BY Zenon, <1>1, <1>2

LEMMA PairFacts ==
  ASSUME NEW k, NEW g, NEW h, Paired(g, h, k)
  PROVE  /\ View(g) = View(h)
         /\ g.store[k] = Nil <=> h.store[k] = Nil
         /\ g.store[k] # Nil => /\ Type(g, g.store[k]) = Type(h, h.store[k])
                                /\ Data(g, g.store[k]) = Data(h, h.store[k])
                                /\ g.expires[g.store[k]] = h.expires[h.store[k]]
                                /\ Twins(g, h, k)
BY Zenon, PairTwins DEF Paired, Alike, Type, Data

LEMMA SameKeyReads ==
  ASSUME NEW d, NEW e, Alike(d, e), NEW a, a[1] \in Keys
  PROVE  /\ Same(evalGET(d, a), evalGET(e, a)) /\ Same(evalTTL(d, a), evalTTL(e, a))
         /\ Same(evalEXPIRETIME(d, a), evalEXPIRETIME(e, a))
         /\ Same(evalTYPE(d, a), evalTYPE(e, a))
<1>0. PICK k \in Keys : k = a[1]
  BY Zenon
<1>1. PICK g, h : g = Get(d, k) /\ h = Get(e, k) /\ Paired(g, h, k)
  BY Zenon, GetPair
<1>2. /\ View(g) = View(h)
      /\ g.store[k] = Nil <=> h.store[k] = Nil
      /\ g.store[k] # Nil => /\ Type(g, g.store[k]) = Type(h, h.store[k])
                             /\ g.expires[g.store[k]] = h.expires[h.store[k]]
  BY <1>1, PairFacts
<1>3. \A r : Same(Ok(g, r), Ok(h, r)) /\ Same(ValueReply(g, r), ValueReply(h, r))
  BY Zenon, <1>2, SameReplies
<1>4. Same(evalGET(d, a), evalGET(e, a))
  <2>1. getWireValueFromObj(g, g.store[k]) = getWireValueFromObj(h, h.store[k])
    BY Zenon, <1>1, SameWire
  <2> QED BY Zenon, <1>0, <1>1, <1>3, <2>1 DEF evalGET
<1>5. Same(evalTTL(d, a), evalTTL(e, a))
  BY Zenon, <1>0, <1>1, <1>2, <1>3 DEF evalTTL, ExpiryOf
<1>6. Same(evalEXPIRETIME(d, a), evalEXPIRETIME(e, a))
  BY Zenon, <1>0, <1>1, <1>2, <1>3 DEF evalEXPIRETIME, ExpiryOf
<1>7. Same(evalTYPE(d, a), evalTYPE(e, a))
  BY Zenon, <1>0, <1>1, <1>2, <1>3 DEF evalTYPE
<1> QED BY Zenon, <1>4, <1>5, <1>6, <1>7

LEMMA SameSet ==
  ASSUME NEW d, NEW e, Alike(d, e), NEW a, a[1] \in Keys, now \in Nat,
         \A opt \in DOMAIN a[3] : a[3][opt] \in Int
  PROVE  Same(evalSET(d, a), evalSET(e, a))
<1>0. PICK k \in Keys : k = a[1]
  BY Zenon
<1>1. PICK g, h : g = Get(d, k) /\ h = Get(e, k) /\ Paired(g, h, k)
  BY Zenon, GetPair
<1>2. View(d) = View(e) /\ View(g) = View(h) /\ (g.store[k] = Nil <=> h.store[k] = Nil)
  BY Zenon, <1>1, PairFacts DEF Alike
<1>3. Duration(a[3]) \in Int
  BY DurationFacts
<1>a. ("KEEPTTL" \in DOMAIN a[3]) \in BOOLEAN
  OBVIOUS
<1>4. PICK keep \in BOOLEAN : keep = ("KEEPTTL" \in DOMAIN a[3])
  BY <1>a, Zenon
<1>5. PICK val : val = CreateObjectFromValue(a[2])
  BY Zenon
<1>6. Same(OkEach(PutNew(g, k, val, Duration(a[3]), keep), <<>>),
           OkEach(PutNew(h, k, val, Duration(a[3]), keep), <<>>))
  BY Zenon, <1>1, <1>3, SamePuts
<1>7. Same(Ok(g, <<>>), Ok(h, <<>>)) /\ Same(Err(d), Err(e))
  BY Zenon, <1>2, SameReplies
<1> QED BY Zenon, <1>0, <1>1, <1>2, <1>4, <1>5, <1>6, <1>7 DEF evalSET

LEMMA SameGetSet ==
  ASSUME NEW d, NEW e, Alike(d, e), NEW a, a[1] \in Keys, now \in Nat
  PROVE  Same(evalGETSET(d, a), evalGETSET(e, a))
<1>0. PICK k \in Keys : k = a[1]
  BY Zenon
<1>1. PICK g, h : g = Get(d, k) /\ h = Get(e, k) /\ Paired(g, h, k)
  BY Zenon, GetPair
<1>2. PICK r : r = getWireValueFromObj(g, g.store[k]) /\ r = getWireValueFromObj(h, h.store[k])
  BY Zenon, <1>1, SameWire
<1>3. PICK val : val = CreateObjectFromValue(a[2])
  BY Zenon
<1>a. -1 \in Int /\ FALSE \in BOOLEAN
  OBVIOUS
<1>4. PICK ms \in Int, keep \in BOOLEAN : ms = -1 /\ keep = FALSE
  BY <1>a, Zenon
<1>b. Same(UNION {ValueReply(n, r) : n \in PutNew(g, k, val, ms, keep)},
           UNION {ValueReply(m, r) : m \in PutNew(h, k, val, ms, keep)})
  BY <1>1, SamePuts
<1>5. Same(UNION {ValueReply(n, r) : n \in PutNew(g, k, val, -1, FALSE)},
           UNION {ValueReply(m, r) : m \in PutNew(h, k, val, -1, FALSE)})
  BY Zenon, <1>4, <1>b
<1> QED BY <1>0, <1>1, <1>2, <1>3, <1>5, Zenon DEF evalGETSET

LEMMA SameIncr ==
  ASSUME NEW d, NEW e, Alike(d, e), NEW k \in Keys, now \in Nat, NEW delta
  PROVE  Same(doIncr(d, k, delta), doIncr(e, k, delta))
<1>1. PICK g, h : g = Get(d, k) /\ h = Get(e, k) /\ Paired(g, h, k)
  BY Zenon, GetPair
<1>2. /\ View(g) = View(h)
      /\ g.store[k] = Nil <=> h.store[k] = Nil
      /\ g.store[k] # Nil => /\ Type(g, g.store[k]) = Type(h, h.store[k])
                             /\ Data(g, g.store[k]) = Data(h, h.store[k])
                             /\ Twins(g, h, k)
  BY <1>1, PairFacts
<1>3. CASE g.store[k] = Nil
  <2>1. PICK val : val = <<"int", delta>>
    BY Zenon
  <2>2. -1 \in Int /\ FALSE \in BOOLEAN
    OBVIOUS
  <2>3. Same(OkEach(PutNew(g, k, val, -1, FALSE), <<delta>>),
             OkEach(PutNew(h, k, val, -1, FALSE), <<delta>>))
    BY <1>1, <2>2, SamePuts, Zenon
  <2>4. /\ doIncr(d, k, delta) = OkEach(PutNew(g, k, val, -1, FALSE), <<delta>>)
        /\ doIncr(e, k, delta) = OkEach(PutNew(h, k, val, -1, FALSE), <<delta>>)
    BY Zenon, <1>1, <1>2, <1>3, <2>1 DEF doIncr
  <2> QED BY Zenon, <2>3, <2>4
<1>4. CASE g.store[k] # Nil /\ Type(g, g.store[k]) # "int"
  <2>1. doIncr(d, k, delta) = Err(g) /\ doIncr(e, k, delta) = Err(h)
    BY Zenon, <1>1, <1>2, <1>4 DEF doIncr
  <2> QED BY Zenon, <1>2, <2>1, SameReplies
<1>5. CASE g.store[k] # Nil /\ Type(g, g.store[k]) = "int"
  <2>1. PICK n : n = Wrap(Data(g, g.store[k]) + delta) /\ n = Wrap(Data(h, h.store[k]) + delta)
    BY Zenon, <1>2, <1>5
  <2>2. PICK v : v = <<"int", n>>
    BY Zenon
  <2>3. /\ doIncr(d, k, delta) = Ok(Valued(g, g.store[k], v), <<n>>)
        /\ doIncr(e, k, delta) = Ok(Valued(h, h.store[k], v), <<n>>)
    BY Zenon, <1>1, <1>2, <1>5, <2>1, <2>2 DEF doIncr, Valued
  <2>4. View(Valued(g, g.store[k], v)) = View(Valued(h, h.store[k], v))
    BY <1>2, <1>5, WritePair
  <2> QED BY Zenon, <2>3, <2>4, SameReplies
<1> QED BY Zenon, <1>3, <1>4, <1>5

LEMMA SameCounters ==
  ASSUME NEW d, NEW e, Alike(d, e), NEW a, a[1] \in Keys, now \in Nat
  PROVE  /\ Same(evalINCR(d, a), evalINCR(e, a)) /\ Same(evalDECR(d, a), evalDECR(e, a))
         /\ Same(evalINCRBY(d, a), evalINCRBY(e, a)) /\ Same(evalDECRBY(d, a), evalDECRBY(e, a))
<1>1. \A delta : Same(doIncr(d, a[1], delta), doIncr(e, a[1], delta))
  BY Zenon, SameIncr
<1>2. Same(Err(d), Err(e))
  BY Zenon, SameReplies DEF Alike
<1> QED BY Zenon, <1>1, <1>2 DEF evalINCR, evalDECR, evalINCRBY, evalDECRBY
LEMMA SameGetDel ==
  ASSUME NEW d, NEW e, Alike(d, e), NEW a, a[1] \in Keys
  PROVE  Same(evalGETDEL(d, a), evalGETDEL(e, a))
<1>0. PICK k \in Keys : k = a[1]
  OBVIOUS
<1>1. PICK g, h : g = GetNoTouch(d, k) /\ h = GetNoTouch(e, k) /\ Paired(g, h, k)
  BY Zenon, GetPair
<1>2. View(g) = View(h) /\ (g.store[k] = Nil <=> h.store[k] = Nil)
  BY Zenon, <1>1, PairFacts
<1>3. PICK r : r = getWireValueFromObj(g, g.store[k]) /\ r = getWireValueFromObj(h, h.store[k])
  BY Zenon, <1>1, SameWire
<1>4. CASE g.store[k] = Nil
  <2>1. Same(Ok(g, r), Ok(h, r))
    BY Zenon, <1>2, SameReplies
  <2> QED BY Zenon, <1>0, <1>1, <1>2, <1>3, <1>4, <2>1 DEF evalGETDEL
<1>5. CASE g.store[k] # Nil
  <2>1. View(GetDel(g, k)) = View(GetDel(h, k))
    BY Zenon, <1>1, <1>5, DeletePair
  <2>2. Same(ValueReply(GetDel(g, k), r), ValueReply(GetDel(h, k), r))
    BY Zenon, <2>1, SameReplies
  <2> QED BY Zenon, <1>0, <1>1, <1>2, <1>3, <1>5, <2>2 DEF evalGETDEL
<1> QED BY Zenon, <1>4, <1>5

LEMMA SameGetEx ==
  ASSUME NEW d, NEW e, Alike(d, e), NEW a, a[1] \in Keys, now \in Nat,
         \A opt \in DOMAIN a[2] : a[2][opt] \in Int
  PROVE  Same(evalGETEX(d, a), evalGETEX(e, a))
<1>0. PICK k \in Keys : k = a[1]
  BY Zenon
<1>1. PICK g, h : g = Get(d, k) /\ h = Get(e, k) /\ Paired(g, h, k)
  BY Zenon, GetPair
<1>2. View(d) = View(e) /\ View(g) = View(h) /\ (g.store[k] = Nil <=> h.store[k] = Nil)
  BY Zenon, <1>1, PairFacts DEF Alike
<1>3. PICK ms \in Nat \cup {-1, -2} : ms = Duration(a[2])
  BY Zenon, DurationFacts
<1>4. CASE incompatible(a[2]) \/ ms = -2
  <2>1. evalGETEX(d, a) = Err(d) /\ evalGETEX(e, a) = Err(e)
    BY Zenon, <1>3, <1>4 DEF evalGETEX
  <2> QED BY Zenon, <1>2, <2>1, SameReplies
<1>5. CASE ~(incompatible(a[2]) \/ ms = -2) /\ g.store[k] = Nil
  <2>1. PICK r : r = getWireValueFromObj(g, Nil) /\ r = getWireValueFromObj(h, Nil)
    BY Zenon DEF getWireValueFromObj
  <2>2. evalGETEX(d, a) = Ok(g, r) /\ evalGETEX(e, a) = Ok(h, r)
    BY Zenon, <1>0, <1>1, <1>2, <1>3, <1>5, <2>1 DEF evalGETEX
  <2> QED BY Zenon, <1>2, <2>2, SameReplies
<1>6. CASE ~(incompatible(a[2]) \/ ms = -2) /\ g.store[k] # Nil
  <2>1. PICK r : r = getWireValueFromObj(g, g.store[k]) /\ r = getWireValueFromObj(h, h.store[k])
    BY Zenon, <1>1, SameWire
  <2>2. \A x \in Stamps : View(SetUnixTimeExpiry(g, g.store[k], x)) =
                            View(SetUnixTimeExpiry(h, h.store[k], x))
    BY Zenon, <1>1, <1>6, TimePair
  <2>3. CASE "PERSIST" \in DOMAIN a[2]
    <3>1. NoExpiry \in Stamps
      BY Zenon DEF Stamps
    <3>2. /\ evalGETEX(d, a) = ValueReply(SetUnixTimeExpiry(g, g.store[k], NoExpiry), r)
          /\ evalGETEX(e, a) = ValueReply(SetUnixTimeExpiry(h, h.store[k], NoExpiry), r)
      BY Zenon, <1>0, <1>1, <1>2, <1>3, <1>6, <2>1, <2>3 DEF evalGETEX, DelExpiry, SetUnixTimeExpiry
    <3> QED BY Zenon, <2>2, <3>1, <3>2, SameReplies
  <2>4. CASE "PERSIST" \notin DOMAIN a[2] /\ ms # -1
    <3>1. now + ms \in Stamps
      BY <1>3, <1>6, <2>4 DEF Stamps
    <3>2. /\ evalGETEX(d, a) = ValueReply(SetUnixTimeExpiry(g, g.store[k], now + ms), r)
          /\ evalGETEX(e, a) = ValueReply(SetUnixTimeExpiry(h, h.store[k], now + ms), r)
      BY Zenon, <1>0, <1>1, <1>2, <1>3, <1>6, <2>1, <2>4 DEF evalGETEX, SetExpiry
    <3> QED BY Zenon, <2>2, <3>1, <3>2, SameReplies
  <2>5. CASE "PERSIST" \notin DOMAIN a[2] /\ ms = -1
    <3>1. evalGETEX(d, a) = ValueReply(g, r) /\ evalGETEX(e, a) = ValueReply(h, r)
      BY Zenon, <1>0, <1>1, <1>2, <1>3, <1>6, <2>1, <2>5 DEF evalGETEX
    <3> QED BY Zenon, <1>2, <3>1, SameReplies
  <2> QED BY Zenon, <2>3, <2>4, <2>5
<1> QED BY Zenon, <1>4, <1>5, <1>6

LEMMA SameExpiry ==
  ASSUME NEW d, NEW e, Alike(d, e), NEW k \in Keys, NEW ms \in Nat, NEW opts
  PROVE  Same(ExpiryReply(EvaluateAndSetExpiry(d, k, ms, opts)),
              ExpiryReply(EvaluateAndSetExpiry(e, k, ms, opts)))
<1>1. PICK g, h : g = Get(d, k) /\ h = Get(e, k) /\ Paired(g, h, k)
  BY Zenon, GetPair
<1>2. /\ View(g) = View(h)
      /\ g.store[k] = Nil <=> h.store[k] = Nil
      /\ g.store[k] # Nil => g.expires[g.store[k]] = h.expires[h.store[k]]
  BY <1>1, PairFacts
<1>3. PICK b, c : /\ b = SetUnixTimeExpiry(g, g.store[k], ms)
                  /\ c = SetUnixTimeExpiry(h, h.store[k], ms)
                  /\ g.store[k] # Nil => View(b) = View(c)
  <2>1. ms \in Stamps
    BY Zenon DEF Stamps
  <2> QED BY <1>1, <2>1, TimePair
<1>4. \/ \E ans \in {"err", "unset"} : /\ EvaluateAndSetExpiry(d, k, ms, opts) = <<g, ans>>
                                       /\ EvaluateAndSetExpiry(e, k, ms, opts) = <<h, ans>>
      \/ /\ g.store[k] # Nil
         /\ \E ans \in {"set", "unset"} : /\ EvaluateAndSetExpiry(d, k, ms, opts) = <<b, ans>>
                                          /\ EvaluateAndSetExpiry(e, k, ms, opts) = <<c, ans>>
  <2>1. CASE g.store[k] = Nil
    BY Zenon, <1>1, <1>2, <2>1 DEF EvaluateAndSetExpiry
  <2>2. CASE g.store[k] # Nil
    BY Zenon, <1>1, <1>2, <1>3, <2>2 DEF EvaluateAndSetExpiry
  <2> QED BY Zenon, <2>1, <2>2
<1>5. ASSUME NEW x, NEW y, View(x) = View(y), NEW ans
      PROVE  Same(ExpiryReply(<<x, ans>>), ExpiryReply(<<y, ans>>))
  BY Zenon, <1>5, SameReplies DEF ExpiryReply
<1> QED BY Zenon, <1>2, <1>3, <1>4, <1>5

LEMMA SameExpires ==
  ASSUME NEW d, NEW e, Alike(d, e), NEW a, a[1] \in Keys, a[2] \in Int, now \in Nat
  PROVE  /\ Same(evalEXPIRE(d, a), evalEXPIRE(e, a))
         /\ Same(evalEXPIREAT(d, a), evalEXPIREAT(e, a))
<1>1. Same(Err(d), Err(e))
  BY Zenon, SameReplies DEF Alike
<1>2. ASSUME a[2] >= 0 PROVE a[2] * MsPerSec \in Nat /\ now + a[2] * MsPerSec \in Nat
  <2>1. a[2] \in Nat /\ MsPerSec \in Nat
    BY <1>2, ClockAssumption
  <2>2. \A i, j \in Nat : i * j \in Nat
    OBVIOUS
  <2> QED BY <2>1, <2>2
<1>3. Same(evalEXPIRE(d, a), evalEXPIRE(e, a))
  BY <1>1, <1>2, SameExpiry DEF evalEXPIRE
<1>4. Same(evalEXPIREAT(d, a), evalEXPIREAT(e, a))
  BY <1>1, <1>2, SameExpiry DEF evalEXPIREAT
<1> QED BY Zenon, <1>3, <1>4
LEMMA SameHashReads ==
  ASSUME NEW d, NEW e, Alike(d, e), NEW a, a[1] \in Keys
  PROVE  Same(evalHGET(d, a), evalHGET(e, a)) /\ Same(evalHGETALL(d, a), evalHGETALL(e, a))
<1>0. PICK k \in Keys : k = a[1]
  OBVIOUS
<1>1. PICK g, h : g = Get(d, k) /\ h = Get(e, k) /\ Paired(g, h, k)
  BY GetPair
<1>2. /\ View(g) = View(h)
      /\ g.store[k] = Nil <=> h.store[k] = Nil
      /\ g.store[k] # Nil => /\ Type(g, g.store[k]) = Type(h, h.store[k])
                             /\ Data(g, g.store[k]) = Data(h, h.store[k])
  BY <1>1, PairFacts
<1>3. Same(Err(g), Err(h)) /\ \A r, nil : /\ Same(Ok(g, r), Ok(h, r))
                                          /\ Same(Shared(g, r, nil), Shared(h, r, nil))
  BY Zenon, <1>2, SameReplies
<1>4. Same(evalHGET(d, a), evalHGET(e, a))
  BY Zenon, <1>0, <1>1, <1>2, <1>3 DEF evalHGET, OnType
<1>5. Same(evalHGETALL(d, a), evalHGETALL(e, a))
  BY Zenon, <1>0, <1>1, <1>2, <1>3 DEF evalHGETALL, OnType
<1> QED BY Zenon, <1>4, <1>5

\* HSET once its key has been looked up, m being the map found.
HashPut(g, p, m, a) ==
  LET kvs   == Tail(a)
      pairs == [i \in 1 .. Len(kvs) \div 2 |-> kvs[2 * i - 1] :> kvs[2 * i]]
      new   == LeftFold(LAMBDA acc, f : f @@ acc, m, pairs)
  IN  IF p # Nil /\ Type(g, p) # "ssmap" THEN Err(g)
      ELSE IF Len(kvs) % 2 = 1 THEN Err(g)
      ELSE OkEach(PutNew(g, a[1], <<"ssmap", new>>, -1, FALSE),
                  <<Cardinality(DOMAIN new \ DOMAIN m)>>)

LEMMA SameHset ==
  ASSUME NEW d, NEW e, Alike(d, e), NEW a, a[1] \in Keys, now \in Nat
  PROVE  Same(evalHSET(d, a), evalHSET(e, a))
<1>0. PICK k \in Keys : k = a[1]
  OBVIOUS
<1>1. PICK g, h : g = Get(d, k) /\ h = Get(e, k) /\ Paired(g, h, k)
  BY GetPair
<1>2. /\ View(g) = View(h)
      /\ g.store[k] = Nil <=> h.store[k] = Nil
      /\ g.store[k] # Nil => /\ Type(g, g.store[k]) = Type(h, h.store[k])
                             /\ Data(g, g.store[k]) = Data(h, h.store[k])
  BY <1>1, PairFacts
<1>3. PICK m : /\ m = IF g.store[k] = Nil THEN <<>> ELSE Data(g, g.store[k])
               /\ m = IF h.store[k] = Nil THEN <<>> ELSE Data(h, h.store[k])
  BY Zenon, <1>2
<1>4. /\ evalHSET(d, a) = HashPut(g, g.store[k], m, a)
      /\ evalHSET(e, a) = HashPut(h, h.store[k], m, a)
  <2>1. ASSUME NEW b
        PROVE  evalHSET(b, a) = HashPut(Get(b, a[1]), Get(b, a[1]).store[a[1]],
                                        IF Get(b, a[1]).store[a[1]] = Nil THEN <<>>
                                        ELSE Data(Get(b, a[1]), Get(b, a[1]).store[a[1]]), a)
    BY Zenon DEF evalHSET, HashPut
  <2> QED BY Zenon, <1>0, <1>1, <1>3, <2>1
<1>5. Same(Err(g), Err(h))
  BY Zenon, <1>2, SameReplies
<1>6. -1 \in Int /\ FALSE \in BOOLEAN
  OBVIOUS
<1>7. \A val, r : Same(OkEach(PutNew(g, k, val, -1, FALSE), r),
                       OkEach(PutNew(h, k, val, -1, FALSE), r))
  BY <1>1, <1>6, SamePuts, Zenon
<1> DEFINE pairs == [i \in 1 .. Len(Tail(a)) \div 2 |-> Tail(a)[2 * i - 1] :> Tail(a)[2 * i]]
<1>8. PICK new : new = LeftFold(LAMBDA acc, f : f @@ acc, m, pairs)
  BY Zenon
<1>9. \/ HashPut(g, g.store[k], m, a) = Err(g) /\ HashPut(h, h.store[k], m, a) = Err(h)
      \/ \E val, r : /\ HashPut(g, g.store[k], m, a) = OkEach(PutNew(g, k, val, -1, FALSE), r)
                     /\ HashPut(h, h.store[k], m, a) = OkEach(PutNew(h, k, val, -1, FALSE), r)
  <2>1. PICK val, r : val = <<"ssmap", new>> /\ r = <<Cardinality(DOMAIN new \ DOMAIN m)>>
    BY Zenon
  <2>2. CASE g.store[k] # Nil /\ Type(g, g.store[k]) # "ssmap"
    BY <1>2, <2>2, Zenon DEF HashPut
  <2>3. CASE ~(g.store[k] # Nil /\ Type(g, g.store[k]) # "ssmap") /\ Len(Tail(a)) % 2 = 1
    BY <1>2, <2>3, Zenon DEF HashPut
  <2>4. CASE ~(g.store[k] # Nil /\ Type(g, g.store[k]) # "ssmap") /\ Len(Tail(a)) % 2 # 1
    <3>1. ~(h.store[k] # Nil /\ Type(h, h.store[k]) # "ssmap")
      BY Zenon, <1>2, <2>4
    <3>2. HashPut(g, g.store[k], m, a) = OkEach(PutNew(g, k, val, -1, FALSE), r)
      BY <1>0, <1>8, <2>1, <2>4, Zenon DEF HashPut
    <3>3. HashPut(h, h.store[k], m, a) = OkEach(PutNew(h, k, val, -1, FALSE), r)
      BY <1>0, <1>8, <2>1, <2>4, <3>1, Zenon DEF HashPut
    <3> QED BY <3>2, <3>3, Zenon
  <2> QED BY Zenon, <2>2, <2>3, <2>4
<1> QED BY Zenon, <1>4, <1>5, <1>7, <1>9

LEMMA SameSortedReads ==
  ASSUME NEW d, NEW e, Alike(d, e), NEW a, a[1] \in Keys
  PROVE  /\ Same(evalZCARD(d, a), evalZCARD(e, a)) /\ Same(evalZCOUNT(d, a), evalZCOUNT(e, a))
         /\ Same(evalZRANGE(d, a), evalZRANGE(e, a)) /\ Same(evalZRANK(d, a), evalZRANK(e, a))
<1>0. PICK k \in Keys : k = a[1]
  OBVIOUS
<1>1. PICK g, h : g = Get(d, k) /\ h = Get(e, k) /\ Paired(g, h, k)
  BY GetPair
<1>2. /\ View(g) = View(h)
      /\ g.store[k] = Nil <=> h.store[k] = Nil
      /\ g.store[k] # Nil => /\ Type(g, g.store[k]) = Type(h, h.store[k])
                             /\ Data(g, g.store[k]) = Data(h, h.store[k])
  BY <1>1, PairFacts
<1>3. Same(Err(g), Err(h)) /\ \A r, nil : /\ Same(Ok(g, r), Ok(h, r))
                                          /\ Same(Shared(g, r, nil), Shared(h, r, nil))
  BY <1>2, SameReplies
<1>4. Same(evalZCARD(d, a), evalZCARD(e, a))
  BY Zenon, <1>0, <1>1, <1>2, <1>3 DEF evalZCARD, ZRead, OnType
<1>5. Same(evalZCOUNT(d, a), evalZCOUNT(e, a))
  <2>1. \A r, nil : Same(Shared(d, r, nil), Shared(e, r, nil))
    BY Zenon, SameReplies DEF Alike
  <2> QED BY Zenon, <1>0, <1>1, <1>2, <1>3, <2>1 DEF evalZCOUNT, ZRead, OnType
<1>6. Same(evalZRANGE(d, a), evalZRANGE(e, a))
  BY Zenon, <1>0, <1>1, <1>2, <1>3 DEF evalZRANGE, ZRead, OnType
<1>7. Same(evalZRANK(d, a), evalZRANK(e, a))
  BY Zenon, <1>0, <1>1, <1>2, <1>3 DEF evalZRANK, ZRead, OnType
<1> QED BY Zenon, <1>4, <1>5, <1>6, <1>7
\* ZADD once the set it adds to is there.
SetAdd(g, p, a) ==
  LET n       == Len(a[3]) \div 2
      texts   == [i \in 1 .. n |-> a[3][2 * i - 1]]
      members == [i \in 1 .. n |-> a[3][2 * i]]
      scores  == [i \in 1 .. n |-> texts[i][2]]
      r       == ZADD(Data(g, p), scores, members, a[2])
      e       == [g EXCEPT !.obj[p].val = <<"sortedset", r[1]>>]
  IN  IF r[3] THEN Ok(e, <<r[2]>>) ELSE Err(e)

LEMMA SameAdd ==
  ASSUME NEW k \in Keys, NEW g, NEW h, Twins(g, h, k), NEW a
  PROVE  Same(SetAdd(g, g.store[k], a), SetAdd(h, h.store[k], a))
<1> DEFINE n       == Len(a[3]) \div 2
           texts   == [i \in 1 .. n |-> a[3][2 * i - 1]]
           members == [i \in 1 .. n |-> a[3][2 * i]]
           scores  == [i \in 1 .. n |-> texts[i][2]]
<1>1. Data(g, g.store[k]) = Data(h, h.store[k])
  BY Zenon DEF Twins, Data
<1>2. PICK r : /\ r = ZADD(Data(g, g.store[k]), scores, members, a[2])
               /\ r = ZADD(Data(h, h.store[k]), scores, members, a[2])
  BY <1>1, Zenon
<1>3. PICK v : v = <<"sortedset", r[1]>>
  BY Zenon
<1>4. View(Valued(g, g.store[k], v)) = View(Valued(h, h.store[k], v))
  BY WritePair
<1>5. PICK b, c : b = Valued(g, g.store[k], v) /\ c = Valued(h, h.store[k], v) /\ View(b) = View(c)
  BY Zenon, <1>4
<1>6. /\ SetAdd(g, g.store[k], a) = IF r[3] THEN Ok(b, <<r[2]>>) ELSE Err(b)
      /\ SetAdd(h, h.store[k], a) = IF r[3] THEN Ok(c, <<r[2]>>) ELSE Err(c)
  BY <1>2, <1>3, <1>5, Zenon DEF SetAdd, Valued
<1> QED BY Zenon, <1>5, <1>6, SameReplies

LEMMA SameZadd ==
  ASSUME NEW d, NEW e, Alike(d, e), NEW a, a[1] \in Keys, now \in Nat
  PROVE  Same(evalZADD(d, a), evalZADD(e, a))
<1>0. PICK k \in Keys : k = a[1]
  OBVIOUS
<1>1. PICK g, h : g = Get(d, k) /\ h = Get(e, k) /\ Paired(g, h, k)
  BY GetPair
<1>2. /\ View(d) = View(e) /\ View(g) = View(h)
      /\ g.store[k] = Nil <=> h.store[k] = Nil
      /\ g.store[k] # Nil => Type(g, g.store[k]) = Type(h, h.store[k]) /\ Twins(g, h, k)
  BY <1>1, PairFacts DEF Alike
<1> DEFINE bad == \/ Len(a[3]) % 2 = 1
                  \/ \E i \in 1 .. (Len(a[3]) \div 2) :
                       [j \in 1 .. (Len(a[3]) \div 2) |-> a[3][2 * j - 1]][i][1]
                         \notin {"digits", "padded"}
           New(b) == UNION {SetAdd(n, n.store[k], a) :
                              n \in PutNew(b, k, <<"sortedset", <<>>>>, -1, FALSE)}
<1>3. ASSUME NEW b
      PROVE  evalZADD(b, a) =
               IF bad THEN Err(b)
               ELSE IF Get(b, a[1]).store[a[1]] = Nil THEN New(Get(b, a[1]))
               ELSE IF Type(Get(b, a[1]), Get(b, a[1]).store[a[1]]) # "sortedset"
               THEN Err(Get(b, a[1]))
               ELSE SetAdd(Get(b, a[1]), Get(b, a[1]).store[a[1]], a)
  BY <1>0, ZenonT(40) DEF evalZADD, OnType, SetAdd
<1> HIDE DEF bad, New
<1>4. Same(Err(d), Err(e)) /\ Same(Err(g), Err(h))
  BY Zenon, <1>2, SameReplies
<1>5. g.store[k] # Nil => Same(SetAdd(g, g.store[k], a), SetAdd(h, h.store[k], a))
  BY Zenon, <1>2, SameAdd
<1>6. Same(New(g), New(h))
  <2>1. PICK val : val = <<"sortedset", <<>>>> /\ val[1] # "free"
    BY Zenon, Tagged
  <2> SUFFICES ASSUME NEW o \in New(g)
               PROVE  \E q \in New(h) : o.st = q.st /\ o.res = q.res /\ View(o.db) = View(q.db)
    BY Zenon DEF Same
  <2>b. PICK ms \in Int : ms = -1 /\ ms < 0
    OBVIOUS
  <2>a. PICK n \in PutNew(g, k, val, ms, FALSE) : o \in SetAdd(n, n.store[k], a)
    BY Zenon, <2>1, <2>b DEF New
  <2>2. PICK m \in PutNew(h, k, val, ms, FALSE) : Twins(n, m, k)
    <3>1. val[1] # "free" /\ ms < 0
      BY Zenon, <2>1, <2>b
    <3> QED BY Zenon, <1>1, <2>a, <3>1, FillPair
  <2>3. Same(SetAdd(n, n.store[k], a), SetAdd(m, m.store[k], a))
    BY Zenon, <2>2, SameAdd
  <2>4. PICK q \in SetAdd(m, m.store[k], a) :
          o.st = q.st /\ o.res = q.res /\ View(o.db) = View(q.db)
    BY Zenon, <2>a, <2>3 DEF Same
  <2>5. q \in New(h)
    BY Zenon, <2>1, <2>b, <2>2, <2>4 DEF New
  <2> QED BY Zenon, <2>4, <2>5
<1>7. /\ evalZADD(d, a) = IF bad THEN Err(d) ELSE IF g.store[k] = Nil THEN New(g)
                          ELSE IF Type(g, g.store[k]) # "sortedset" THEN Err(g)
                          ELSE SetAdd(g, g.store[k], a)
      /\ evalZADD(e, a) = IF bad THEN Err(e) ELSE IF h.store[k] = Nil THEN New(h)
                          ELSE IF Type(h, h.store[k]) # "sortedset" THEN Err(h)
                          ELSE SetAdd(h, h.store[k], a)
  BY <1>0, <1>1, <1>3, Zenon
<1> QED BY Zenon, <1>2, <1>4, <1>5, <1>6, <1>7

LEMMA WithoutPair ==
  ASSUME NEW k \in Keys, NEW g, NEW h, Twins(g, h, k), NEW gone
  PROVE  View(Without(g, g.store[k], gone)) = View(Without(h, h.store[k], gone))
<1>1. g.obj[g.store[k]].val = h.obj[h.store[k]].val
  BY Zenon DEF Twins
<1>2. PICK z : z = g.obj[g.store[k]].val[2] /\ z = h.obj[h.store[k]].val[2]
  BY Zenon, <1>1
<1>3. PICK v : v = <<"sortedset", Restrict(z, DOMAIN z \ gone)>>
  BY Zenon
<1>4. /\ Without(g, g.store[k], gone) = Valued(g, g.store[k], v)
      /\ Without(h, h.store[k], gone) = Valued(h, h.store[k], v)
  BY Zenon, <1>2, <1>3 DEF Without, Valued
<1> QED BY <1>4, WritePair

LEMMA SameTakes ==
  ASSUME NEW d, NEW e, Alike(d, e), NEW a, a[1] \in Keys
  PROVE  /\ Same(evalZREM(d, a), evalZREM(e, a))
         /\ Same(evalZPOPMIN(d, a), evalZPOPMIN(e, a))
         /\ Same(evalZPOPMAX(d, a), evalZPOPMAX(e, a))
<1>0. PICK k \in Keys : k = a[1]
  OBVIOUS
<1>1. PICK g, h : g = Get(d, k) /\ h = Get(e, k) /\ Paired(g, h, k)
  BY GetPair
<1>2. /\ View(d) = View(e) /\ View(g) = View(h)
      /\ g.store[k] = Nil <=> h.store[k] = Nil
      /\ g.store[k] # Nil => /\ Type(g, g.store[k]) = Type(h, h.store[k])
                             /\ Data(g, g.store[k]) = Data(h, h.store[k])
                             /\ Twins(g, h, k)
  BY <1>1, PairFacts DEF Alike
<1>3. Same(Err(d), Err(e)) /\ Same(Err(g), Err(h)) /\ \A r : Same(Ok(g, r), Ok(h, r))
  BY Zenon, <1>2, SameReplies
<1>4. ASSUME g.store[k] # Nil
      PROVE  \A gone, r : Same(Ok(Without(g, g.store[k], gone), r),
                               Ok(Without(h, h.store[k], gone), r))
  BY <1>2, <1>4, WithoutPair, SameReplies
<1>5. Same(evalZREM(d, a), evalZREM(e, a))
  BY Zenon, <1>0, <1>1, <1>2, <1>3, <1>4 DEF evalZREM, OnType
<1>6. Same(evalZPOPMIN(d, a), evalZPOPMIN(e, a))
  BY Zenon, <1>0, <1>1, <1>2, <1>3, <1>4 DEF evalZPOPMIN, Pop, OnType
<1>7. Same(evalZPOPMAX(d, a), evalZPOPMAX(e, a))
  BY Zenon, <1>0, <1>1, <1>2, <1>3, <1>4 DEF evalZPOPMAX, Pop, OnType
<1> QED BY Zenon, <1>5, <1>6, <1>7
LEMMA LiveView ==
  ASSUME NEW d, NEW j \in Keys
  PROVE  Live(d, j) <=> View(d)[j] # <<"none">>
BY ViewOf, Distinguish

\* Dropping expired keys shows nothing.
LEMMA DropExpired ==
  ASSUME NEW d, Sound(d), NEW K \in SUBSET Present(d), \A j \in K : hasExpired(d, d.store[j])
  PROVE  Sound(deleteKeys(d, K)) /\ View(deleteKeys(d, K)) = View(d)
<1>1. K \in SUBSET Keys
  BY Zenon, PresentFacts
<1>2. \A j \in K : View(d)[j] = <<"none">>
  BY Zenon, <1>1, ViewOf DEF Live, Expired, Present
<1>3. View(deleteKeys(d, K)) = [j \in Keys |-> IF j \in K THEN <<"none">> ELSE View(d)[j]]
  BY Zenon, <1>1, DeleteView
<1>4. View(d) = [j \in Keys |-> View(d)[j]]
  BY Zenon DEF View
<1> QED BY Zenon, <1>2, <1>3, <1>4, SoundDelete

LEMMA SameExists ==
  ASSUME NEW d, NEW e, Alike(d, e), NEW a, Range(a) \subseteq Keys
  PROVE  Same(evalEXISTS(d, a), evalEXISTS(e, a))
<1> DEFINE D(b) == {k \in Range(a) \cap Present(b) : hasExpired(b, b.store[k])}
           C(b) == {i \in DOMAIN a : deleteKeys(b, D(b)).store[a[i]] # Nil}
<1>0. \A i \in DOMAIN a : a[i] \in Range(a) /\ a[i] \in Keys
  BY Zenon DEF Range
<1>1. ASSUME NEW b, Sound(b)
      PROVE  /\ View(deleteKeys(b, D(b))) = View(b)
             /\ C(b) = {i \in DOMAIN a : View(b)[a[i]] # <<"none">>}
  <2>1. D(b) \in SUBSET Present(b) /\ (\A j \in D(b) : hasExpired(b, b.store[j])) /\ IsStore(b)
    BY Zenon, <1>1 DEF Sound
  <2>2. View(deleteKeys(b, D(b))) = View(b)
    BY Zenon, <1>1, <2>1, DropExpired
  <2>3. D(b) \in SUBSET Keys
    BY Zenon, <2>1, PresentFacts
  <2>4. deleteKeys(b, D(b)).store = [k \in Keys |-> IF k \in D(b) THEN Nil ELSE b.store[k]]
    <3> HIDE DEF D
    <3>1. DeleteAs(b, deleteKeys(b, D(b)), D(b))
      BY Zenon, <2>1, <2>3, DeleteShape
    <3> QED BY Zenon, <3>1 DEF DeleteAs
  <2>5. ASSUME NEW i \in DOMAIN a
        PROVE  deleteKeys(b, D(b)).store[a[i]] # Nil <=> View(b)[a[i]] # <<"none">>
    <3>1. a[i] \in Keys /\ a[i] \in Range(a)
      BY Zenon, <1>0
    <3>2. deleteKeys(b, D(b)).store[a[i]] # Nil <=> a[i] \notin D(b) /\ b.store[a[i]] # Nil
      BY Zenon, <2>4, <3>1
    <3>3. a[i] \notin D(b) /\ b.store[a[i]] # Nil <=> Live(b, a[i])
      BY Zenon, <3>1 DEF Live, Expired, Present
    <3> QED BY Zenon, <3>1, <3>2, <3>3, LiveView
  <2> QED BY Zenon, <2>2, <2>5
<1>2. PICK n : n = Cardinality(C(d)) /\ n = Cardinality(C(e))
  <2>1. C(d) = C(e)
    <3>1. Sound(d) /\ Sound(e) /\ View(d) = View(e)
      BY Zenon DEF Alike, Roomy
    <3> HIDE DEF C
    <3>2. /\ C(d) = {i \in DOMAIN a : View(d)[a[i]] # <<"none">>}
          /\ C(e) = {i \in DOMAIN a : View(e)[a[i]] # <<"none">>}
      BY Zenon, <1>1, <3>1
    <3> QED BY Zenon, <3>1, <3>2
  <2> QED BY Zenon, <2>1
<1>3. PICK g, h : g = deleteKeys(d, D(d)) /\ h = deleteKeys(e, D(e)) /\ View(g) = View(h)
  BY Zenon, <1>1 DEF Alike, Roomy
<1>4. evalEXISTS(d, a) = Ok(g, <<n>>) /\ evalEXISTS(e, a) = Ok(h, <<n>>)
  BY Zenon, <1>2, <1>3 DEF evalEXISTS
<1> QED BY Zenon, <1>3, <1>4, SameReplies

LEMMA SamePlain ==
  ASSUME NEW d, NEW e, Alike(d, e), NEW a
  PROVE  /\ Same(evalFLUSHDB(d, a), evalFLUSHDB(e, a)) /\ Same(evalECHO(d, a), evalECHO(e, a))
         /\ Same(evalPING(d, a), evalPING(e, a)) /\ Same(evalHANDSHAKE(d, a), evalHANDSHAKE(e, a))
         /\ Same(evalHELLOCmd(d, a), evalHELLOCmd(e, a))
         /\ Same(evalUNWATCH(d, a), evalUNWATCH(e, a))
<1>1. \A r : Same(Ok(d, r), Ok(e, r)) /\ Same(Ok(NewStore, r), Ok(NewStore, r))
  BY Zenon, SameReplies DEF Alike
<1> QED BY Zenon, <1>1 DEF evalFLUSHDB, Reset, evalECHO, evalPING, evalHANDSHAKE, evalHELLOCmd, evalUNWATCH

LEMMA SameEval ==
  ASSUME NEW d, NEW e, Alike(d, e), now \in Nat, NEW c, WellFormed(c), c[1] \in DOMAIN Registry,
         Len(c[2]) \in Registry[c[1]], c[1] \notin {"DEL", "KEYS"}
  PROVE  Same(Eval(d, c[1], c[2]), Eval(e, c[1], c[2]))
<1>0. PICK a, n : a = c[2] /\ n = c[1] /\ n \in DOMAIN Registry /\ n \notin {"DEL", "KEYS"}
  BY Zenon
<1>1. /\ n \notin Keyless => a[1] \in Keys
      /\ n = "EXISTS" => Range(a) \subseteq Keys
      /\ n \in {"EXPIRE", "EXPIREAT"} => a[2] \in Int
      /\ n = "SET" => \A o \in DOMAIN a[3] : a[3][o] \in Int
      /\ n = "GETEX" => \A o \in DOMAIN a[2] : a[2][o] \in Int
  BY Zenon, <1>0 DEF WellFormed
<1> SUFFICES Same(Eval(d, n, a), Eval(e, n, a))
  BY Zenon, <1>0
<1>2. CASE n \in {"GET", "TTL", "EXPIRETIME", "TYPE"}
  <2>1. a[1] \in Keys
    BY Zenon, <1>1, <1>2 DEF Keyless
  <2> QED BY Zenon, <1>2, <2>1, SameKeyReads DEF Eval
<1>3. CASE n \in {"SET", "GETSET", "GETDEL", "GETEX"}
  <2>1. a[1] \in Keys
    BY Zenon, <1>1, <1>3 DEF Keyless
  <2> QED BY Zenon, <1>1, <1>3, <2>1, SameSet, SameGetSet, SameGetDel, SameGetEx DEF Eval
<1>4. CASE n \in {"INCR", "DECR", "INCRBY", "DECRBY"}
  <2>1. a[1] \in Keys
    BY Zenon, <1>1, <1>4 DEF Keyless
  <2> QED BY Zenon, <1>4, <2>1, SameCounters DEF Eval
<1>5. CASE n \in {"EXPIRE", "EXPIREAT"}
  <2>1. a[1] \in Keys /\ a[2] \in Int
    BY Zenon, <1>1, <1>5 DEF Keyless
  <2> QED BY Zenon, <1>5, <2>1, SameExpires DEF Eval
<1>6. CASE n = "EXISTS"
  BY Zenon, <1>1, <1>6, SameExists DEF Eval
<1>7. CASE n \in {"FLUSHDB", "ECHO", "PING", "HANDSHAKE", "HELLO", "UNWATCH"}
  BY Zenon, <1>7, SamePlain DEF Eval
<1>8. CASE n \in {"HSET", "HGET", "HGETALL"}
  <2>1. a[1] \in Keys
    BY Zenon, <1>1, <1>8 DEF Keyless
  <2> QED BY Zenon, <1>8, <2>1, SameHset, SameHashReads DEF Eval
<1>9. CASE n \in {"ZCARD", "ZCOUNT", "ZRANGE", "ZRANK"}
  <2>1. a[1] \in Keys
    BY Zenon, <1>1, <1>9 DEF Keyless
  <2> QED BY Zenon, <1>9, <2>1, SameSortedReads DEF Eval
<1>10. CASE n \in {"ZADD", "ZREM", "ZPOPMIN", "ZPOPMAX"}
  <2>1. a[1] \in Keys
    BY Zenon, <1>1, <1>10 DEF Keyless
  <2> QED BY Zenon, <1>10, <2>1, SameZadd, SameTakes DEF Eval
<1> QED BY Zenon, <1>0, <1>2, <1>3, <1>4, <1>5, <1>6, <1>7, <1>8, <1>9, <1>10, RegistryFacts

\* The reply and what is visible afterwards depend on what is visible before.
LEMMA SameRun ==
  ASSUME NEW d, NEW e, Alike(d, e), now \in Nat, NEW c, WellFormed(c),
         c[1] \notin {"DEL", "KEYS"}
  PROVE  Same(Run(d, c), Run(e, c))
<1>1. Same(Err(d), Err(e))
  BY Zenon, SameReplies DEF Alike
<1>2. ASSUME c[1] \in DOMAIN Registry, Len(c[2]) \in Registry[c[1]]
      PROVE  Same(Eval(d, c[1], c[2]), Eval(e, c[1], c[2]))
  BY Zenon, <1>2, SameEval
<1>3. ASSUME c[1] \in DOMAIN Registry, Len(c[2]) \in Registry[c[1]], c[1] \in Watchable
      PROVE  Same(EvalWatch(d, c[1], c[2]), EvalWatch(e, c[1], c[2]))
  <2> SUFFICES ASSUME NEW o \in EvalWatch(d, c[1], c[2])
               PROVE  \E q \in EvalWatch(e, c[1], c[2]) :
                        o.st = q.st /\ o.res = q.res /\ View(o.db) = View(q.db)
    BY Zenon DEF Same
  <2>1. PICK r \in Eval(d, c[1], c[2]) : o.db = r.db /\ o.st = r.st /\ o.res = r.res
    BY <1>3, WatchCases
  <2>2. PICK s \in Eval(e, c[1], c[2]) :
          r.st = s.st /\ r.res = s.res /\ View(r.db) = View(s.db)
    BY Zenon, <1>2, <1>3, <2>1 DEF Same
  <2>3. PICK q \in EvalWatch(e, c[1], c[2]) : q.db = s.db /\ q.st = s.st /\ q.res = s.res
    BY <1>3, <2>2, WatchCases
  <2> QED BY Zenon, <2>1, <2>2, <2>3
<1> QED BY Zenon, <1>1, <1>2, <1>3 DEF Run

LEMMA StoreInvHides == StoreInv => ExpiryInvisible
<1> SUFFICES ASSUME StoreInv, db.numKeys < MaxKeys, NEW c \in menu, c[1] \notin {"DEL", "KEYS"}
             PROVE  {<<o.st, o.res, View(o.db)>> : o \in Run(db, c)} =
                      {<<o.st, o.res, View(o.db)>> : o \in Run(DeleteExpiredKeys(db), c)}
  BY Zenon DEF ExpiryInvisible
<1>1. now \in Nat /\ WellFormed(c)
  BY ClockAssumption, MenusAssumption DEF StoreInv
<1>2. PICK d : d = db /\ Sound(d) /\ d.numKeys < MaxKeys
  BY Zenon DEF StoreInv
<1>3. PICK K : K = {k \in Present(d) : hasExpired(d, d.store[k])}
  BY Zenon
<1>4. PICK e : e = DeleteExpiredKeys(d) /\ e = deleteKeys(d, K)
  BY Zenon, <1>3 DEF DeleteExpiredKeys
<1>5. Sound(e) /\ View(e) = View(d)
  <2>1. K \in SUBSET Present(d) /\ \A j \in K : hasExpired(d, d.store[j])
    BY Zenon, <1>3
  <2> QED BY Zenon, <1>2, <1>4, <2>1, DropExpired
<1>6. e.numKeys < MaxKeys
  <2>1. IsStore(d) /\ K \in SUBSET Keys /\ IsFiniteSet(K)
    <3>1. K \subseteq Present(d)
      BY Zenon, <1>3
    <3> QED BY Zenon, <1>2, <3>1, PresentFacts, FS_Subset DEF Sound
  <2>2. DeleteAs(d, e, K)
    BY Zenon, <1>4, <2>1, DeleteShape
  <2>3. Cardinality(K) \in Nat
    BY Zenon, <2>1, FS_CardinalityType
  <2>4. e.numKeys = d.numKeys - Cardinality(K) /\ d.numKeys \in Int /\ MaxKeys \in Int
    BY <2>1, <2>2, MaxKeysAssumption DEF DeleteAs, IsStore
  <2> QED BY <1>2, <2>3, <2>4
<1>7. Alike(d, e) /\ Alike(e, d)
  BY Zenon, <1>2, <1>5, <1>6 DEF Alike, Roomy
<1>8. Same(Run(d, c), Run(e, c)) /\ Same(Run(e, c), Run(d, c))
  BY Zenon, <1>1, <1>7, SameRun
<1>9. {<<o.st, o.res, View(o.db)>> : o \in Run(d, c)} =
        {<<o.st, o.res, View(o.db)>> : o \in Run(e, c)}
  BY <1>8 DEF Same
<1> QED BY Zenon, <1>2, <1>4, <1>9

\* store.go:162-176 (getHelper), expire.go (DeleteExpiredKeys): while nothing
\* must be evicted, no command but DEL and KEYS can tell, by its reply or by
\* what is visible after it, whether the cron task ran just before it.
THEOREM CollectionInvisible == Spec => []ExpiryInvisible
<1> QED BY StoreInvariant, StoreInvHides, PTL
=============================================================================
