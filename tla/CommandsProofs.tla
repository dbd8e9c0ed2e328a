--------------------------- MODULE CommandsProofs ---------------------------
(* The tables of the store agree whatever commands do, for any finite set  *)
(* of keys, any limit on their number, any number of threads, any clock    *)
(* and any set of command lines.                                           *)
EXTENDS Commands, FiniteSetTheorems, TLAPS

---------------------------------------------------------------------------
(* Stores                                                                  *)

\* The fields of a store and the shape of its objects.
IsStore(d) ==
  /\ d = [store |-> d.store, obj |-> d.obj, expires |-> d.expires, numKeys |-> d.numKeys]
  /\ d.store \in [Keys -> Ptrs \cup {Nil}]
  /\ d.obj = [p \in Ptrs |-> [val |-> d.obj[p].val, access |-> d.obj[p].access]]
  /\ d.expires \in [Ptrs -> Nat \cup {NoExpiry}]
  /\ d.numKeys \in Int

\* Each key has an object of its own, only such objects have an expiry, and
\* none of them is an unused one.
Owned(d) ==
  /\ \A p \in Ptrs : d.expires[p] # NoExpiry => \E k \in Keys : d.store[k] = p
  /\ \A j, k \in Keys : d.store[j] # Nil /\ d.store[j] = d.store[k] => j = k
  /\ \A k \in Keys : d.store[k] # Nil => Type(d, d.store[k]) # "free"

Sound(d) ==
  /\ IsStore(d)
  /\ Owned(d)
  /\ d.numKeys = Cardinality(Present(d))
  /\ d.numKeys <= MaxKeys

LEMMA PtrFacts == Nil \notin Ptrs /\ Ptrs \subseteq Nat /\ Cardinality(Keys) \in Nat
<1>1. Cardinality(Keys) \in Nat
  BY Zenon, KeysAssumption, FS_CardinalityType
<1> QED BY <1>1 DEF Ptrs, Nil

LEMMA PresentFacts ==
  ASSUME NEW d
  PROVE  /\ IsFiniteSet(Present(d)) /\ Present(d) \subseteq Keys
         /\ Cardinality(Present(d)) \in Nat
<1>1. Present(d) \subseteq Keys
  BY Zenon DEF Present
<1>2. IsFiniteSet(Present(d))
  BY Zenon, <1>1, KeysAssumption, FS_Subset
<1> QED BY Zenon, <1>1, <1>2, FS_CardinalityType

\* There is always an unused pointer: one key, one pointer.
LEMMA FreshFacts ==
  ASSUME NEW d, IsStore(d), Owned(d)
  PROVE  /\ Fresh(d) \in Ptrs
         /\ \A k \in Keys : d.store[k] # Fresh(d)
         /\ d.expires[Fresh(d)] = NoExpiry
<1> DEFINE S == Stored(d) \cup Timed(d)
<1>1. S \subseteq {d.store[k] : k \in Keys}
  BY Zenon DEF Owned, Stored, Timed, Present
<1>2. /\ IsFiniteSet({d.store[k] : k \in Keys})
      /\ Cardinality({d.store[k] : k \in Keys}) <= Cardinality(Keys)
  <2> DEFINE f == [k \in Keys |-> d.store[k]]
             T == {d.store[k] : k \in Keys}
  <2>1. f \in Surjection(Keys, T)
    BY Zenon DEF Surjection
  <2> QED BY Zenon, <2>1, KeysAssumption, FS_Surjection
<1>3. IsFiniteSet(S) /\ Cardinality(S) <= Cardinality(Keys) /\ Cardinality(S) \in Nat
  <2>1. IsFiniteSet(S) /\ Cardinality(S) <= Cardinality({d.store[k] : k \in Keys})
    BY Zenon, <1>1, <1>2, FS_Subset
  <2> QED BY <2>1, <1>2, FS_CardinalityType, PtrFacts
<1>4. IsFiniteSet(Ptrs) /\ Cardinality(Ptrs) = Cardinality(Keys) + 2
  <2>1. Cardinality(Keys) + 2 \in Int /\ 1 \in Int /\ 1 <= Cardinality(Keys) + 2
    BY PtrFacts
  <2> QED BY <2>1, FS_Interval, PtrFacts DEF Ptrs
<1>5. PICK q \in Ptrs : q \notin S
  <2>1. ASSUME Ptrs \subseteq S PROVE FALSE
    <3>1. Cardinality(Ptrs) <= Cardinality(S)
      BY Zenon, <2>1, <1>3, FS_Subset
    <3> QED BY <3>1, <1>3, <1>4, PtrFacts
  <2> QED BY Zenon, <2>1
<1>6. Fresh(d) \in Ptrs /\ Fresh(d) \notin Stored(d) /\ Fresh(d) \notin Timed(d)
  BY Zenon, <1>5 DEF Fresh
<1>7. \A k \in Keys : d.store[k] # Fresh(d)
  BY Zenon, <1>6, PtrFacts DEF Stored, Present
<1> QED BY Zenon, <1>6, <1>7 DEF Timed

\* An object changed in place, and one that is accessed: the tables stay.
Valued(d, p, v)  == [d EXCEPT !.obj[p].val = v]
Touched(d, p, x) == [d EXCEPT !.obj[p].access = x]

LEMMA ValFacts ==
  ASSUME NEW d, IsStore(d), NEW p \in Ptrs, NEW v,
         NEW e, e = Valued(d, p, v)
  PROVE  /\ IsStore(e)
         /\ e.store = d.store /\ e.expires = d.expires /\ e.numKeys = d.numKeys
         /\ \A q \in Ptrs : e.obj[q].access = d.obj[q].access
         /\ \A q \in Ptrs : e.obj[q].val = IF q = p THEN v ELSE d.obj[q].val
<1>1. e = [store |-> d.store, obj |-> [d.obj EXCEPT ![p].val = v],
           expires |-> d.expires, numKeys |-> d.numKeys]
  BY Zenon DEF IsStore, Valued, Touched
<1>2. e.obj = [q \in Ptrs |-> IF q = p THEN [val |-> v, access |-> d.obj[q].access]
                                        ELSE d.obj[q]]
  BY <1>1 DEF IsStore
<1>3. /\ \A q \in Ptrs : e.obj[q].access = d.obj[q].access
      /\ \A q \in Ptrs : e.obj[q].val = IF q = p THEN v ELSE d.obj[q].val
  BY <1>2
<1>4. e.obj = [q \in Ptrs |-> [val |-> e.obj[q].val, access |-> e.obj[q].access]]
  BY <1>2, <1>3 DEF IsStore
<1> QED BY SMTT(30), <1>1, <1>3, <1>4 DEF IsStore

LEMMA TouchFacts ==
  ASSUME NEW d, IsStore(d), NEW p \in Ptrs, NEW x,
         NEW e, e = Touched(d, p, x)
  PROVE  /\ IsStore(e)
         /\ e.store = d.store /\ e.expires = d.expires /\ e.numKeys = d.numKeys
         /\ \A q \in Ptrs : e.obj[q].val = d.obj[q].val
         /\ \A q \in Ptrs : e.obj[q].access = IF q = p THEN x ELSE d.obj[q].access
<1>1. e = [store |-> d.store, obj |-> [d.obj EXCEPT ![p].access = x],
           expires |-> d.expires, numKeys |-> d.numKeys]
  BY Zenon DEF IsStore, Valued, Touched
<1>2. e.obj = [q \in Ptrs |-> IF q = p THEN [val |-> d.obj[q].val, access |-> x]
                                        ELSE d.obj[q]]
  BY <1>1 DEF IsStore
<1>3. /\ \A q \in Ptrs : e.obj[q].val = d.obj[q].val
      /\ \A q \in Ptrs : e.obj[q].access = IF q = p THEN x ELSE d.obj[q].access
  BY <1>2
<1>4. e.obj = [q \in Ptrs |-> [val |-> e.obj[q].val, access |-> e.obj[q].access]]
  BY <1>2, <1>3 DEF IsStore
<1> QED BY SMTT(30), <1>1, <1>3, <1>4 DEF IsStore

\* e is d with another expiry at p.
Stamps == Nat \cup {NoExpiry}
ExpiryAs(d, e, p, x) ==
  /\ IsStore(e)
  /\ e.store = d.store /\ e.obj = d.obj /\ e.numKeys = d.numKeys
  /\ \A q \in Ptrs : e.expires[q] = IF q = p THEN x ELSE d.expires[q]

LEMMA ExpiryFacts ==
  ASSUME NEW d, IsStore(d), NEW p \in Ptrs, NEW x \in Stamps
  PROVE  ExpiryAs(d, SetUnixTimeExpiry(d, p, x), p, x)
<1> USE DEF Stamps
<1>0. PICK e : e = SetUnixTimeExpiry(d, p, x)
  BY Zenon
<1>1. e = [store |-> d.store, obj |-> d.obj,
           expires |-> [d.expires EXCEPT ![p] = x], numKeys |-> d.numKeys]
  BY Zenon, <1>0 DEF IsStore, SetUnixTimeExpiry
<1>2. \A q \in Ptrs : e.expires[q] = IF q = p THEN x ELSE d.expires[q]
  BY Zenon, <1>1 DEF IsStore
<1>3. e.expires \in [Ptrs -> Nat \cup {NoExpiry}]
  BY Zenon, <1>1 DEF IsStore
<1> QED BY <1>0, <1>1, <1>2, <1>3 DEF IsStore, ExpiryAs

LEMMA ThreeFields ==
  ASSUME NEW d, IsStore(d), NEW s, NEW x, NEW n
  PROVE  [d EXCEPT !.store = s, !.expires = x, !.numKeys = n] =
           [store |-> s, obj |-> d.obj, expires |-> x, numKeys |-> n]
<1>1. DOMAIN d = {"store", "obj", "expires", "numKeys"}
  BY Zenon DEF IsStore
<1> DEFINE e == [d EXCEPT !.store = s, !.expires = x, !.numKeys = n]
<1>2. e = [f \in {"store", "obj", "expires", "numKeys"} |-> e[f]]
  BY Zenon, <1>1
<1>3. e.store = s /\ e.obj = d.obj /\ e.expires = x /\ e.numKeys = n
  BY Zenon, <1>1
<1> HIDE DEF e
<1>4. e = [store |-> s, obj |-> d.obj, expires |-> x, numKeys |-> n]
  BY Zenon, <1>2, <1>3
<1> QED BY Zenon, <1>4 DEF e

LEMMA DeleteFacts ==
  ASSUME NEW d, IsStore(d), NEW K \in SUBSET Keys,
         NEW e, e = deleteKeys(d, K)
  PROVE  /\ IsStore(e)
         /\ e.store = [k \in Keys |-> IF k \in K THEN Nil ELSE d.store[k]]
         /\ e.obj = d.obj
         /\ e.expires = [p \in Ptrs |-> IF \E k \in K : d.store[k] = p
                                            THEN NoExpiry ELSE d.expires[p]]
         /\ e.numKeys = d.numKeys - Cardinality(K)
<1> DEFINE st == [k \in Keys |-> IF k \in K THEN Nil ELSE d.store[k]]
           ex == [p \in Ptrs |-> IF \E k \in K : d.store[k] = p
                                 THEN NoExpiry ELSE d.expires[p]]
<1>1. e = [store |-> st, obj |-> d.obj, expires |-> ex,
           numKeys |-> d.numKeys - Cardinality(K)]
  <2>1. e = [d EXCEPT !.store = st, !.expires = ex, !.numKeys = d.numKeys - Cardinality(K)]
    BY Zenon DEF IsStore, deleteKeys
  <2> HIDE DEF st, ex
  <2> QED BY Zenon, <2>1, ThreeFields
<1>2. st \in [Keys -> Ptrs \cup {Nil}] /\ ex \in [Ptrs -> Nat \cup {NoExpiry}]
  BY Zenon DEF IsStore
<1>3. d.numKeys - Cardinality(K) \in Int
  <2>1. Cardinality(K) \in Int
    BY KeysAssumption, FS_Subset, FS_CardinalityType
  <2> QED BY <2>1 DEF IsStore
<1> HIDE DEF st, ex
<1>4. IsStore(e)
  BY <1>1, <1>2, <1>3 DEF IsStore
<1>5. e.store = st /\ e.obj = d.obj /\ e.expires = ex /\ e.numKeys = d.numKeys - Cardinality(K)
  BY <1>1
<1> QED BY Zenon, <1>4, <1>5 DEF st, ex

DeleteAs(d, e, K) ==
  /\ IsStore(e)
  /\ e.store = [k \in Keys |-> IF k \in K THEN Nil ELSE d.store[k]]
  /\ e.obj = d.obj
  /\ e.expires = [p \in Ptrs |-> IF \E k \in K : d.store[k] = p
                                 THEN NoExpiry ELSE d.expires[p]]
  /\ e.numKeys = d.numKeys - Cardinality(K)

LEMMA DeleteShape ==
  ASSUME NEW d, IsStore(d), NEW K \in SUBSET Keys
  PROVE  DeleteAs(d, deleteKeys(d, K), K)
<1>1. PICK e : e = deleteKeys(d, K)
  BY Zenon
<1>2. DeleteAs(d, e, K)
  BY <1>1, DeleteFacts DEF DeleteAs
<1> QED BY Zenon, <1>1, <1>2

\* deleteKey of the object a key holds is deleteKeys of that key alone.
LEMMA DeleteOne ==
  ASSUME NEW d, IsStore(d), NEW k \in Keys
  PROVE  deleteKey(d, k, d.store[k]) = deleteKeys(d, {k})
<1>1. [d.store EXCEPT ![k] = Nil] = [j \in Keys |-> IF j \in {k} THEN Nil ELSE d.store[j]]
  BY Zenon DEF IsStore
<1>2. [d.expires EXCEPT ![d.store[k]] = NoExpiry] =
        [p \in Ptrs |-> IF \E j \in {k} : d.store[j] = p THEN NoExpiry ELSE d.expires[p]]
  BY Zenon DEF IsStore
<1>3. Cardinality({k}) = 1
  BY Zenon, FS_Singleton
<1>4. deleteKey(d, k, d.store[k]) =
        [store |-> [d.store EXCEPT ![k] = Nil], obj |-> d.obj,
         expires |-> [d.expires EXCEPT ![d.store[k]] = NoExpiry],
         numKeys |-> d.numKeys - 1]
  <2> DEFINE e == deleteKey(d, k, d.store[k])
             st == [d.store EXCEPT ![k] = Nil]
             ex == [d.expires EXCEPT ![d.store[k]] = NoExpiry]
             n  == d.numKeys - 1
  <2>1. e = [d EXCEPT !.store = st, !.expires = ex, !.numKeys = n]
    BY Zenon DEF IsStore, deleteKey
  <2> HIDE DEF e, st, ex, n
  <2>2. e = [store |-> st, obj |-> d.obj, expires |-> ex, numKeys |-> n]
    BY Zenon, <2>1, ThreeFields
  <2> QED BY Zenon, <2>2 DEF e, st, ex, n
<1>5. deleteKeys(d, {k}) =
        [store |-> [j \in Keys |-> IF j \in {k} THEN Nil ELSE d.store[j]], obj |-> d.obj,
         expires |-> [p \in Ptrs |-> IF \E j \in {k} : d.store[j] = p
                                     THEN NoExpiry ELSE d.expires[p]],
         numKeys |-> d.numKeys - Cardinality({k})]
  <2>1. {k} \in SUBSET Keys
    BY Zenon
  <2>2. /\ IsStore(deleteKeys(d, {k}))
        /\ deleteKeys(d, {k}).store = [j \in Keys |-> IF j \in {k} THEN Nil ELSE d.store[j]]
        /\ deleteKeys(d, {k}).obj = d.obj
        /\ deleteKeys(d, {k}).expires = [p \in Ptrs |-> IF \E j \in {k} : d.store[j] = p
                                                       THEN NoExpiry ELSE d.expires[p]]
        /\ deleteKeys(d, {k}).numKeys = d.numKeys - Cardinality({k})
    BY <2>1, DeleteFacts
  <2> QED BY Zenon, <2>2 DEF IsStore
<1> QED BY Zenon, <1>1, <1>2, <1>3, <1>4, <1>5
---------------------------------------------------------------------------
(* What keeps a store sound                                                *)

LEMMA SoundVals ==
  ASSUME NEW d, Sound(d), NEW e, IsStore(e),
         e.store = d.store, e.expires = d.expires, e.numKeys = d.numKeys,
         \A k \in Keys : d.store[k] # Nil => e.obj[d.store[k]].val[1] # "free"
  PROVE  Sound(e)
<1>1. Present(e) = Present(d)
  BY Zenon DEF Present
<1>2. Owned(e)
  BY DEF Sound, Owned, Type
<1> QED BY Zenon, <1>1, <1>2 DEF Sound

LEMMA SoundDelete ==
  ASSUME NEW d, Sound(d), NEW K \in SUBSET Present(d)
  PROVE  Sound(deleteKeys(d, K))
<1>0. K \in SUBSET Keys
  BY Zenon DEF Present
<1>1. PICK e : e = deleteKeys(d, K)
  BY Zenon
<1>2. /\ IsStore(e)
      /\ e.store = [k \in Keys |-> IF k \in K THEN Nil ELSE d.store[k]]
      /\ e.obj = d.obj
      /\ e.expires = [p \in Ptrs |-> IF \E k \in K : d.store[k] = p
                                     THEN NoExpiry ELSE d.expires[p]]
      /\ e.numKeys = d.numKeys - Cardinality(K)
  BY <1>0, <1>1, DeleteFacts DEF Sound
<1>3. Present(e) = Present(d) \ K
  BY Zenon, <1>2 DEF Present
<1>4. /\ Cardinality(Present(e)) = Cardinality(Present(d)) - Cardinality(K)
      /\ Cardinality(K) \in Nat
  <2>1. Present(d) \cap K = K
    BY Zenon
  <2>2. /\ Cardinality(Present(d) \ K) = Cardinality(Present(d)) - Cardinality(Present(d) \cap K)
        /\ IsFiniteSet(K)
    BY Zenon, PresentFacts, FS_Difference, FS_Subset
  <2> QED BY Zenon, <1>3, <2>1, <2>2, FS_CardinalityType
<1>5. Owned(e)
  <2>1. ASSUME NEW p \in Ptrs, e.expires[p] # NoExpiry
        PROVE  \E k \in Keys : e.store[k] = p
    BY <2>1, <1>2 DEF Sound, Owned
  <2>2. \A j, k \in Keys : e.store[j] # Nil /\ e.store[j] = e.store[k] => j = k
    BY <1>2 DEF Sound, Owned
  <2>3. \A k \in Keys : e.store[k] # Nil => Type(e, e.store[k]) # "free"
    BY <1>2 DEF Sound, Owned, Type
  <2> QED BY Zenon, <2>1, <2>2, <2>3 DEF Owned
<1>6. e.numKeys = Cardinality(Present(e)) /\ e.numKeys <= MaxKeys
  BY <1>2, <1>4, PresentFacts, MaxKeysAssumption DEF Sound
<1> QED BY Zenon, <1>1, <1>2, <1>5, <1>6 DEF Sound

LEMMA SoundExpiry ==
  ASSUME NEW d, Sound(d), NEW k \in Keys, d.store[k] # Nil,
         NEW x \in Stamps
  PROVE  Sound(SetUnixTimeExpiry(d, d.store[k], x))
<1>0. d.store[k] \in Ptrs
  BY Zenon DEF Sound, IsStore
<1>1. PICK e : e = SetUnixTimeExpiry(d, d.store[k], x)
  BY Zenon
<1>2. /\ IsStore(e)
      /\ e.store = d.store /\ e.obj = d.obj /\ e.numKeys = d.numKeys
      /\ \A q \in Ptrs : e.expires[q] = IF q = d.store[k] THEN x ELSE d.expires[q]
  BY <1>0, <1>1, ExpiryFacts DEF Sound, ExpiryAs
<1>3. Present(e) = Present(d)
  BY Zenon, <1>2 DEF Present
<1>4. Owned(e)
  BY <1>2 DEF Sound, Owned, Type
<1> QED BY Zenon, <1>1, <1>2, <1>3, <1>4 DEF Sound

\* Lazy expiry: a key past its expiry goes; reading another touches it.
LEMMA GetFacts ==
  ASSUME NEW d, Sound(d), NEW k \in Keys, NEW touch \in BOOLEAN, NEW g,
         g = getHelper(d, k, touch)
  PROVE  /\ Sound(g)
         /\ \/ d.store[k] = Nil /\ g = d
            \/ Expired(d, k) /\ g = deleteKeys(d, {k})
            \/ /\ d.store[k] # Nil /\ ~Expired(d, k)
               /\ g.store = d.store /\ g.expires = d.expires /\ g.numKeys = d.numKeys
               /\ \A q \in Ptrs : g.obj[q].val = d.obj[q].val
               /\ \A q \in Ptrs : q # d.store[k] => g.obj[q].access = d.obj[q].access
               /\ touch => g = Touched(d, d.store[k], now)
<1>1. CASE d.store[k] = Nil
  BY Zenon, <1>1 DEF getHelper
<1>2. CASE Expired(d, k)
  <2>1. g = deleteKeys(d, {k})
    BY Zenon, <1>2, DeleteOne DEF getHelper, Expired, Sound
  <2>2. {k} \in SUBSET Present(d)
    BY Zenon, <1>2 DEF Expired, Present
  <2> QED BY Zenon, <1>2, <2>1, <2>2, SoundDelete
<1>3. CASE d.store[k] # Nil /\ ~Expired(d, k)
  <2>0. d.store[k] \in Ptrs
    BY Zenon, <1>3 DEF Sound, IsStore
  <2>1. CASE ~touch
    BY Zenon, <1>3, <2>1 DEF getHelper, Expired
  <2>2. CASE touch
    <3>1. g = Touched(d, d.store[k], now)
      BY Zenon, <1>3, <2>2 DEF getHelper, Expired, Touched
    <3>2. /\ IsStore(g)
          /\ g.store = d.store /\ g.expires = d.expires /\ g.numKeys = d.numKeys
          /\ \A q \in Ptrs : g.obj[q].val = d.obj[q].val
          /\ \A q \in Ptrs : g.obj[q].access = IF q = d.store[k] THEN now ELSE d.obj[q].access
      <4>1. IsStore(d)
        BY Zenon DEF Sound
      <4> QED BY <2>0, <3>1, <4>1, TouchFacts
    <3>3. ASSUME NEW j \in Keys, d.store[j] # Nil PROVE g.obj[d.store[j]].val[1] # "free"
      <4>1. d.store[j] \in Ptrs
        BY Zenon, <3>3 DEF Sound, IsStore
      <4>2. g.obj[d.store[j]].val = d.obj[d.store[j]].val
        BY Zenon, <4>1, <3>2
      <4>3. d.obj[d.store[j]].val[1] # "free"
        BY Zenon, <3>3 DEF Sound, Owned, Type
      <4> QED BY Zenon, <4>2, <4>3
    <3>4. Sound(g)
      BY <3>2, <3>3, SoundVals
    <3> QED BY Zenon, <1>3, <3>1, <3>2, <3>4
  <2> QED BY Zenon, <2>1, <2>2
<1> QED BY Zenon, <1>1, <1>2, <1>3

\* What a lookup of k makes of the store d: nothing, k dropped, or k touched.
FetchedAs(d, g, k) ==
  \/ d.store[k] = Nil /\ g = d
  \/ Expired(d, k) /\ g = deleteKeys(d, {k})
  \/ /\ d.store[k] # Nil /\ ~Expired(d, k)
     /\ g.store = d.store /\ g.expires = d.expires /\ g.numKeys = d.numKeys
     /\ \A q \in Ptrs : g.obj[q].val = d.obj[q].val

LEMMA Fetches ==
  ASSUME NEW d, Sound(d), NEW k \in Keys, NEW touch \in BOOLEAN
  PROVE  FetchedAs(d, getHelper(d, k, touch), k)
<1>1. CASE d.store[k] = Nil
  BY Zenon, <1>1 DEF getHelper, FetchedAs
<1>2. CASE Expired(d, k)
  BY Zenon, <1>2, DeleteOne DEF getHelper, Expired, Sound, FetchedAs
<1>3. CASE d.store[k] # Nil /\ ~Expired(d, k)
  <2>1. CASE ~touch
    BY Zenon, <1>3, <2>1 DEF getHelper, Expired, FetchedAs
  <2>2. CASE touch
    <3>1. PICK g : g = getHelper(d, k, touch) /\ g = Touched(d, d.store[k], now)
      BY Zenon, <1>3, <2>2 DEF getHelper, Expired, Touched
    <3>2. IsStore(d) /\ d.store[k] \in Ptrs
      BY Zenon, <1>3 DEF Sound, IsStore
    <3>3. /\ g.store = d.store /\ g.expires = d.expires /\ g.numKeys = d.numKeys
          /\ \A q \in Ptrs : g.obj[q].val = d.obj[q].val
      BY <3>1, <3>2, TouchFacts
    <3> QED BY Zenon, <1>3, <3>1, <3>3 DEF FetchedAs
  <2> QED BY Zenon, <2>1, <2>2
<1> QED BY Zenon, <1>1, <1>2, <1>3
---------------------------------------------------------------------------
(* Storing a new object                                                    *)

\* The expiry NewObj gives an object.
Life(ms) == IF ms >= 0 THEN now + ms ELSE NoExpiry

LEMMA NewObjFacts ==
  ASSUME NEW d, IsStore(d), Owned(d), NEW val, NEW ms \in Int, now \in Nat,
         NEW e, e = NewObj(d, val, ms)
  PROVE  /\ IsStore(e)
         /\ e.store = d.store /\ e.numKeys = d.numKeys
         /\ e.obj = [p \in Ptrs |-> IF p = Fresh(d) THEN [val |-> val, access |-> now]
                                    ELSE d.obj[p]]
         /\ e.expires = [p \in Ptrs |-> IF p = Fresh(d) THEN Life(ms) ELSE d.expires[p]]
<1>1. PICK f \in Ptrs : f = Fresh(d) /\ d.expires[f] = NoExpiry
  BY Zenon, FreshFacts
<1>2. PICK o : o = [d EXCEPT !.obj[f] = [val |-> val, access |-> now]]
  BY Zenon
<1>3. o = [store |-> d.store,
           obj |-> [p \in Ptrs |-> IF p = f THEN [val |-> val, access |-> now] ELSE d.obj[p]],
           expires |-> d.expires, numKeys |-> d.numKeys]
  BY Zenon, <1>2 DEF IsStore
<1>4. IsStore(o)
  <2>1. o.obj = [p \in Ptrs |-> [val |-> o.obj[p].val, access |-> o.obj[p].access]]
    BY Zenon, <1>3 DEF IsStore
  <2> QED BY Zenon, <2>1, <1>3 DEF IsStore
<1>5. CASE ms >= 0
  <2>1. now + ms \in Nat
    BY <1>5
  <2>2. e = SetUnixTimeExpiry(o, f, now + ms)
    BY Zenon, <1>1, <1>2, <1>5 DEF NewObj, SetExpiry
  <2>3. /\ IsStore(e) /\ e.store = o.store /\ e.obj = o.obj /\ e.numKeys = o.numKeys
        /\ \A q \in Ptrs : e.expires[q] = IF q = f THEN now + ms ELSE o.expires[q]
    BY <1>4, <2>1, <2>2, ExpiryFacts DEF Stamps, ExpiryAs
  <2>4. e.expires = [p \in Ptrs |-> IF p = f THEN now + ms ELSE d.expires[p]]
    BY <1>3, <2>3 DEF IsStore
  <2> QED BY Zenon, <1>1, <1>3, <1>5, <2>3, <2>4 DEF Life
<1>6. CASE ~(ms >= 0)
  <2>1. e = o
    BY Zenon, <1>1, <1>2, <1>6 DEF NewObj
  <2>2. d.expires = [p \in Ptrs |-> IF p = f THEN NoExpiry ELSE d.expires[p]]
    BY Zenon, <1>1 DEF IsStore
  <2> QED BY <1>1, <1>3, <1>4, <1>6, <2>1, <2>2 DEF Life
<1> QED BY Zenon, <1>5, <1>6

LEMMA TouchAgain ==
  ASSUME NEW d, IsStore(d), NEW p \in Ptrs, NEW x, d.obj[p].access = x
  PROVE  Touched(d, p, x) = d
<1>1. PICK e : e = Touched(d, p, x)
  BY Zenon
<1>2. /\ IsStore(e)
      /\ e.store = d.store /\ e.expires = d.expires /\ e.numKeys = d.numKeys
      /\ \A q \in Ptrs : e.obj[q].val = d.obj[q].val
      /\ \A q \in Ptrs : e.obj[q].access = IF q = p THEN x ELSE d.obj[q].access
  BY <1>1, TouchFacts
<1>3. e.obj = d.obj
  <2>1. /\ e.obj = [q \in Ptrs |-> [val |-> e.obj[q].val, access |-> e.obj[q].access]]
        /\ d.obj = [q \in Ptrs |-> [val |-> d.obj[q].val, access |-> d.obj[q].access]]
    BY Zenon, <1>2 DEF IsStore
  <2>2. \A q \in Ptrs : [val |-> e.obj[q].val, access |-> e.obj[q].access] =
                          [val |-> d.obj[q].val, access |-> d.obj[q].access]
    BY Zenon, <1>2
  <2> QED BY Zenon, <2>1, <2>2
<1> QED BY Zenon, <1>1, <1>2, <1>3 DEF IsStore

\* The table entry of a key, and the counter.
Stashed(d, k, p, n) == [[d EXCEPT !.numKeys = n] EXCEPT !.store[k] = p]

LEMMA StashFacts ==
  ASSUME NEW d, IsStore(d), NEW k \in Keys, NEW p \in Ptrs, NEW n \in Int,
         NEW e, e = Stashed(d, k, p, n)
  PROVE  /\ IsStore(e)
         /\ e.obj = d.obj /\ e.expires = d.expires /\ e.numKeys = n
         /\ e.store = [j \in Keys |-> IF j = k THEN p ELSE d.store[j]]
<1>1. e = [store |-> [d.store EXCEPT ![k] = p], obj |-> d.obj,
           expires |-> d.expires, numKeys |-> n]
  BY Zenon DEF IsStore, Stashed
<1>2. [d.store EXCEPT ![k] = p] = [j \in Keys |-> IF j = k THEN p ELSE d.store[j]]
  BY Zenon DEF IsStore
<1>3. e.store \in [Keys -> Ptrs \cup {Nil}]
  BY <1>1 DEF IsStore
<1> QED BY <1>1, <1>2, <1>3 DEF IsStore
LEMMA MinOfTwo ==
  ASSUME NEW a \in Int, NEW b \in Int
  PROVE  Min({a, b}) = IF a <= b THEN a ELSE b
<1> DEFINE m == IF a <= b THEN a ELSE b
<1>1. m \in {a, b} /\ \A y \in {a, b} : m <= y
  OBVIOUS
<1>2. \A x \in {a, b} : (\A y \in {a, b} : x <= y) => x = m
  OBVIOUS
<1> QED BY Zenon, <1>1, <1>2 DEF Min

LEMMA MaxOfTwo ==
  ASSUME NEW a \in Int, NEW b \in Int
  PROVE  Max({a, b}) = IF a >= b THEN a ELSE b
<1> DEFINE m == IF a >= b THEN a ELSE b
<1>1. m \in {a, b} /\ \A y \in {a, b} : m >= y
  OBVIOUS
<1>2. \A x \in {a, b} : (\A y \in {a, b} : x >= y) => x = m
  OBVIOUS
<1> QED BY Zenon, <1>1, <1>2 DEF Max

\* Nothing is evicted below the limit, and something at it.
LEMMA VictimFacts ==
  ASSUME NEW d, Sound(d), NEW V \in Victims(d, ShouldEvict(d))
  PROVE  /\ V \in SUBSET Present(d) /\ Cardinality(V) \in Nat
         /\ d.numKeys < MaxKeys => V = {}
         /\ d.numKeys >= MaxKeys => Cardinality(V) >= 1
         /\ \A v \in V, u \in Present(d) \ V :
              d.obj[d.store[v]].access <= d.obj[d.store[u]].access
<1>1. /\ V \in SUBSET Present(d)
      /\ Cardinality(V) = Min({ShouldEvict(d), Cardinality(Present(d))})
      /\ \A v \in V, u \in Present(d) \ V :
           d.obj[d.store[v]].access <= d.obj[d.store[u]].access
  BY Zenon DEF Victims
<1>2. IsFiniteSet(V) /\ Cardinality(V) \in Nat
  BY Zenon, <1>1, PresentFacts, FS_Subset, FS_CardinalityType
<1>3. d.numKeys = Cardinality(Present(d)) /\ d.numKeys \in Nat
  BY Zenon, PresentFacts DEF Sound
<1>4. CASE d.numKeys < MaxKeys
  <2>1. ShouldEvict(d) = 0
    BY Zenon, <1>4 DEF ShouldEvict
  <2>2. Cardinality(V) = 0
    BY <1>1, <1>3, <2>1, MinOfTwo
  <2>3. V = {}
    BY Zenon, <1>2, <2>2, FS_EmptySet
  <2> QED BY <1>1, <1>2, <1>3, <1>4, <2>3, MaxKeysAssumption
<1>5. CASE ~(d.numKeys < MaxKeys)
  <2> DEFINE over == d.numKeys - (MaxKeys + 9) \div 10
  <2>1. over \in Int
    BY <1>3, MaxKeysAssumption
  <2>2. ShouldEvict(d) = Max({1, over})
    BY Zenon, <1>5 DEF ShouldEvict
  <2>3. ShouldEvict(d) \in Int /\ ShouldEvict(d) >= 1
    <3> HIDE DEF over
    <3> QED BY <2>1, <2>2, MaxOfTwo
  <2>4. Cardinality(Present(d)) >= 1
    BY <1>3, <1>5, MaxKeysAssumption
  <2>5. Cardinality(V) >= 1
    BY <1>1, <1>3, <2>3, <2>4, MinOfTwo
  <2> QED BY Zenon, <1>1, <1>2, <1>5, <2>5
<1> QED BY Zenon, <1>4, <1>5

\* What Put of a new object with value val and expiry x does, the keys V
\* being evicted for it.
PutAs(d, e, k, val, x, V) ==
  /\ IsStore(e)
  /\ e.store = [j \in Keys |-> IF j = k THEN Fresh(d) ELSE IF j \in V THEN Nil
                               ELSE d.store[j]]
  /\ e.obj = [p \in Ptrs |-> IF p = Fresh(d) THEN [val |-> val, access |-> now]
                             ELSE d.obj[p]]
  /\ e.expires = [p \in Ptrs |-> IF p = Fresh(d) THEN x
                                 ELSE IF p = d.store[k] \/ \E v \in V : d.store[v] = p
                                 THEN NoExpiry ELSE d.expires[p]]
  /\ e.numKeys = IF d.store[k] = Nil THEN d.numKeys - Cardinality(V) + 1 ELSE d.numKeys

Evicted(d, k) == IF d.store[k] = Nil THEN Victims(d, ShouldEvict(d)) ELSE {{}}

\* The expiry a key ends up with when it is overwritten.
PutLife(d, k, ms, keepTTL) ==
  IF keepTTL /\ d.store[k] # Nil /\ d.expires[d.store[k]] > 0
  THEN d.expires[d.store[k]] ELSE Life(ms)
LEMMA PutFacts ==
  ASSUME NEW d, Sound(d), NEW k \in Keys, NEW val, NEW ms \in Int,
         NEW keepTTL \in BOOLEAN, now \in Nat,
         NEW e \in PutNew(d, k, val, ms, keepTTL)
  PROVE  \E V \in Evicted(d, k) : PutAs(d, e, k, val, PutLife(d, k, ms, keepTTL), V)
<1>0. IsStore(d) /\ Owned(d)
  BY Zenon DEF Sound
<1>1. PICK f \in Ptrs : /\ f = Fresh(d) /\ \A j \in Keys : d.store[j] # f
  BY Zenon, <1>0, FreshFacts
<1>2. PICK n : n = NewObj(d, val, ms)
  BY Zenon
<1>3. /\ IsStore(n)
      /\ n.store = d.store /\ n.numKeys = d.numKeys
      /\ n.obj = [p \in Ptrs |-> IF p = f THEN [val |-> val, access |-> now] ELSE d.obj[p]]
      /\ n.expires = [p \in Ptrs |-> IF p = f THEN Life(ms) ELSE d.expires[p]]
  BY <1>0, <1>1, <1>2, NewObjFacts
<1>4. [n EXCEPT !.obj[f].access = now] = n
  <2>1. n.obj[f].access = now
    BY <1>3
  <2>2. Touched(n, f, now) = n
    BY Zenon, <1>3, <2>1, TouchAgain
  <2> QED BY Zenon, <2>2 DEF Touched
<1>5. e \in putHelper(n, k, f, keepTTL)
  BY Zenon, <1>1, <1>2 DEF PutNew
<1>6. CASE d.store[k] # Nil
  <2>1. PICK c \in Ptrs : c = d.store[k] /\ c # f
    BY <1>0, <1>1, <1>6 DEF IsStore
  <2> DEFINE x == PutLife(d, k, ms, keepTTL)
             kept == IF keepTTL /\ d.expires[c] > 0
                     THEN SetUnixTimeExpiry(n, f, d.expires[c]) ELSE n
  <2>2. e = [DelExpiry(kept, c) EXCEPT !.store[k] = f]
    <3>1. n.store[k] = c /\ n.expires[c] = d.expires[c]
      BY Zenon, <1>3, <2>1
    <3> QED BY Zenon, <1>4, <1>5, <1>6, <2>1, <3>1 DEF putHelper
  <2>3. x \in Stamps
    BY <1>0, <2>1 DEF PutLife, Life, IsStore, Stamps
  <2>4. /\ IsStore(kept) /\ kept.store = d.store /\ kept.obj = n.obj
        /\ kept.numKeys = d.numKeys
        /\ \A q \in Ptrs : kept.expires[q] = IF q = f THEN x ELSE d.expires[q]
    <3>1. CASE keepTTL /\ d.expires[c] > 0
      <4>1. kept = SetUnixTimeExpiry(n, f, d.expires[c]) /\ x = d.expires[c]
        BY Zenon, <1>6, <2>1, <3>1 DEF PutLife
      <4> HIDE DEF kept, x
      <4>2. d.expires[c] \in Stamps
        BY Zenon, <2>3, <4>1
      <4>3. /\ IsStore(kept) /\ kept.store = n.store /\ kept.obj = n.obj
            /\ kept.numKeys = n.numKeys
            /\ \A q \in Ptrs : kept.expires[q] = IF q = f THEN d.expires[c] ELSE n.expires[q]
        <5>1. ExpiryAs(n, kept, f, d.expires[c])
          BY Zenon, <1>3, <4>1, <4>2, ExpiryFacts
        <5> QED BY Zenon, <5>1 DEF ExpiryAs
      <4> QED BY Zenon, <1>3, <4>1, <4>3
    <3>2. CASE ~(keepTTL /\ d.expires[c] > 0)
      <4>1. kept = n /\ x = Life(ms)
        BY Zenon, <1>6, <2>1, <3>2 DEF PutLife
      <4> HIDE DEF kept, x
      <4> QED BY Zenon, <1>3, <4>1
    <3> QED BY Zenon, <3>1, <3>2
  <2>5. PICK m : m = DelExpiry(kept, c)
    BY Zenon
  <2> HIDE DEF kept, x
  <2>6. /\ IsStore(m) /\ m.store = d.store /\ m.obj = n.obj /\ m.numKeys = d.numKeys
        /\ \A q \in Ptrs : m.expires[q] = IF q = c THEN NoExpiry ELSE
                                          IF q = f THEN x ELSE d.expires[q]
    <3>1. m = SetUnixTimeExpiry(kept, c, NoExpiry)
      BY Zenon, <2>5 DEF DelExpiry, SetUnixTimeExpiry
    <3>2. NoExpiry \in Stamps
      BY Zenon DEF Stamps
    <3>3. /\ IsStore(m) /\ m.store = kept.store /\ m.obj = kept.obj /\ m.numKeys = kept.numKeys
          /\ \A q \in Ptrs : m.expires[q] = IF q = c THEN NoExpiry ELSE kept.expires[q]
      <4>1. ExpiryAs(kept, m, c, NoExpiry)
        BY Zenon, <2>4, <3>1, <3>2, ExpiryFacts
      <4> QED BY Zenon, <4>1 DEF ExpiryAs
    <3> QED BY Zenon, <2>4, <3>3
  <2>7. /\ IsStore(e) /\ e.obj = n.obj /\ e.expires = m.expires /\ e.numKeys = d.numKeys
        /\ e.store = [j \in Keys |-> IF j = k THEN f ELSE d.store[j]]
    <3>1. [m EXCEPT !.numKeys = m.numKeys] = m /\ m.numKeys \in Int
      BY Zenon, <2>6 DEF IsStore
    <3>2. e = Stashed(m, k, f, m.numKeys)
      BY Zenon, <2>2, <2>5, <3>1 DEF Stashed
    <3> QED BY <2>6, <3>1, <3>2, StashFacts
  <2>8. e.expires = [p \in Ptrs |-> IF p = f THEN x
                                    ELSE IF p = d.store[k] \/ \E v \in {} : d.store[v] = p
                                    THEN NoExpiry ELSE d.expires[p]]
    BY <2>1, <2>6, <2>7 DEF IsStore
  <2>9. e.store = [j \in Keys |-> IF j = k THEN f ELSE IF j \in {} THEN Nil ELSE d.store[j]]
    BY Zenon, <2>7
  <2>10. PutAs(d, e, k, val, x, {})
    BY <1>1, <1>3, <1>6, <2>7, <2>8, <2>9 DEF PutAs
  <2> QED BY Zenon, <1>6, <2>10 DEF Evicted, x
<1>7. CASE d.store[k] = Nil
  <2>1. PICK W \in EvictVictims(n, ShouldEvict(n)) :
          e = Stashed(W, k, f, W.numKeys + 1)
    <3>1. n.store[k] = Nil
      BY Zenon, <1>3, <1>7
    <3>2. putHelper(n, k, f, keepTTL) =
            {[w EXCEPT !.store[k] = f] :
               w \in {[v EXCEPT !.numKeys = @ + 1] : v \in EvictVictims(n, ShouldEvict(n))}}
      BY <1>4, <3>1, Zenon DEF putHelper
    <3> QED BY Zenon, <1>5, <3>2 DEF Stashed
  <2>2. PICK V \in Victims(n, ShouldEvict(n)) : W = deleteKeys(n, V)
    BY Zenon, <2>1 DEF EvictVictims
  <2>3. ShouldEvict(n) = ShouldEvict(d) /\ Present(n) = Present(d)
    BY Zenon, <1>3 DEF ShouldEvict, Present
  <2>4. V \in Victims(d, ShouldEvict(d))
    <3>1. \A u \in Present(d) : d.store[u] \in Ptrs /\ d.store[u] # f
      BY Zenon, <1>0, <1>1 DEF IsStore, Present
    <3>2. \A u \in Present(d) : n.obj[n.store[u]].access = d.obj[d.store[u]].access
      BY <1>3, <3>1
    <3>3. /\ V \in SUBSET Present(d)
          /\ Cardinality(V) = Min({ShouldEvict(d), Cardinality(Present(d))})
          /\ \A v \in V, u \in Present(d) \ V :
               n.obj[n.store[v]].access <= n.obj[n.store[u]].access
      BY Zenon, <2>2, <2>3 DEF Victims
    <3>4. \A v \in V, u \in Present(d) \ V :
            d.obj[d.store[v]].access <= d.obj[d.store[u]].access
      BY Zenon, <3>2, <3>3
    <3> QED BY Zenon, <3>3, <3>4 DEF Victims
  <2>5. V \in SUBSET Keys /\ Cardinality(V) \in Nat
    BY Zenon, <2>4, VictimFacts DEF Present
  <2>6. /\ IsStore(W)
        /\ W.store = [j \in Keys |-> IF j \in V THEN Nil ELSE n.store[j]]
        /\ W.obj = n.obj
        /\ W.expires = [p \in Ptrs |-> IF \E j \in V : n.store[j] = p
                                       THEN NoExpiry ELSE n.expires[p]]
        /\ W.numKeys = n.numKeys - Cardinality(V)
    BY <1>3, <2>2, <2>5, DeleteFacts
  <2>7. W.numKeys + 1 \in Int
    BY <2>6 DEF IsStore
  <2>8. /\ IsStore(e) /\ e.obj = W.obj /\ e.expires = W.expires
        /\ e.numKeys = W.numKeys + 1
        /\ e.store = [j \in Keys |-> IF j = k THEN f ELSE W.store[j]]
    <3>1. PICK m \in Int : m = W.numKeys + 1
      BY Zenon, <2>7
    <3>2. e = Stashed(W, k, f, m) /\ IsStore(W) /\ f \in Ptrs
      BY Zenon, <1>1, <2>1, <2>6, <3>1
    <3> QED BY <3>1, <3>2, StashFacts
  <2>9. e.store = [j \in Keys |-> IF j = k THEN f ELSE IF j \in V THEN Nil ELSE d.store[j]]
    BY <1>3, <2>6, <2>8
  <2>10. e.expires = [p \in Ptrs |-> IF p = f THEN Life(ms)
                                     ELSE IF p = d.store[k] \/ \E v \in V : d.store[v] = p
                                     THEN NoExpiry ELSE d.expires[p]]
    <3>1. \A v \in V : d.store[v] # f
      BY Zenon, <1>1, <2>5
    <3>2. \A p \in Ptrs : p # d.store[k]
      BY Zenon, <1>7, PtrFacts
    <3> QED BY <1>3, <2>6, <2>8, <3>1, <3>2
  <2>11. PutAs(d, e, k, val, Life(ms), V)
    BY <1>1, <1>3, <1>7, <2>6, <2>8, <2>9, <2>10 DEF PutAs
  <2>12. PutLife(d, k, ms, keepTTL) = Life(ms)
    BY Zenon, <1>7 DEF PutLife
  <2> QED BY Zenon, <1>7, <2>4, <2>11, <2>12 DEF Evicted
<1> QED BY Zenon, <1>6, <1>7
\* Put keeps a store sound and within its limit.
LEMMA SoundPut ==
  ASSUME NEW d, Sound(d), NEW k \in Keys, NEW val, val[1] # "free",
         NEW x, NEW V \in Evicted(d, k), NEW e, PutAs(d, e, k, val, x, V)
  PROVE  Sound(e)
<1>0. IsStore(d) /\ Owned(d) /\ d.numKeys = Cardinality(Present(d)) /\ d.numKeys <= MaxKeys
  BY Zenon DEF Sound
<1>1. PICK f \in Ptrs : f = Fresh(d) /\ \A j \in Keys : d.store[j] # f
  BY Zenon, <1>0, FreshFacts
<1>2. /\ IsStore(e)
      /\ e.store = [j \in Keys |-> IF j = k THEN f ELSE IF j \in V THEN Nil ELSE d.store[j]]
      /\ e.obj = [p \in Ptrs |-> IF p = f THEN [val |-> val, access |-> now] ELSE d.obj[p]]
      /\ e.expires = [p \in Ptrs |-> IF p = f THEN x
                                     ELSE IF p = d.store[k] \/ \E v \in V : d.store[v] = p
                                     THEN NoExpiry ELSE d.expires[p]]
      /\ e.numKeys = IF d.store[k] = Nil THEN d.numKeys - Cardinality(V) + 1 ELSE d.numKeys
  BY <1>1 DEF PutAs
<1>3. f # Nil
  BY Zenon, <1>1, PtrFacts
<1>4. Owned(e)
  <2>1. ASSUME NEW p \in Ptrs, e.expires[p] # NoExpiry
        PROVE  \E j \in Keys : e.store[j] = p
    <3>1. CASE p = f
      BY Zenon, <3>1, <1>2
    <3>2. CASE p # f
      <4>1. /\ p # d.store[k] /\ ~\E v \in V : d.store[v] = p
            /\ d.expires[p] # NoExpiry
        BY Zenon, <2>1, <3>2, <1>2
      <4>2. PICK j \in Keys : d.store[j] = p
        BY Zenon, <1>0, <4>1 DEF Owned
      <4> QED BY <1>2, <4>1, <4>2
    <3> QED BY Zenon, <3>1, <3>2
  <2>2. \A j, i \in Keys : e.store[j] # Nil /\ e.store[j] = e.store[i] => j = i
    BY <1>0, <1>1, <1>2 DEF Owned
  <2>3. ASSUME NEW j \in Keys, e.store[j] # Nil PROVE Type(e, e.store[j]) # "free"
    <3>1. CASE j = k
      <4>1. e.obj[e.store[j]].val = val
        BY <1>2, <3>1
      <4> QED BY Zenon, <4>1 DEF Type
    <3>2. CASE j # k
      <4>1. e.store[j] = d.store[j] /\ d.store[j] # Nil /\ d.store[j] # f
        BY <1>1, <1>2, <2>3, <3>2
      <4>2. d.store[j] \in Ptrs
        BY Zenon, <1>0, <4>1 DEF IsStore
      <4>3. e.obj[e.store[j]] = d.obj[d.store[j]]
        BY <1>2, <4>1, <4>2
      <4> QED BY Zenon, <1>0, <4>1, <4>3 DEF Owned, Type
    <3> QED BY Zenon, <3>1, <3>2
  <2> QED BY Zenon, <2>1, <2>2, <2>3 DEF Owned
<1>5. e.numKeys = Cardinality(Present(e)) /\ e.numKeys <= MaxKeys
  <2>1. CASE d.store[k] # Nil
    <3>1. V = {}
      BY Zenon, <2>1 DEF Evicted
    <3>2. Present(e) = Present(d)
      BY <1>2, <1>3, <2>1, <3>1 DEF Present
    <3> QED BY Zenon, <1>0, <1>2, <2>1, <3>2
  <2>2. CASE d.store[k] = Nil
    <3>1. V \in Victims(d, ShouldEvict(d))
      BY Zenon, <2>2 DEF Evicted
    <3>2. /\ V \in SUBSET Present(d) /\ Cardinality(V) \in Nat
          /\ d.numKeys < MaxKeys => V = {}
          /\ d.numKeys >= MaxKeys => Cardinality(V) >= 1
      BY Zenon, <3>1, VictimFacts
    <3>3. Present(e) = (Present(d) \ V) \cup {k} /\ k \notin Present(d) \ V
      BY <1>2, <1>3, <2>2, <3>2 DEF Present
    <3>4. /\ IsFiniteSet(Present(d) \ V)
          /\ Cardinality(Present(d) \ V) = Cardinality(Present(d)) - Cardinality(V)
      <4>1. Present(d) \cap V = V
        BY Zenon, <3>2
      <4>2. /\ IsFiniteSet(Present(d) \ V)
            /\ Cardinality(Present(d) \ V) = Cardinality(Present(d)) - Cardinality(Present(d) \cap V)
        BY Zenon, PresentFacts, FS_Difference
      <4> QED BY Zenon, <4>1, <4>2
    <3>5. Cardinality(Present(e)) = Cardinality(Present(d) \ V) + 1
      BY Zenon, <3>3, <3>4, FS_AddElement
    <3>6. e.numKeys = Cardinality(Present(e)) /\ e.numKeys = d.numKeys - Cardinality(V) + 1
      BY <1>0, <1>2, <2>2, <3>4, <3>5
    <3>7. CASE d.numKeys < MaxKeys
      <4>1. Cardinality(V) = 0
        BY Zenon, <3>2, <3>7, FS_EmptySet
      <4> QED BY <1>0, <3>6, <3>7, <4>1, PresentFacts, MaxKeysAssumption
    <3>8. CASE ~(d.numKeys < MaxKeys)
      <4>1. Cardinality(V) >= 1
        BY <1>0, <3>2, <3>8, PresentFacts, MaxKeysAssumption
      <4> QED BY <1>0, <3>2, <3>6, <4>1, PresentFacts, MaxKeysAssumption
    <3> QED BY Zenon, <3>7, <3>8
  <2> QED BY Zenon, <2>1, <2>2
<1> QED BY Zenon, <1>2, <1>4, <1>5 DEF Sound
---------------------------------------------------------------------------
(* What a command can do to the store                                      *)

\* It finds the store as the lookup of its key leaves it,
Reads(d, e, k) == e \in {d, Get(d, k), GetNoTouch(d, k)}

\* stores a new object under the key, perhaps filling it afterwards,
Puts(d, e, k) ==
  \E val, v : \E ms \in Int, keepTTL \in BOOLEAN :
    \E n \in PutNew(Get(d, k), k, val, ms, keepTTL) :
      /\ val[1] # "free" /\ v[1] # "free"
      /\ e = n \/ e = Valued(n, n.store[k], v)

\* changes the object of the key in place,
Writes(d, e, k) ==
  /\ Get(d, k).store[k] # Nil
  /\ \E v : v[1] # "free" /\ e = Valued(Get(d, k), Get(d, k).store[k], v)

\* sets or clears its expiry,
Times(d, e, k) ==
  /\ Get(d, k).store[k] # Nil
  /\ \E x \in Stamps : e = SetUnixTimeExpiry(Get(d, k), Get(d, k).store[k], x)

\* or removes keys it names.
Removes(d, e, K) == \E D \in SUBSET (K \cap Present(d)) : e = deleteKeys(d, D)

Counters == {"INCR", "DECR", "INCRBY", "DECRBY"}

\* The outcomes with which the command n may have acted.
Acted(n, o) == o.st = "ok" \/ ActsAnyway(n, o.st)

\* The outcomes of the command n on the key k.
Outcome(d, n, k, o) ==
  /\ o.nil \in NilResults \cup {NotShared}
  /\ \/ Reads(d, o.db, k)
     \/ n \in {"SET", "GETSET", "HSET"} /\ Acted(n, o) /\ Puts(d, o.db, k)
     \/ /\ n \in Counters \cup {"ZADD"} /\ Acted(n, o)
        /\ Get(d, k).store[k] = Nil /\ Puts(d, o.db, k)
     \/ Acted(n, o) /\ Writes(d, o.db, k)
     \/ n \in {"GETEX", "EXPIRE", "EXPIREAT"} /\ Acted(n, o) /\ Times(d, o.db, k)
     \/ n = "GETDEL" /\ Acted(n, o) /\ Removes(d, o.db, {k})

LEMMA HashReads ==
  ASSUME NEW d, NEW a, NEW n, NEW o \in evalHGET(d, a) \cup evalHGETALL(d, a)
  PROVE  Outcome(d, n, a[1], o)
<1>1. o.db = Get(d, a[1]) /\ o.nil \in NilResults \cup {NotShared}
  BY DEF evalHGET, evalHGETALL, OnType, Shared, Ok, Err, Reply, NilResults
<1> QED BY Zenon, <1>1 DEF Outcome, Reads

LEMMA SortedReads ==
  ASSUME NEW d, NEW a, NEW n,
         NEW o \in evalZCARD(d, a) \cup evalZCOUNT(d, a) \cup evalZRANGE(d, a)
                     \cup evalZRANK(d, a)
  PROVE  Outcome(d, n, a[1], o)
<1>1. o.db \in {d, Get(d, a[1])} /\ o.nil \in NilResults \cup {NotShared}
  BY DEF evalZCARD, evalZCOUNT, evalZRANGE, evalZRANK, ZRead, OnType, Shared, Ok, Err, Reply,
         NilResults
<1> QED BY Zenon, <1>1 DEF Outcome, Reads
LEMMA PutsNew ==
  ASSUME NEW d, NEW k, NEW val, val[1] # "free", NEW ms \in Int, NEW keepTTL \in BOOLEAN,
         NEW n \in PutNew(Get(d, k), k, val, ms, keepTTL)
  PROVE  Puts(d, n, k)
BY Zenon DEF Puts

LEMMA PutsPlain ==
  ASSUME NEW d, NEW k, NEW val, val[1] # "free",
         NEW n \in PutNew(Get(d, k), k, val, -1, FALSE)
  PROVE  Puts(d, n, k)
<1>1. -1 \in Int /\ FALSE \in BOOLEAN
  OBVIOUS
<1> QED BY <1>1, PutsNew, Zenon

LEMMA PutsFilled ==
  ASSUME NEW d, NEW k, NEW val, val[1] # "free", NEW v, v[1] # "free",
         NEW n \in PutNew(Get(d, k), k, val, -1, FALSE)
  PROVE  Puts(d, Valued(n, n.store[k], v), k)
<1>1. -1 \in Int /\ FALSE \in BOOLEAN
  OBVIOUS
<1> QED BY <1>1, Zenon DEF Puts

LEMMA WritesValue ==
  ASSUME NEW d, NEW k, Get(d, k).store[k] # Nil, NEW v, v[1] # "free"
  PROVE  Writes(d, Valued(Get(d, k), Get(d, k).store[k], v), k)
BY Zenon DEF Writes

LEMMA TimesStamp ==
  ASSUME NEW d, NEW k, Get(d, k).store[k] # Nil, NEW x \in Stamps
  PROVE  Times(d, SetUnixTimeExpiry(Get(d, k), Get(d, k).store[k], x), k)
BY Zenon DEF Times

LEMMA OutcomeNil ==
  ASSUME NEW d, NEW st, NEW r, NEW o,
         o \in Ok(d, r) \/ o \in Err(d) \/ o \in ErrStatus(d) \/ o \in ValueReply(d, r)
  PROVE  /\ o.db = d /\ o.nil = NotShared
         /\ o \in Ok(d, r) => o.st = "ok"
         /\ o \in ValueReply(d, r) => o.st \in {"ok", "status_err"}
         /\ o \in Err(d) => o.st = "err"
BY DEF Ok, Err, ErrStatus, ValueReply, Reply

\* A duration in milliseconds is not negative, or one of the two marks.
LEMMA DurationFacts ==
  ASSUME NEW params, \A opt \in DOMAIN params : params[opt] \in Int, now \in Nat
  PROVE  Duration(params) \in Nat \cup {-1, -2}
<1> DEFINE Within(n, max, unit) == IF 0 < n /\ n < max THEN n * unit ELSE -2
<1>1. ASSUME NEW n \in Int, NEW max, NEW unit \in Nat
      PROVE  Within(n, max, unit) \in Nat \cup {-2}
  <2>1. CASE 0 < n /\ n < max
    <3>1. n \in Nat
      BY <2>1
    <3> QED BY <2>1, <3>1
  <2>2. CASE ~(0 < n /\ n < max)
    BY Zenon, <2>2
  <2> QED BY Zenon, <2>1, <2>2
<1>2. /\ MsPerSec \in Nat /\ 1 \in Nat
      /\ now \div MsPerSec \in Int
  BY ClockAssumption
<1>3. CASE "EX" \in DOMAIN params
  <2>1. Duration(params) = Within(params["EX"], MaxEXDurationSec, MsPerSec)
    BY Zenon, <1>3 DEF Duration
  <2> QED BY Zenon, <1>1, <1>2, <1>3, <2>1
<1>4. CASE "EX" \notin DOMAIN params /\ "PX" \in DOMAIN params
  <2>1. Duration(params) = Within(params["PX"], MaxEXDurationSec, 1)
    BY Zenon, <1>4 DEF Duration
  <2> QED BY Zenon, <1>1, <1>2, <1>4, <2>1
<1> DEFINE at == params["EXAT"] - now \div MsPerSec
           pat == params["PXAT"] - now
           max == MaxEXDurationSec * MsPerSec
<1>5. CASE "EX" \notin DOMAIN params /\ "PX" \notin DOMAIN params /\ "EXAT" \in DOMAIN params
  <2>1. Duration(params) = Within(at, MaxEXDurationSec, MsPerSec)
    BY Zenon, <1>5 DEF Duration
  <2>2. at \in Int
    BY <1>2, <1>5
  <2> HIDE DEF at
  <2> QED BY Zenon, <1>1, <1>2, <2>1, <2>2
<1>6. CASE /\ "EX" \notin DOMAIN params /\ "PX" \notin DOMAIN params
           /\ "EXAT" \notin DOMAIN params /\ "PXAT" \in DOMAIN params
  <2>1. Duration(params) = Within(pat, max, 1)
    BY Zenon, <1>6 DEF Duration
  <2>2. pat \in Int
    BY <1>6
  <2> HIDE DEF pat, max
  <2> QED BY Zenon, <1>1, <1>2, <2>1, <2>2
<1>7. CASE /\ "EX" \notin DOMAIN params /\ "PX" \notin DOMAIN params
           /\ "EXAT" \notin DOMAIN params /\ "PXAT" \notin DOMAIN params
  BY Zenon, <1>7 DEF Duration
<1> QED BY Zenon, <1>3, <1>4, <1>5, <1>6, <1>7

LEMMA KeyReads ==
  ASSUME NEW d, NEW a, NEW n,
         NEW o \in evalGET(d, a) \cup evalTTL(d, a) \cup evalEXPIRETIME(d, a) \cup evalTYPE(d, a)
  PROVE  Outcome(d, n, a[1], o)
<1>1. o.db = Get(d, a[1]) /\ o.nil = NotShared
  BY SMTT(30) DEF evalGET, evalTTL, evalEXPIRETIME, evalTYPE, ExpiryOf, ValueReply, ErrStatus, Ok, Reply
<1> QED BY Zenon, <1>1 DEF Outcome, Reads
LEMMA SetOutcome ==
  ASSUME NEW d, NEW a, now \in Nat, \A opt \in DOMAIN a[3] : a[3][opt] \in Int,
         NEW o \in evalSET(d, a)
  PROVE  Outcome(d, "SET", a[1], o)
<1> DEFINE val == CreateObjectFromValue(a[2])
           ms == Duration(a[3])
           keep == "KEEPTTL" \in DOMAIN a[3]
<1>1. \/ o \in Err(d) \/ o \in Ok(Get(d, a[1]), <<>>)
      \/ o \in OkEach(PutNew(Get(d, a[1]), a[1], val, ms, keep), <<>>)
  BY Zenon DEF evalSET
<1>2. val[1] # "free" /\ keep \in BOOLEAN
  BY DEF CreateObjectFromValue
<1>3. ms \in Int
  BY DurationFacts
<1> HIDE DEF val, ms, keep
<1>4. CASE o \in Err(d) \/ o \in Ok(Get(d, a[1]), <<>>)
  BY <1>4 DEF Err, Ok, Reply, Outcome, Reads
<1>5. CASE o \in OkEach(PutNew(Get(d, a[1]), a[1], val, ms, keep), <<>>)
  <2>1. PICK n \in PutNew(Get(d, a[1]), a[1], val, ms, keep) : o \in Ok(n, <<>>)
    BY Zenon, <1>5 DEF OkEach
  <2>2. Puts(d, n, a[1])
    BY Zenon, <1>2, <1>3, PutsNew
  <2> QED BY <2>1, <2>2 DEF Ok, Reply, Outcome, Acted, ActsAnyway
<1> QED BY Zenon, <1>1, <1>4, <1>5

LEMMA GetSetOutcome ==
  ASSUME NEW d, NEW a, NEW o \in evalGETSET(d, a)
  PROVE  Outcome(d, "GETSET", a[1], o)
<1> DEFINE val == CreateObjectFromValue(a[2])
           text == getWireValueFromObj(Get(d, a[1]), Get(d, a[1]).store[a[1]])
<1>1. PICK n \in PutNew(Get(d, a[1]), a[1], val, -1, FALSE) : o \in ValueReply(n, text)
  BY Zenon DEF evalGETSET
<1>2. val[1] # "free"
  BY Zenon DEF CreateObjectFromValue
<1> HIDE DEF val, text
<1>3. Puts(d, n, a[1])
  BY Zenon, <1>2, PutsPlain
<1> QED BY <1>1, <1>3, OutcomeNil DEF Outcome, Acted, ActsAnyway

LEMMA IncrOutcome ==
  ASSUME NEW d, NEW k, NEW delta, NEW n \in Counters, NEW o \in doIncr(d, k, delta)
  PROVE  Outcome(d, n, k, o)
<1> DEFINE g == Get(d, k)
           p == g.store[k]
           sum == Wrap(Data(g, p) + delta)
           new == <<"int", delta>>
<1>1. CASE p = Nil
  <2>1. PICK e \in PutNew(g, k, new, -1, FALSE) : o \in Ok(e, <<delta>>)
    BY Zenon, <1>1 DEF doIncr, OkEach
  <2>2. new[1] # "free"
    BY Zenon
  <2> HIDE DEF new
  <2>3. Puts(d, e, k)
    BY Zenon, <2>2, PutsPlain
  <2> QED BY <1>1, <2>1, <2>3 DEF Outcome, Acted, ActsAnyway, Ok, Reply
<1>2. CASE p # Nil /\ Type(g, p) # "int"
  BY <1>2 DEF doIncr, Err, Reply, Outcome, Reads
<1>3. CASE p # Nil /\ ~(Type(g, p) # "int")
  <2>1. o \in Ok(Valued(g, p, <<"int", sum>>), <<sum>>)
    BY Zenon, <1>3 DEF doIncr, Valued
  <2>2. Writes(d, Valued(g, p, <<"int", sum>>), k)
    <3>1. <<"int", sum>>[1] # "free"
      BY Zenon
    <3>2. PICK v : v = <<"int", sum>> /\ v[1] # "free"
      BY Zenon, <3>1
    <3>3. Writes(d, Valued(g, p, v), k)
      BY Zenon, <1>3, <3>2, WritesValue
    <3> QED BY Zenon, <3>2, <3>3
  <2> QED BY <2>1, <2>2 DEF Outcome, Acted, ActsAnyway, Ok, Reply
<1> QED BY Zenon, <1>1, <1>2, <1>3

LEMMA CounterOutcomes ==
  ASSUME NEW d, NEW a,
         NEW o \in evalINCR(d, a) \cup evalDECR(d, a) \cup evalINCRBY(d, a) \cup evalDECRBY(d, a)
  PROVE  \A n \in Counters : Outcome(d, n, a[1], o)
<1>1. CASE o \in Err(d)
  BY <1>1 DEF Err, Reply, Outcome, Reads
<1>2. ASSUME NEW delta, o \in doIncr(d, a[1], delta)
      PROVE  \A n \in Counters : Outcome(d, n, a[1], o)
  BY Zenon, <1>2, IncrOutcome
<1>3. \/ o \in Err(d) \/ o \in doIncr(d, a[1], 1) \/ o \in doIncr(d, a[1], -1)
      \/ o \in doIncr(d, a[1], a[2][2]) \/ o \in doIncr(d, a[1], Wrap(-a[2][2]))
  BY Zenon DEF evalINCR, evalDECR, evalINCRBY, evalDECRBY
<1> QED BY Zenon, <1>1, <1>2, <1>3
LEMMA GetExOutcome ==
  ASSUME NEW d, NEW a, now \in Nat, \A opt \in DOMAIN a[2] : a[2][opt] \in Int,
         NEW o \in evalGETEX(d, a)
  PROVE  Outcome(d, "GETEX", a[1], o)
<1> DEFINE g == Get(d, a[1])
           p == g.store[a[1]]
           ms == Duration(a[2])
           text == getWireValueFromObj(g, p)
<1>1. CASE o \in Err(d) \/ o \in Ok(g, getWireValueFromObj(g, Nil)) \/ o \in ValueReply(g, text)
  BY <1>1, OutcomeNil DEF Outcome, Reads
<1>2. ASSUME p # Nil, NEW x \in Stamps, o \in ValueReply(SetUnixTimeExpiry(g, p, x), text)
      PROVE  Outcome(d, "GETEX", a[1], o)
  <2>1. Times(d, SetUnixTimeExpiry(g, p, x), a[1])
    BY Zenon, <1>2, TimesStamp
  <2> HIDE DEF g, p, text
  <2> QED BY <1>2, <2>1, OutcomeNil DEF Outcome, Acted, ActsAnyway
<1>3. ms \in Nat \cup {-1, -2}
  BY Zenon, DurationFacts
<1>4. \/ o \in Err(d) \/ o \in Ok(g, getWireValueFromObj(g, Nil)) \/ o \in ValueReply(g, text)
      \/ p # Nil /\ o \in ValueReply(DelExpiry(g, p), text)
      \/ p # Nil /\ ms # -1 /\ ms # -2 /\ o \in ValueReply(SetExpiry(g, p, ms), text)
  BY Zenon DEF evalGETEX
<1>5. NoExpiry \in Stamps /\ DelExpiry(g, p) = SetUnixTimeExpiry(g, p, NoExpiry)
  BY Zenon DEF Stamps, DelExpiry, SetUnixTimeExpiry
<1>6. /\ ms # -1 /\ ms # -2 => now + ms \in Stamps
      /\ SetExpiry(g, p, ms) = SetUnixTimeExpiry(g, p, now + ms)
  BY <1>3 DEF Stamps, SetExpiry
<1> HIDE DEF g, p, ms, text
<1> QED BY Zenon, <1>1, <1>2, <1>4, <1>5, <1>6

LEMMA ExpireOutcome ==
  ASSUME NEW d, NEW k, NEW ms \in Nat, NEW opts, NEW n \in {"EXPIRE", "EXPIREAT"},
         NEW o \in ExpiryReply(EvaluateAndSetExpiry(d, k, ms, opts))
  PROVE  Outcome(d, n, k, o)
<1> DEFINE g == Get(d, k)
           p == g.store[k]
           r == EvaluateAndSetExpiry(d, k, ms, opts)
<1>1. \/ r \in {<<g, "unset">>, <<g, "err">>}
      \/ /\ p # Nil
         /\ r \in {<<SetUnixTimeExpiry(g, p, ms), "set">>, <<SetUnixTimeExpiry(g, p, ms), "unset">>}
  BY Zenon DEF EvaluateAndSetExpiry
<1>2. /\ r[2] = "err" => o \in Err(r[1])
      /\ r[2] # "err" => o \in Ok(r[1], <<r[2]>>)
  BY Zenon DEF ExpiryReply
<1>3. CASE r \in {<<g, "unset">>, <<g, "err">>}
  <2>1. r[1] = Get(d, k)
    BY <1>3
  <2> HIDE DEF r
  <2> QED BY <1>2, <2>1, OutcomeNil DEF Outcome, Reads
<1>4. CASE /\ p # Nil
           /\ r \in {<<SetUnixTimeExpiry(g, p, ms), "set">>, <<SetUnixTimeExpiry(g, p, ms), "unset">>}
  <2>1. r[1] = SetUnixTimeExpiry(g, p, ms) /\ r[2] # "err"
    BY <1>4
  <2>2. Times(d, r[1], k)
    <3>1. ms \in Stamps
      BY Zenon DEF Stamps
    <3> QED BY Zenon, <1>4, <2>1, <3>1, TimesStamp
  <2> HIDE DEF r
  <2> QED BY <1>2, <2>1, <2>2, OutcomeNil DEF Outcome, Acted, ActsAnyway
<1> QED BY Zenon, <1>1, <1>3, <1>4

LEMMA ExpireOutcomes ==
  ASSUME NEW d, NEW a, a[2] \in Int, now \in Nat, NEW n \in {"EXPIRE", "EXPIREAT"},
         NEW o \in evalEXPIRE(d, a) \cup evalEXPIREAT(d, a)
  PROVE  Outcome(d, n, a[1], o)
<1>1. CASE o \in Err(d)
  BY <1>1 DEF Err, Reply, Outcome, Reads
<1>2. ASSUME NEW ms \in Nat, o \in ExpiryReply(EvaluateAndSetExpiry(d, a[1], ms, a[3]))
      PROVE  Outcome(d, n, a[1], o)
  BY Zenon, <1>2, ExpireOutcome
<1>3. a[2] >= 0 => now + a[2] * MsPerSec \in Nat /\ a[2] * MsPerSec \in Nat
  BY ClockAssumption
<1>4. \/ o \in Err(d)
      \/ a[2] >= 0 /\ o \in ExpiryReply(EvaluateAndSetExpiry(d, a[1], now + a[2] * MsPerSec, a[3]))
      \/ a[2] >= 0 /\ o \in ExpiryReply(EvaluateAndSetExpiry(d, a[1], a[2] * MsPerSec, a[3]))
  BY DEF evalEXPIRE, evalEXPIREAT
<1> QED BY Zenon, <1>1, <1>2, <1>3, <1>4

LEMMA GetDelOutcome ==
  ASSUME NEW d, Sound(d), NEW a, a[1] \in Keys, NEW o \in evalGETDEL(d, a)
  PROVE  Outcome(d, "GETDEL", a[1], o)
<1> DEFINE k == a[1]
           g == GetNoTouch(d, k)
           p == g.store[k]
           text == getWireValueFromObj(g, p)
<1>1. CASE p = Nil
  BY <1>1, OutcomeNil DEF evalGETDEL, Outcome, Reads
<1>2. CASE p # Nil
  <2>1. g = d
    <3>1. CASE hasExpired(d, d.store[k]) /\ d.store[k] # Nil
      <4>1. g = deleteKey(d, k, d.store[k])
        BY Zenon, <3>1 DEF GetNoTouch, getHelper
      <4>2. g = deleteKeys(d, {k}) /\ {k} \in SUBSET Keys
        BY Zenon, <4>1, DeleteOne DEF Sound
      <4>3. g.store = [j \in Keys |-> IF j \in {k} THEN Nil ELSE d.store[j]]
        <5>1. DeleteAs(d, g, {k})
          BY Zenon, <4>2, DeleteShape DEF Sound
        <5> QED BY Zenon, <5>1 DEF DeleteAs
      <4> QED BY Zenon, <1>2, <4>3
    <3>2. CASE ~(hasExpired(d, d.store[k]) /\ d.store[k] # Nil)
      BY Zenon, <3>2 DEF GetNoTouch, getHelper
    <3> QED BY Zenon, <3>1, <3>2
  <2>2. GetDel(g, k) = deleteKeys(d, {k}) /\ {k} \in SUBSET ({k} \cap Present(d))
    BY Zenon, <1>2, <2>1, DeleteOne DEF GetDel, Del, Sound, Present
  <2>3. o \in ValueReply(GetDel(g, k), text)
    BY Zenon, <1>2 DEF evalGETDEL
  <2>4. Removes(d, GetDel(g, k), {k})
    BY Zenon, <2>2 DEF Removes
  <2> HIDE DEF g, p, text
  <2> QED BY <2>3, <2>4, OutcomeNil DEF Outcome, Acted, ActsAnyway
<1> QED BY Zenon, <1>1, <1>2
LEMMA Tagged ==
  ASSUME NEW t \in {"int", "ssmap", "sortedset"}, NEW x
  PROVE  \E v : v = <<t, x>> /\ v[1] # "free"
<1>1. <<t, x>>[1] # "free"
  BY Zenon
<1> QED BY <1>1, Zenon

LEMMA HashOutcome ==
  ASSUME NEW d, NEW a, NEW o \in evalHSET(d, a)
  PROVE  Outcome(d, "HSET", a[1], o)
<1>1. CASE o \in Err(Get(d, a[1]))
  BY Zenon, <1>1, OutcomeNil DEF Outcome, Reads
<1>2. CASE \E new, r : o \in OkEach(PutNew(Get(d, a[1]), a[1], <<"ssmap", new>>, -1, FALSE), r)
  <2>1. PICK new, r : o \in OkEach(PutNew(Get(d, a[1]), a[1], <<"ssmap", new>>, -1, FALSE), r)
    BY Zenon, <1>2
  <2>2. PICK val : val = <<"ssmap", new>> /\ val[1] # "free"
    BY Zenon, Tagged
  <2>3. PICK n \in PutNew(Get(d, a[1]), a[1], val, -1, FALSE) : o \in Ok(n, r)
    BY Zenon, <2>1, <2>2 DEF OkEach
  <2>4. Puts(d, n, a[1])
    BY Zenon, <2>2, PutsPlain
  <2> QED BY <2>3, <2>4, OutcomeNil DEF Outcome, Acted, ActsAnyway
<1>3. \/ o \in Err(Get(d, a[1]))
      \/ \E new, r : o \in OkEach(PutNew(Get(d, a[1]), a[1], <<"ssmap", new>>, -1, FALSE), r)
  BY Zenon DEF evalHSET
<1> QED BY Zenon, <1>1, <1>2, <1>3

LEMMA SortedAdd ==
  ASSUME NEW d, NEW a, NEW o \in evalZADD(d, a)
  PROVE  Outcome(d, "ZADD", a[1], o)
<1> DEFINE k == a[1]
           g == Get(d, k)
           p == g.store[k]
           Filled(n) == \E z, r : LET e == Valued(n, n.store[k], <<"sortedset", z>>)
                                  IN  o \in Ok(e, r) \/ o \in Err(e)
<1>1. \/ o \in Err(d) \/ o \in Err(g)
      \/ p # Nil /\ Filled(g)
      \/ p = Nil /\ \E n \in PutNew(g, k, <<"sortedset", <<>>>>, -1, FALSE) : Filled(n)
  <2> DEFINE n       == Len(a[3]) \div 2
             texts   == [i \in 1 .. n |-> a[3][2 * i - 1]]
             members == [i \in 1 .. n |-> a[3][2 * i]]
             scores  == [i \in 1 .. n |-> texts[i][2]]
             Add(h, q) == LET r == ZADD(Data(h, q), scores, members, a[2])
                              e == [h EXCEPT !.obj[q].val = <<"sortedset", r[1]>>]
                          IN  IF r[3] THEN Ok(e, <<r[2]>>) ELSE Err(e)
  <2>1. \/ o \in Err(d) \/ o \in Err(g)
        \/ p # Nil /\ o \in Add(g, p)
        \/ p = Nil /\ o \in UNION {Add(e, e.store[k]) :
                                    e \in PutNew(g, k, <<"sortedset", <<>>>>, -1, FALSE)}
    BY Zenon DEF evalZADD, OnType
  <2>2. ASSUME NEW h, o \in Add(h, h.store[k]) PROVE Filled(h)
    <3>1. PICK r : r = ZADD(Data(h, h.store[k]), scores, members, a[2])
      BY Zenon
    <3>2. \/ o \in Ok(Valued(h, h.store[k], <<"sortedset", r[1]>>), <<r[2]>>)
          \/ o \in Err(Valued(h, h.store[k], <<"sortedset", r[1]>>))
      BY Zenon, <2>2, <3>1 DEF Valued
    <3> HIDE DEF Add
    <3> QED BY Zenon, <3>2
  <2> HIDE DEF Add, Filled
  <2> QED BY Zenon, <2>1, <2>2
<1>2. CASE o \in Err(d) \/ o \in Err(g)
  BY Zenon, <1>2, OutcomeNil DEF Outcome, Reads
<1>3. CASE p # Nil /\ Filled(g)
  <2>1. PICK z, r : LET e == Valued(g, p, <<"sortedset", z>>)
                    IN  o \in Ok(e, r) \/ o \in Err(e)
    BY Zenon, <1>3
  <2>2. PICK v : v = <<"sortedset", z>> /\ v[1] # "free"
    BY Zenon, Tagged
  <2>3. Writes(d, Valued(g, p, v), k)
    BY Zenon, <1>3, <2>2, WritesValue
  <2>4. o.db = Valued(g, p, v) /\ o.nil = NotShared
    BY <2>1, <2>2, OutcomeNil
  <2> HIDE DEF g, p
  <2> QED BY Zenon, <2>3, <2>4 DEF Outcome, Acted, ActsAnyway
<1>4. CASE p = Nil /\ \E n \in PutNew(g, k, <<"sortedset", <<>>>>, -1, FALSE) : Filled(n)
  <2>1. PICK val : val = <<"sortedset", <<>>>> /\ val[1] # "free"
    BY Zenon, Tagged
  <2>2. PICK n \in PutNew(g, k, val, -1, FALSE) : Filled(n)
    BY Zenon, <1>4, <2>1
  <2>3. PICK z, r : LET e == Valued(n, n.store[k], <<"sortedset", z>>)
                    IN  o \in Ok(e, r) \/ o \in Err(e)
    BY Zenon, <2>2
  <2>4. PICK v : v = <<"sortedset", z>> /\ v[1] # "free"
    BY Zenon, Tagged
  <2>5. Puts(d, Valued(n, n.store[k], v), k)
    BY Zenon, <2>1, <2>4, PutsFilled
  <2>6. o.db = Valued(n, n.store[k], v) /\ o.nil = NotShared
    BY <2>3, <2>4, OutcomeNil
  <2> QED BY Zenon, <1>4, <2>5, <2>6 DEF Outcome, Acted, ActsAnyway
<1> QED BY Zenon, <1>1, <1>2, <1>3, <1>4

LEMMA SortedTake ==
  ASSUME NEW d, NEW a, NEW n, NEW o \in evalZREM(d, a) \cup evalZPOPMIN(d, a) \cup evalZPOPMAX(d, a)
  PROVE  Outcome(d, n, a[1], o)
<1> DEFINE k == a[1]
           g == Get(d, k)
           p == g.store[k]
<1>1. \/ o \in Err(d) \/ o \in Err(g) \/ \E r : o \in Ok(g, r)
      \/ p # Nil /\ \E gone, r : o \in Ok(Without(g, p, gone), r)
  BY Zenon DEF evalZREM, evalZPOPMIN, evalZPOPMAX, Pop, OnType
<1>2. CASE o \in Err(d) \/ o \in Err(g) \/ \E r : o \in Ok(g, r)
  BY <1>2, OutcomeNil DEF Outcome, Reads
<1>3. CASE p # Nil /\ \E gone, r : o \in Ok(Without(g, p, gone), r)
  <2>1. PICK gone, r : o \in Ok(Without(g, p, gone), r)
    BY Zenon, <1>3
  <2>2. PICK v : /\ v = <<"sortedset", Restrict(g.obj[p].val[2], DOMAIN g.obj[p].val[2] \ gone)>>
                 /\ v[1] # "free"
    BY Zenon, Tagged
  <2>3. Without(g, p, gone) = Valued(g, p, v)
    BY Zenon, <2>2 DEF Without, Valued
  <2>4. Writes(d, Valued(g, p, v), k)
    BY Zenon, <1>3, <2>2, WritesValue
  <2> HIDE DEF g, p
  <2> QED BY <2>1, <2>3, <2>4, OutcomeNil DEF Outcome, Acted, ActsAnyway
<1> QED BY Zenon, <1>1, <1>2, <1>3
---------------------------------------------------------------------------
(* Dispatch                                                                *)

LEMMA RegistryFacts ==
  /\ \A n \in DOMAIN Registry : n \notin Keyless => 0 \notin Registry[n]
  /\ DOMAIN Registry =
       {"GET", "SET", "GETDEL", "GETEX", "GETSET", "INCR", "DECR",
        "INCRBY", "DECRBY", "DEL", "EXISTS", "EXPIRE", "EXPIREAT", "TTL",
        "EXPIRETIME", "TYPE", "KEYS", "FLUSHDB", "ECHO", "PING",
        "HANDSHAKE", "HELLO", "UNWATCH", "HSET", "HGET", "HGETALL", "ZADD",
        "ZCARD", "ZCOUNT", "ZRANGE", "ZRANK", "ZREM", "ZPOPMIN", "ZPOPMAX"}
BY DEF Registry, Keyless

LEMMA EvalCases ==
  ASSUME NEW d, NEW a, NEW n \in DOMAIN Registry, NEW o \in Eval(d, n, a)
  PROVE  \/ n = "GET" /\ o \in evalGET(d, a)
         \/ n = "SET" /\ o \in evalSET(d, a)
         \/ n = "GETDEL" /\ o \in evalGETDEL(d, a)
         \/ n = "GETEX" /\ o \in evalGETEX(d, a)
         \/ n = "GETSET" /\ o \in evalGETSET(d, a)
         \/ n = "INCR" /\ o \in evalINCR(d, a)
         \/ n = "DECR" /\ o \in evalDECR(d, a)
         \/ n = "INCRBY" /\ o \in evalINCRBY(d, a)
         \/ n = "DECRBY" /\ o \in evalDECRBY(d, a)
         \/ n = "DEL" /\ o \in evalDEL(d, a)
         \/ n = "EXISTS" /\ o \in evalEXISTS(d, a)
         \/ n = "EXPIRE" /\ o \in evalEXPIRE(d, a)
         \/ n = "EXPIREAT" /\ o \in evalEXPIREAT(d, a)
         \/ n = "TTL" /\ o \in evalTTL(d, a)
         \/ n = "EXPIRETIME" /\ o \in evalEXPIRETIME(d, a)
         \/ n = "TYPE" /\ o \in evalTYPE(d, a)
         \/ n = "KEYS" /\ o \in evalKEYS(d, a)
         \/ n = "FLUSHDB" /\ o \in evalFLUSHDB(d, a)
         \/ n = "ECHO" /\ o \in evalECHO(d, a)
         \/ n = "PING" /\ o \in evalPING(d, a)
         \/ n = "HANDSHAKE" /\ o \in evalHANDSHAKE(d, a)
         \/ n = "HELLO" /\ o \in evalHELLOCmd(d, a)
         \/ n = "UNWATCH" /\ o \in evalUNWATCH(d, a)
         \/ n = "HSET" /\ o \in evalHSET(d, a)
         \/ n = "HGET" /\ o \in evalHGET(d, a)
         \/ n = "HGETALL" /\ o \in evalHGETALL(d, a)
         \/ n = "ZADD" /\ o \in evalZADD(d, a)
         \/ n = "ZCARD" /\ o \in evalZCARD(d, a)
         \/ n = "ZCOUNT" /\ o \in evalZCOUNT(d, a)
         \/ n = "ZRANGE" /\ o \in evalZRANGE(d, a)
         \/ n = "ZRANK" /\ o \in evalZRANK(d, a)
         \/ n = "ZREM" /\ o \in evalZREM(d, a)
         \/ n = "ZPOPMIN" /\ o \in evalZPOPMIN(d, a)
         \/ n = "ZPOPMAX" /\ o \in evalZPOPMAX(d, a)
BY RegistryFacts DEF Eval
Shaped(O) == \A q \in O : DOMAIN q = {"db", "st", "res", "nil", "marked"}

LEMMA WatchMarks ==
  ASSUME NEW d, NEW a, NEW n \in Watchable
  PROVE  Shaped(Eval(d, n, a)) /\ EvalWatch(d, n, a) = Marked(Eval(d, n, a))
<1>1. Shaped(evalGET(d, a))
  BY Zenon DEF Shaped, evalGET, ValueReply, ErrStatus, Ok, Reply
<1>2. Shaped(evalHGET(d, a)) /\ Shaped(evalHGETALL(d, a))
  BY Zenon DEF Shaped, evalHGET, evalHGETALL, OnType, Shared, Ok, Err, Reply
<1>3. Shaped(evalZCARD(d, a)) /\ Shaped(evalZCOUNT(d, a))
  BY Zenon DEF Shaped, evalZCARD, evalZCOUNT, ZRead, OnType, Shared, Ok, Err, Reply
<1>4. Shaped(evalZRANGE(d, a)) /\ Shaped(evalZRANK(d, a))
  BY Zenon DEF Shaped, evalZRANGE, evalZRANK, ZRead, OnType, Shared, Ok, Err, Reply
<1>5. CASE n = "GET"
  BY Zenon, <1>5, <1>1 DEF Eval, EvalWatch, evalGETWATCH
<1>6. CASE n = "HGET"
  BY Zenon, <1>6, <1>2 DEF Eval, EvalWatch, evalHGETWATCH
<1>7. CASE n = "HGETALL"
  BY Zenon, <1>7, <1>2 DEF Eval, EvalWatch, evalHGETALLWATCH
<1>8. CASE n = "ZCARD"
  BY Zenon, <1>8, <1>3 DEF Eval, EvalWatch, evalZCARDWATCH
<1>9. CASE n = "ZCOUNT"
  BY Zenon, <1>9, <1>3 DEF Eval, EvalWatch, evalZCOUNTWATCH
<1>10. CASE n = "ZRANGE"
  BY Zenon, <1>10, <1>4 DEF Eval, EvalWatch, evalZRANGEWATCH
<1>11. CASE n = "ZRANK"
  BY Zenon, <1>11, <1>4 DEF Eval, EvalWatch, evalZRANKWATCH
<1> QED BY Zenon, <1>5, <1>6, <1>7, <1>8, <1>9, <1>10, <1>11 DEF Watchable

\* A .WATCH evaluator writes into the reply and leaves the store as its
\* evaluator does.
LEMMA WatchCases ==
  ASSUME NEW d, NEW a, NEW n \in Watchable
  PROVE  /\ \A o \in EvalWatch(d, n, a) : \E q \in Eval(d, n, a) :
              o.db = q.db /\ o.st = q.st /\ o.nil = q.nil /\ o.res = q.res
         /\ \A q \in Eval(d, n, a) : \E o \in EvalWatch(d, n, a) :
              o.db = q.db /\ o.st = q.st /\ o.nil = q.nil /\ o.res = q.res
<1>1. Shaped(Eval(d, n, a)) /\ EvalWatch(d, n, a) = Marked(Eval(d, n, a))
  BY Zenon, WatchMarks
<1>2. ASSUME NEW q \in Eval(d, n, a), NEW o,
             o = IF q.st = "err" THEN q ELSE [q EXCEPT !.marked = TRUE]
      PROVE  o.db = q.db /\ o.st = q.st /\ o.nil = q.nil /\ o.res = q.res
  <2>1. DOMAIN q = {"db", "st", "res", "nil", "marked"}
    BY Zenon, <1>1 DEF Shaped
  <2> QED BY Zenon, <1>2, <2>1
<1> QED BY ZenonT(40), <1>1, <1>2 DEF Marked

\* The outcomes of a command line.
Ran(d, c, o) ==
  /\ o.nil \in NilResults \cup {NotShared}
  /\ \/ o.db = d
     \/ c[2][1] \in Keys /\ Named(c) = {c[2][1]} /\ Outcome(d, c[1], c[2][1], o)
     \/ o.st = "ok" /\ c[1] \in {"DEL", "EXISTS"} /\ Removes(d, o.db, Named(c))
     \/ o.st = "ok" /\ Named(c) = Keys /\ o.db = NewStore

LEMMA EvalRan ==
  ASSUME NEW d, Sound(d), now \in Nat, NEW c, WellFormed(c), c[1] \in DOMAIN Registry,
         Len(c[2]) \in Registry[c[1]], NEW o \in Eval(d, c[1], c[2])
  PROVE  Ran(d, c, o)
<1> DEFINE a == c[2]
           n == c[1]
<1>1. /\ n \notin Keyless => a[1] \in Keys
      /\ n \in {"DEL", "EXISTS"} => Range(a) \subseteq Keys
      /\ n \in {"EXPIRE", "EXPIREAT"} => a[2] \in Int
      /\ n = "SET" => \A opt \in DOMAIN a[3] : a[3][opt] \in Int
      /\ n = "GETEX" => \A opt \in DOMAIN a[2] : a[2][opt] \in Int
  BY Zenon DEF WellFormed
<1>2. n \notin Keyless \cup {"DEL", "EXISTS"} => a[1] \in Keys /\ Named(c) = {a[1]}
  <2>1. n \notin Keyless => a # <<>>
    BY Zenon, RegistryFacts
  <2> QED BY Zenon, <1>1, <2>1 DEF Named, Keyless
<1>3. ASSUME n \notin Keyless \cup {"DEL", "EXISTS"}, Outcome(d, n, a[1], o)
      PROVE  Ran(d, c, o)
  BY Zenon, <1>2, <1>3 DEF Ran, Outcome
<1>4. CASE n \in Keyless \ {"FLUSHDB"}
  <2>1. o.db = d /\ o.nil = NotShared
    BY <1>4, EvalCases DEF Keyless, evalKEYS, evalECHO, evalPING, evalHANDSHAKE,
       evalHELLOCmd, evalUNWATCH, Ok, Reply
  <2> QED BY Zenon, <2>1 DEF Ran
<1>5. CASE n = "FLUSHDB"
  <2>1. o \in evalFLUSHDB(d, a)
    BY Zenon, <1>5, EvalCases
  <2> QED BY <1>5, <2>1 DEF evalFLUSHDB, Reset, Ok, Reply, Ran, Named
<1>6. CASE n = "DEL"
  <2>1. o \in evalDEL(d, a)
    BY Zenon, <1>6, EvalCases
  <2>2. o.db = deleteKeys(d, Range(a) \cap Present(d)) /\ o.nil = NotShared /\ o.st = "ok"
    BY <2>1 DEF evalDEL, Ok, Reply
  <2> QED BY Zenon, <1>6, <2>2 DEF Ran, Removes, Named
<1>7. CASE n = "EXISTS"
  <2> DEFINE D == {k \in Range(a) \cap Present(d) : hasExpired(d, d.store[k])}
  <2>1. o \in evalEXISTS(d, a)
    BY Zenon, <1>7, EvalCases
  <2>2. o.db = deleteKeys(d, D) /\ o.nil = NotShared /\ o.st = "ok"
    BY <2>1 DEF evalEXISTS, Ok, Reply
  <2>3. D \in SUBSET (Named(c) \cap Present(d))
    BY Zenon, <1>7 DEF Named
  <2> HIDE DEF D
  <2> QED BY Zenon, <1>7, <2>2, <2>3 DEF Ran, Removes
<1>8. CASE n \in {"GET", "TTL", "EXPIRETIME", "TYPE"}
  BY Zenon, <1>3, <1>8, EvalCases, KeyReads DEF Keyless
<1>9. CASE n \in {"HGET", "HGETALL"}
  BY Zenon, <1>3, <1>9, EvalCases, HashReads DEF Keyless
<1>10. CASE n \in {"ZCARD", "ZCOUNT", "ZRANGE", "ZRANK"}
  BY Zenon, <1>3, <1>10, EvalCases, SortedReads DEF Keyless
<1>11. CASE n = "SET"
  BY SMTT(30), <1>1, <1>3, <1>11, EvalCases, SetOutcome DEF Keyless
<1>12. CASE n = "GETSET"
  BY SMTT(30), <1>3, <1>12, EvalCases, GetSetOutcome DEF Keyless
<1>13. CASE n = "GETEX"
  BY SMTT(30), <1>1, <1>3, <1>13, EvalCases, GetExOutcome DEF Keyless
<1>14. CASE n = "GETDEL"
  BY <1>2, <1>3, <1>14, EvalCases, GetDelOutcome DEF Keyless
<1>15. CASE n \in Counters
  BY SMTT(30), <1>3, <1>15, EvalCases, CounterOutcomes DEF Keyless, Counters
<1>16. CASE n \in {"EXPIRE", "EXPIREAT"}
  BY SMTT(30), <1>1, <1>3, <1>16, EvalCases, ExpireOutcomes DEF Keyless
<1>17. CASE n = "HSET"
  BY SMTT(30), <1>3, <1>17, EvalCases, HashOutcome DEF Keyless
<1>18. CASE n = "ZADD"
  BY <1>3, <1>18, EvalCases, SortedAdd DEF Keyless
<1>19. CASE n \in {"ZREM", "ZPOPMIN", "ZPOPMAX"}
  BY Zenon, <1>3, <1>19, EvalCases, SortedTake DEF Keyless
<1> HIDE DEF a, n
<1> QED BY Zenon, <1>4, <1>5, <1>6, <1>7, <1>8, <1>9, <1>10, <1>11, <1>12, <1>13, <1>14, <1>15,
           <1>16, <1>17, <1>18, <1>19, RegistryFacts DEF n, Keyless, Counters

\* Whatever a command line does to a sound store is one of these.
LEMMA RunRan ==
  ASSUME NEW d, Sound(d), now \in Nat, NEW c, WellFormed(c), NEW o \in Run(d, c)
  PROVE  Ran(d, c, o)
<1>1. CASE \/ c[1] \notin DOMAIN Registry \/ Len(c[2]) \notin Registry[c[1]]
           \/ c[3] /\ c[1] \notin Watchable
  BY <1>1 DEF Run, Err, Reply, Ran
<1>2. CASE /\ c[1] \in DOMAIN Registry /\ Len(c[2]) \in Registry[c[1]]
           /\ c[3] /\ c[1] \in Watchable
  <2>1. PICK q \in Eval(d, c[1], c[2]) : o.db = q.db /\ o.st = q.st /\ o.nil = q.nil
    BY <1>2, WatchCases DEF Run
  <2>2. Ran(d, c, q)
    BY Zenon, <1>2, EvalRan
  <2> QED BY Zenon, <2>1, <2>2 DEF Ran, Outcome, Acted
<1>3. CASE c[1] \in DOMAIN Registry /\ Len(c[2]) \in Registry[c[1]] /\ ~c[3]
  <2>1. o \in Eval(d, c[1], c[2])
    BY Zenon, <1>3 DEF Run
  <2> QED BY Zenon, <1>3, <2>1, EvalRan
<1> QED BY Zenon, <1>1, <1>2, <1>3
---------------------------------------------------------------------------
(* The tables agree                                                        *)

LEMMA SoundGet ==
  ASSUME NEW d, Sound(d), NEW k \in Keys
  PROVE  Sound(Get(d, k)) /\ Sound(GetNoTouch(d, k))
<1>1. TRUE \in BOOLEAN /\ FALSE \in BOOLEAN
  BY Zenon
<1>2. PICK g, h : g = getHelper(d, k, TRUE) /\ h = getHelper(d, k, FALSE)
  BY Zenon
<1>3. Sound(g) /\ Sound(h)
  BY <1>1, <1>2, GetFacts, Zenon
<1> QED BY Zenon, <1>2, <1>3 DEF Get, GetNoTouch

LEMMA SoundValued ==
  ASSUME NEW d, Sound(d), NEW k \in Keys, d.store[k] # Nil, NEW v, v[1] # "free"
  PROVE  Sound(Valued(d, d.store[k], v))
<1>1. PICK e : e = Valued(d, d.store[k], v)
  BY Zenon
<1>2. d.store[k] \in Ptrs /\ IsStore(d)
  BY Zenon DEF Sound, IsStore
<1>3. /\ IsStore(e)
      /\ e.store = d.store /\ e.expires = d.expires /\ e.numKeys = d.numKeys
      /\ \A q \in Ptrs : e.obj[q].val = IF q = d.store[k] THEN v ELSE d.obj[q].val
  BY <1>1, <1>2, ValFacts
<1>4. ASSUME NEW j \in Keys, d.store[j] # Nil PROVE e.obj[d.store[j]].val[1] # "free"
  <2>1. d.store[j] \in Ptrs /\ d.obj[d.store[j]].val[1] # "free"
    BY <1>2, <1>4 DEF IsStore, Sound, Owned, Type
  <2>2. e.obj[d.store[j]].val = v \/ e.obj[d.store[j]].val = d.obj[d.store[j]].val
    BY Zenon, <1>3, <2>1
  <2> QED BY Zenon, <2>1, <2>2
<1>5. Sound(e)
  BY Zenon, <1>3, <1>4, SoundVals
<1> QED BY Zenon, <1>1, <1>5

LEMMA SoundNew == Sound(NewStore)
<1>1. IsStore(NewStore)
  BY DEF IsStore, NewStore, Blank
<1>2. Owned(NewStore)
  BY Zenon DEF Owned, NewStore
<1>3. Present(NewStore) = {}
  BY Zenon DEF Present, NewStore
<1>4. NewStore.numKeys = Cardinality(Present(NewStore)) /\ NewStore.numKeys <= MaxKeys
  BY <1>3, FS_EmptySet, MaxKeysAssumption DEF NewStore
<1> QED BY Zenon, <1>1, <1>2, <1>4 DEF Sound

LEMMA SoundPuts ==
  ASSUME NEW d, Sound(d), now \in Nat, NEW k \in Keys, NEW e, Puts(d, e, k)
  PROVE  Sound(e)
<1>1. PICK val, v : \E ms \in Int, keepTTL \in BOOLEAN :
        \E n \in PutNew(Get(d, k), k, val, ms, keepTTL) :
          /\ val[1] # "free" /\ v[1] # "free"
          /\ e = n \/ e = Valued(n, n.store[k], v)
  BY Zenon DEF Puts
<1>2. PICK ms \in Int, keepTTL \in BOOLEAN :
        \E n \in PutNew(Get(d, k), k, val, ms, keepTTL) :
          /\ val[1] # "free" /\ v[1] # "free"
          /\ e = n \/ e = Valued(n, n.store[k], v)
  BY Zenon, <1>1
<1>3. PICK n \in PutNew(Get(d, k), k, val, ms, keepTTL) :
          /\ val[1] # "free" /\ v[1] # "free"
          /\ e = n \/ e = Valued(n, n.store[k], v)
  BY Zenon, <1>2
<1>4. PICK g : g = Get(d, k) /\ Sound(g)
  BY Zenon, SoundGet
<1>5. PICK V \in Evicted(g, k) : PutAs(g, n, k, val, PutLife(g, k, ms, keepTTL), V)
  BY Zenon, <1>3, <1>4, PutFacts
<1>6. Sound(n)
  BY Zenon, <1>3, <1>4, <1>5, SoundPut
<1>7. n.store[k] # Nil
  <2>1. n.store[k] = Fresh(g)
    BY Zenon, <1>5 DEF PutAs
  <2>2. Fresh(g) \in Ptrs
    BY Zenon, <1>4, FreshFacts DEF Sound
  <2> QED BY Zenon, <2>1, <2>2, PtrFacts
<1> QED BY Zenon, <1>3, <1>6, <1>7, SoundValued

\* Every command keeps the store sound.
LEMMA SoundRan ==
  ASSUME NEW d, Sound(d), now \in Nat, NEW c, NEW o, Ran(d, c, o)
  PROVE  Sound(o.db)
<1>1. CASE o.db = d
  BY Zenon, <1>1
<1>2. CASE c[2][1] \in Keys /\ Outcome(d, c[1], c[2][1], o)
  <2>1. PICK k \in Keys : k = c[2][1] /\ Outcome(d, c[1], k, o)
    BY Zenon, <1>2
  <2>2. PICK g : g = Get(d, k) /\ Sound(g)
    BY Zenon, SoundGet
  <2>3. CASE Reads(d, o.db, k)
    BY Zenon, <2>3, SoundGet DEF Reads
  <2>4. CASE Puts(d, o.db, k)
    BY Zenon, <2>4, SoundPuts
  <2>5. CASE Writes(d, o.db, k)
    BY Zenon, <2>2, <2>5, SoundValued DEF Writes
  <2>6. CASE Times(d, o.db, k)
    BY Zenon, <2>2, <2>6, SoundExpiry DEF Times
  <2>7. CASE Removes(d, o.db, {k})
    BY Zenon, <2>7, SoundDelete DEF Removes
  <2> QED BY Zenon, <2>1, <2>3, <2>4, <2>5, <2>6, <2>7 DEF Outcome
<1>3. CASE Removes(d, o.db, Named(c))
  BY Zenon, <1>3, SoundDelete DEF Removes
<1>4. CASE o.db = NewStore
  BY Zenon, <1>4, SoundNew
<1> QED BY Zenon, <1>1, <1>2, <1>3, <1>4 DEF Ran

\* Exactly the pointers of neither table are unused.
Collected(d) ==
  \A p \in Ptrs : (Type(d, p) = "free") <=> (p \notin Stored(d) \cup Timed(d))

\* Garbage collection keeps what the tables refer to.
LEMMA CollectFacts ==
  ASSUME NEW d, Sound(d), NEW e, e = Collect(d)
  PROVE  Sound(e) /\ Collected(e)
<1> DEFINE ob == [p \in Ptrs |-> IF p \in Stored(d) \cup Timed(d) THEN d.obj[p] ELSE Blank]
<1>0. IsStore(d) /\ Owned(d)
  BY Zenon DEF Sound
<1>1. e = [store |-> d.store, obj |-> ob, expires |-> d.expires, numKeys |-> d.numKeys]
  <2>1. e = [d EXCEPT !.obj = ob]
    BY Zenon DEF Collect
  <2> HIDE DEF ob
  <2> QED BY Zenon, <1>0, <2>1 DEF IsStore
<1>2. ob = [p \in Ptrs |-> [val |-> ob[p].val, access |-> ob[p].access]]
  BY Zenon, <1>0 DEF IsStore, Blank
<1> HIDE DEF ob
<1>3. IsStore(e)
  BY <1>0, <1>1, <1>2 DEF IsStore
<1>4. ASSUME NEW k \in Keys, d.store[k] # Nil PROVE e.obj[d.store[k]].val[1] # "free"
  <2>1. d.store[k] \in Ptrs /\ d.store[k] \in Stored(d)
    BY Zenon, <1>0, <1>4 DEF IsStore, Stored, Present
  <2>2. e.obj[d.store[k]] = d.obj[d.store[k]]
    BY <1>1, <2>1 DEF ob
  <2> QED BY Zenon, <1>0, <1>4, <2>2 DEF Owned, Type
<1>5. Sound(e)
  BY <1>1, <1>3, <1>4, SoundVals
<1>6. Stored(e) = Stored(d) /\ Timed(e) = Timed(d)
  BY <1>1 DEF Stored, Timed, Present
<1>7. ASSUME NEW p \in Ptrs PROVE (Type(e, p) = "free") <=> (p \notin Stored(e) \cup Timed(e))
  <2>1. CASE p \notin Stored(d) \cup Timed(d)
    <3>1. e.obj[p] = Blank
      BY <1>1, <2>1 DEF ob
    <3>2. Blank.val[1] = "free"
      BY Zenon DEF Blank
    <3> QED BY Zenon, <1>6, <2>1, <3>1, <3>2 DEF Type
  <2>2. CASE p \in Stored(d) \cup Timed(d)
    <3>1. PICK k \in Keys : d.store[k] = p
      BY Zenon, <1>0, <2>2 DEF Stored, Timed, Present, Owned
    <3>2. p # Nil
      BY Zenon, PtrFacts
    <3>3. e.obj[p].val[1] # "free"
      BY Zenon, <1>4, <3>1, <3>2
    <3> QED BY Zenon, <1>6, <2>2, <3>3 DEF Type
  <2> QED BY Zenon, <2>1, <2>2
<1> QED BY Zenon, <1>5, <1>7 DEF Collected
\* The inductive invariant: the store is sound, unused objects are blank, and
\* the command lines stay the ones of the behaviour.
StoreInv ==
  /\ now \in 0 .. MaxNow
  /\ Sound(db) /\ Collected(db)
  /\ menu \in Menus
  /\ out \in [Threads -> [cmd : (UNION Menus) \cup {NoFp}, nil : NilResults \cup {NotShared}]]

LEMMA IdleFacts ==
  Idle \in [cmd : (UNION Menus) \cup {NoFp}, nil : NilResults \cup {NotShared}]
<1>1. Idle.cmd = NoFp /\ Idle.nil = NotShared /\ Idle = [cmd |-> NoFp, nil |-> NotShared]
  BY Zenon DEF Idle
<1> QED BY Zenon, <1>1

LEMMA StoreInvInit == Init => StoreInv
<1> SUFFICES ASSUME Init PROVE StoreInv
  BY Zenon
<1>1. now \in 0 .. MaxNow
  BY ClockAssumption DEF Init
<1>2. Sound(db)
  BY Zenon, SoundNew DEF Init
<1>3. Collected(db)
  <2>1. db = NewStore
    BY Zenon DEF Init
  <2>2. \A p \in Ptrs : NewStore.obj[p] = Blank /\ NewStore.expires[p] = NoExpiry
    BY Zenon DEF NewStore
  <2>3. Blank.val[1] = "free"
    BY Zenon DEF Blank
  <2>4. Stored(NewStore) = {}
    BY Zenon DEF Stored, Present, NewStore
  <2> QED BY Zenon, <2>1, <2>2, <2>3, <2>4 DEF Collected, Type, Timed
<1>4. out \in [Threads -> [cmd : (UNION Menus) \cup {NoFp}, nil : NilResults \cup {NotShared}]]
  <2>1. Idle \in [cmd : (UNION Menus) \cup {NoFp}, nil : NilResults \cup {NotShared}]
    BY Zenon, IdleFacts
  <2> QED BY Zenon, <2>1 DEF Init
<1> QED BY Zenon, <1>1, <1>2, <1>3, <1>4 DEF Init, StoreInv

LEMMA StoreInvStep == StoreInv /\ [Next]_vars => StoreInv'
<1> SUFFICES ASSUME StoreInv, [Next]_vars PROVE StoreInv'
  BY Zenon
<1> DEFINE OutType == [Threads -> [cmd : (UNION Menus) \cup {NoFp}, nil : NilResults \cup {NotShared}]]
<1>0. now \in Nat /\ Sound(db) /\ menu \in Menus /\ out \in OutType
  BY ClockAssumption DEF StoreInv
<1>1. ASSUME NEW t \in Threads, Execute(t) PROVE StoreInv'
  <2>1. PICK c \in menu : \E o \in Run(db, c) :
          /\ db' = Collect(o.db)
          /\ out' = IF o.nil = NotShared THEN out
                    ELSE [out EXCEPT ![t] = [cmd |-> c, nil |-> o.nil]]
    BY Zenon, <1>1 DEF Execute
  <2>2. PICK o \in Run(db, c) :
          /\ db' = Collect(o.db)
          /\ out' = IF o.nil = NotShared THEN out
                    ELSE [out EXCEPT ![t] = [cmd |-> c, nil |-> o.nil]]
    BY Zenon, <2>1
  <2>3. WellFormed(c) /\ c \in UNION Menus
    BY Zenon, <1>0, MenusAssumption
  <2>4. PICK d : d = db /\ Sound(d)
    BY Zenon, <1>0
  <2>5. Ran(d, c, o)
    BY Zenon, <1>0, <2>2, <2>3, <2>4, RunRan
  <2>6. Sound(o.db)
    BY Zenon, <1>0, <2>4, <2>5, SoundRan
  <2>7. PICK e : e = Collect(o.db) /\ Sound(e) /\ Collected(e)
    BY Zenon, <2>6, CollectFacts
  <2>8. Sound(db)' /\ Collected(db)'
    <3>1. db' = e
      BY Zenon, <2>2, <2>7
    <3> QED BY Zenon, <2>7, <3>1
  <2>9. out' \in OutType
    <3>1. o.nil \in NilResults \cup {NotShared}
      BY Zenon, <2>5 DEF Ran
    <3> QED BY Zenon, <1>0, <2>2, <2>3, <3>1
  <2>10. now' = now /\ menu' = menu
    BY Zenon, <1>1 DEF Execute
  <2> QED BY Zenon, <2>8, <2>9, <2>10 DEF StoreInv
<1>2. ASSUME NEW t \in Threads, Send(t) PROVE StoreInv'
  <2>1. out' \in OutType /\ db' = db /\ now' = now /\ menu' = menu
    BY Zenon, <1>0, <1>2, IdleFacts DEF Send
  <2>2. Sound(db)' /\ Collected(db)'
    BY Zenon, <2>1 DEF StoreInv
  <2> QED BY Zenon, <2>1, <2>2 DEF StoreInv
<1>3. CASE Cron
  <2>1. PICK d : d = db /\ Sound(d)
    BY Zenon, <1>0
  <2>2. PICK g : g = DeleteExpiredKeys(d) /\ Sound(g)
    <3>1. {k \in Present(d) : hasExpired(d, d.store[k])} \in SUBSET Present(d)
      BY Zenon
    <3> QED BY Zenon, <2>1, <3>1, SoundDelete DEF DeleteExpiredKeys
  <2>3. PICK e : e = Collect(g) /\ Sound(e) /\ Collected(e)
    BY Zenon, <2>2, CollectFacts
  <2>4. db' = e /\ UNCHANGED <<now, out, menu>>
    BY Zenon, <1>3, <2>1, <2>2, <2>3 DEF Cron
  <2>5. Sound(db)' /\ Collected(db)'
    BY Zenon, <2>3, <2>4
  <2> QED BY Zenon, <2>4, <2>5 DEF StoreInv
<1>4. CASE Tick
  <2>1. now' \in 0 .. MaxNow /\ UNCHANGED <<db, out, menu>>
    BY <1>4, ClockAssumption DEF Tick, StoreInv
  <2>2. Sound(db)' /\ Collected(db)'
    BY Zenon, <2>1 DEF StoreInv
  <2> QED BY Zenon, <2>1, <2>2 DEF StoreInv
<1>5. CASE UNCHANGED vars
  <2>1. UNCHANGED <<now, db, out, menu>>
    BY Zenon, <1>5 DEF vars
  <2>2. Sound(db)' /\ Collected(db)'
    BY Zenon, <2>1 DEF StoreInv
  <2> QED BY Zenon, <2>1, <2>2 DEF StoreInv
<1> QED BY Zenon, <1>1, <1>2, <1>3, <1>4, <1>5 DEF Next

LEMMA StoreInvAgrees == StoreInv => TablesAgree
<1> SUFFICES ASSUME StoreInv PROVE TablesAgree
  BY Zenon
<1>1. Sound(db) /\ IsStore(db) /\ Owned(db)
  BY Zenon DEF StoreInv, Sound
<1>2. TypeOK
  <2>1. DOMAIN db.store = Keys /\ \A k \in Keys : db.store[k] \in Ptrs \cup {Nil}
    BY Zenon, <1>1 DEF IsStore
  <2>2. \A p \in Ptrs : db.expires[p] \in Nat \cup {NoExpiry}
    BY Zenon, <1>1 DEF IsStore
  <2>3. \A p \in Ptrs : (Type(db, p) = "free") = (p \notin Stored(db) \cup Timed(db))
    BY Zenon DEF StoreInv, Collected
  <2>4. db.numKeys \in Int
    BY Zenon, <1>1 DEF IsStore
  <2>5. now \in 0 .. MaxNow /\ \A t \in Threads : out[t].nil \in NilResults \cup {NotShared}
    BY Zenon DEF StoreInv
  <2> QED BY Zenon, <2>1, <2>2, <2>3, <2>4, <2>5 DEF TypeOK
<1>3. Counted /\ WithinCapacity
  BY Zenon, <1>1 DEF Counted, WithinCapacity, Sound
<1>4. ExpiryOwned
  <2>1. Timed(db) \subseteq Stored(db)
    BY Zenon, <1>1, PtrFacts DEF Owned, Timed, Stored, Present
  <2>2. \A j, k \in Present(db) : db.store[j] = db.store[k] => j = k
    BY Zenon, <1>1 DEF Owned, Present
  <2> QED BY Zenon, <2>1, <2>2 DEF ExpiryOwned
<1> QED BY Zenon, <1>2, <1>3, <1>4 DEF TablesAgree

LEMMA StoreInvariant == Spec => []StoreInv
<1> QED BY StoreInvInit, StoreInvStep, PTL DEF Spec

\* store.go:125-310, expire.go, batchevictionlru.go: whatever commands, lazy
\* expiry, the cron task and evictions do, the counter is the number of keys,
\* every expiry belongs to an object of exactly one key, and the shard stays
\* within its limit.
THEOREM StoreTablesAgree == Spec => []TablesAgree
<1> QED BY StoreInvariant, StoreInvAgrees, PTL
=============================================================================
