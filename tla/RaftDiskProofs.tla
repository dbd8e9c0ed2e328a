---------------------------- MODULE RaftDiskProofs --------------------------
(***************************************************************************)
(* What Load makes of the raft files after a crash at any moment, for      *)
(* every deployment and any number of entries, snapshots and prunes.       *)
(***************************************************************************)
EXTENDS RaftDisk, FiniteSetTheorems, TLAPS

LogEntries == [i : Nat, t : Nat]

\* s holds the entries behind index a, one after the other.
From(s, a) == /\ a \in Nat
              /\ s \in Seq(LogEntries)
              /\ \A j \in 1 .. Len(s) : s[j].i = a + j

\* Of the entries s behind index a, those behind index q.
Behind(s, a, q) == SubSeq(s, q - a + 1, Len(s))

LEMMA SeqsEqual ==
  ASSUME NEW S, NEW s \in Seq(S), NEW u \in Seq(S), Len(s) = Len(u),
         \A j \in 1 .. Len(s) : s[j] = u[j]
  PROVE  s = u
  OBVIOUS

LEMMA WholeSeq ==
  ASSUME NEW S, NEW s \in Seq(S)
  PROVE  SubSeq(s, 1, Len(s)) = s
  OBVIOUS

LEMMA LenNat ==
  ASSUME NEW S, NEW s \in Seq(S)
  PROVE  Len(s) \in Nat
  OBVIOUS

LEMMA SubSeqFacts ==
  ASSUME NEW S, NEW s \in Seq(S), NEW m \in Nat, m <= Len(s)
  PROVE  /\ SubSeq(s, m + 1, Len(s)) \in Seq(S)
         /\ Len(SubSeq(s, m + 1, Len(s))) = Len(s) - m
         /\ \A j \in 1 .. Len(s) - m : SubSeq(s, m + 1, Len(s))[j] = s[m + j]
  OBVIOUS

LEMMA HeldParts ==
  ASSUME NEW st, NEW o, NEW u, st = [off |-> o, ents |-> u]
  PROVE  st.off = o /\ st.ents = u
  BY Zenon

\* The places behind m of a sequence give its rest.
LEMMA AtPlacesRest ==
  ASSUME NEW S, NEW s \in Seq(S), NEW m \in Nat, m <= Len(s),
         NEW T, T = m + 1 .. Len(s)
  PROVE  AtPlaces(s, T) = SubSeq(s, m + 1, Len(s))
<1>1. Cardinality(T) = Len(s) - m
  <2>1. CASE m + 1 > Len(s)
    <3>1. T = {} BY <2>1
    <3>2. Cardinality(T) = 0 BY <3>1, FS_EmptySet, Zenon
    <3> QED BY <3>2, <2>1
  <2>2. CASE m + 1 <= Len(s)
    <3>1. m + 1 \in Int /\ Len(s) \in Int OBVIOUS
    <3>2. Cardinality(m + 1 .. Len(s)) = IF m + 1 > Len(s) THEN 0 ELSE Len(s) - (m + 1) + 1
      BY Zenon, <3>1, FS_Interval
    <3> QED BY <3>2, <2>2
  <2> QED BY <2>1, <2>2
<1>2. ASSUME NEW i \in T PROVE Cardinality({j \in T : j <= i}) = i - m
  <2>1. i \in Int /\ i >= m + 1 /\ i <= Len(s) OBVIOUS
  <2>2. {j \in T : j <= i} = m + 1 .. i BY <2>1
  <2>3. Cardinality(m + 1 .. i) = IF m + 1 > i THEN 0 ELSE i - (m + 1) + 1
    BY <2>1, FS_Interval
  <2>4. Cardinality(m + 1 .. i) = i - m BY <2>1, <2>3
  <2> QED BY <2>2, <2>4, Zenon
<1>3. ASSUME NEW k \in 1 .. Len(s) - m
      PROVE  (CHOOSE i \in T : Cardinality({j \in T : j <= i}) = k) = m + k
  <2>1. m + k \in T OBVIOUS
  <2>2. \A i \in T : Cardinality({j \in T : j <= i}) = k <=> i = m + k
    <3> TAKE i \in T
    <3>1. Cardinality({j \in T : j <= i}) = i - m BY Zenon, <1>2
    <3>2. i \in Int OBVIOUS
    <3> QED BY <3>1, <3>2
  <2> DEFINE P(i) == Cardinality({j \in T : j <= i}) = k
  <2>3. P(m + k) BY <2>1, <2>2, Zenon
  <2>4. \A i \in T : P(i) => i = m + k BY <2>2, Zenon
  <2> HIDE DEF P
  <2>5. (CHOOSE i \in T : P(i)) = m + k BY <2>1, <2>3, <2>4, Zenon
  <2> QED BY Zenon, <2>5 DEF P
<1>4. AtPlaces(s, T) = [k \in 1 .. Len(s) - m |-> s[m + k]]
  <2> DEFINE c(k) == CHOOSE i \in T : Cardinality({j \in T : j <= i}) = k
  <2>1. \A k \in 1 .. Len(s) - m : c(k) = m + k BY <1>3, Zenon
  <2>2. AtPlaces(s, T) = [k \in 1 .. Cardinality(T) |-> s[c(k)]] BY Zenon DEF AtPlaces
  <2> HIDE DEF c
  <2>3. AtPlaces(s, T) = [k \in 1 .. Len(s) - m |-> s[c(k)]] BY <1>1, <2>2, Zenon
  <2> QED BY <2>1, <2>3, Zenon
<1>5. SubSeq(s, m + 1, Len(s)) = [k \in 1 .. Len(s) - m |-> s[m + k]]
  OBVIOUS
<1> QED BY Zenon, <1>4, <1>5

LEMMA JoinFrom ==
  ASSUME NEW s, NEW a, From(s, a), NEW u, From(u, a + Len(s))
  PROVE  From(s \o u, a)
<1>1. s \in Seq(LogEntries) /\ u \in Seq(LogEntries) /\ a \in Nat BY Zenon DEF From
<1>2. s \o u \in Seq(LogEntries) /\ Len(s \o u) = Len(s) + Len(u) BY <1>1
<1>3. ASSUME NEW j \in 1 .. Len(s \o u) PROVE (s \o u)[j].i = a + j
  <2>1. CASE j <= Len(s) BY <1>1, <2>1 DEF From
  <2>2. CASE j > Len(s)
    <3>1. j - Len(s) \in 1 .. Len(u) BY <1>1, <1>2, <2>2
    <3>2. u[j - Len(s)].i = a + Len(s) + (j - Len(s)) BY Zenon, <3>1 DEF From
    <3>3. (s \o u)[j] = u[j - Len(s)] BY <1>1, <1>2, <2>2
    <3> QED BY <1>1, <3>2, <3>3
  <2> QED BY <2>1, <2>2, <1>2
<1> QED BY Zenon, <1>1, <1>2, <1>3 DEF From

LEMMA JoinAt ==
  ASSUME NEW S, NEW s \in Seq(S), NEW u \in Seq(S), NEW k \in 1 .. Len(s)
  PROVE  (s \o u)[k] = s[k]
  OBVIOUS

LEMMA ShiftBack ==
  ASSUME NEW m \in Nat, NEW j \in Int, NEW k \in Nat, NEW w, w = k - m
  PROVE  m + j - k = j - w
  OBVIOUS

LEMMA JoinRest ==
  ASSUME NEW S, NEW s \in Seq(S), NEW u \in Seq(S), NEW m \in Nat, m <= Len(s)
  PROVE  SubSeq(s \o u, m + 1, Len(s \o u)) = SubSeq(s, m + 1, Len(s)) \o u
<1> DEFINE l == SubSeq(s \o u, m + 1, Len(s \o u))
           r == SubSeq(s, m + 1, Len(s)) \o u
<1>1. s \o u \in Seq(S) /\ Len(s \o u) = Len(s) + Len(u) OBVIOUS
<1>2. /\ l \in Seq(S) /\ Len(l) = Len(s) + Len(u) - m
      /\ \A j \in 1 .. Len(s) + Len(u) - m : l[j] = (s \o u)[m + j]
  BY <1>1, SubSeqFacts
<1> PICK v : v = SubSeq(s, m + 1, Len(s)) BY Zenon
<1>3. /\ v \in Seq(S) /\ Len(v) = Len(s) - m
      /\ \A j \in 1 .. Len(s) - m : v[j] = s[m + j]
  BY Zenon, SubSeqFacts
<1>4. r = v \o u BY Zenon
<1> HIDE DEF l, r
<1>5. r \in Seq(S) /\ Len(r) = Len(s) + Len(u) - m
  <2>1. v \in Seq(S) /\ Len(v) = Len(s) - m BY <1>3, Zenon
  <2>2. r \in Seq(S) /\ Len(r) = Len(v) + Len(u) BY <1>4, <2>1
  <2>3. Len(s) \in Nat /\ Len(u) \in Nat BY LenNat, Zenon
  <2> QED BY <2>1, <2>2, <2>3
<1>6. Len(l) = Len(r) BY Zenon, <1>2, <1>5
<1>7. ASSUME NEW j \in 1 .. Len(l) PROVE l[j] = r[j]
  <2>1. l[j] = (s \o u)[m + j] BY Zenon, <1>2
  <2>2. CASE j <= Len(v)
    <3>1. r[j] = v[j] /\ v[j] = s[m + j] BY SMTT(30), <1>2, <1>3, <1>4, <2>2
    <3>3. m + j \in 1 .. Len(s) BY SMTT(30), <1>2, <1>3, <2>2
    <3>2. (s \o u)[m + j] = s[m + j] BY Zenon, <3>3, JoinAt
    <3> QED BY Zenon, <2>1, <3>1, <3>2
  <2>3. CASE j > Len(v)
    <3>1. r[j] = u[j - Len(v)] BY <1>2, <1>3, <1>4, <2>3
    <3>2. (s \o u)[m + j] = u[m + j - Len(s)] BY <1>2, <1>3, <2>3
    <3>3. m + j - Len(s) = j - Len(v)
      <4>1. Len(v) = Len(s) - m BY <1>3, Zenon
      <4>2. Len(s) \in Nat /\ j \in Int BY LenNat
      <4> QED BY <4>1, <4>2, ShiftBack, Zenon
    <3> QED BY Zenon, <2>1, <3>1, <3>2, <3>3
  <2> QED BY <2>2, <2>3, <1>2, <1>3
<1>8. l = r BY <1>2, <1>5, <1>6, <1>7, SeqsEqual, Zenon
<1> QED BY Zenon, <1>8 DEF l, r

LEMMA BehindFacts ==
  ASSUME NEW s, NEW a, From(s, a), NEW q \in a .. a + Len(s)
  PROVE  /\ From(Behind(s, a, q), q)
         /\ Len(Behind(s, a, q)) = a + Len(s) - q
         /\ \A j \in 1 .. a + Len(s) - q : Behind(s, a, q)[j] = s[q - a + j]
<1>1. s \in Seq(LogEntries) /\ a \in Nat BY Zenon DEF From
<1>2. q \in Nat /\ q - a \in Nat /\ q - a <= Len(s) BY <1>1
<1> PICK m \in Nat : m = q - a BY Zenon, <1>2
<1> PICK u : u = Behind(s, a, q) BY Zenon
<1>3. u = SubSeq(s, m + 1, Len(s)) BY Zenon DEF Behind
<1>4. /\ u \in Seq(LogEntries) /\ Len(u) = Len(s) - m
      /\ \A j \in 1 .. Len(s) - m : u[j] = s[m + j]
  BY <1>1, <1>2, <1>3, SubSeqFacts
<1>5. Len(s) - m = a + Len(s) - q BY <1>1, <1>2
<1>6. ASSUME NEW j \in 1 .. Len(u) PROVE u[j].i = q + j
  <2>1. j \in 1 .. Len(s) - m /\ m + j \in 1 .. Len(s) BY SMTT(30), <1>1, <1>2, <1>4
  <2>2. s[m + j].i = a + (m + j) BY Zenon, <2>1 DEF From
  <2>3. a + (m + j) = q + j BY <1>1, <1>2, <2>1
  <2> QED BY Zenon, <1>4, <2>1, <2>2, <2>3
<1>7. From(u, q) BY <1>2, <1>4, <1>6, Zenon DEF From
<1> QED BY <1>4, <1>5, <1>7, Zenon

LEMMA BehindBehind ==
  ASSUME NEW s, NEW a, From(s, a), NEW p \in a .. a + Len(s), NEW q \in p .. a + Len(s)
  PROVE  Behind(Behind(s, a, p), p, q) = Behind(s, a, q)
<1>1. s \in Seq(LogEntries) /\ a \in Nat BY Zenon DEF From
<1>2. p \in Nat /\ q \in a .. a + Len(s) BY <1>1
<1> PICK u : u = Behind(s, a, p) BY Zenon
<1>3. /\ From(u, p) /\ Len(u) = a + Len(s) - p
      /\ \A j \in 1 .. a + Len(s) - p : u[j] = s[p - a + j]
  BY BehindFacts
<1>4. q \in p .. p + Len(u) BY <1>1, <1>2, <1>3
<1> PICK l : l = Behind(u, p, q) BY Zenon
<1> PICK r : r = Behind(s, a, q) BY Zenon
<1>5. /\ From(l, q) /\ Len(l) = p + Len(u) - q
      /\ \A j \in 1 .. p + Len(u) - q : l[j] = u[q - p + j]
  BY SMTT(30), <1>3, <1>4, BehindFacts
<1>6. /\ From(r, q) /\ Len(r) = a + Len(s) - q
      /\ \A j \in 1 .. a + Len(s) - q : r[j] = s[q - a + j]
  BY <1>2, BehindFacts
<1>7. Len(l) = Len(r) BY <1>1, <1>2, <1>3, <1>5, <1>6
<1>8. ASSUME NEW j \in 1 .. Len(l) PROVE l[j] = r[j]
  <2>1. /\ j \in 1 .. p + Len(u) - q /\ j \in 1 .. a + Len(s) - q
        /\ q - p + j \in 1 .. a + Len(s) - p /\ p - a + (q - p + j) = q - a + j
    BY <1>1, <1>2, <1>3, <1>5, <1>7, <1>6
  <2>2. l[j] = u[q - p + j] BY <1>5, <2>1, Zenon
  <2>3. u[q - p + j] = s[p - a + (q - p + j)] BY <1>3, <2>1, Zenon
  <2>4. r[j] = s[q - a + j] BY <1>6, <2>1, Zenon
  <2> QED BY <2>1, <2>2, <2>3, <2>4, Zenon
<1>9. l \in Seq(LogEntries) /\ r \in Seq(LogEntries) BY <1>5, <1>6, Zenon DEF From
<1> QED BY <1>7, <1>8, <1>9, SeqsEqual, Zenon

LEMMA BehindJoin ==
  ASSUME NEW s, NEW a, From(s, a), NEW q \in a .. a + Len(s), NEW u \in Seq(LogEntries)
  PROVE  Behind(s \o u, a, q) = Behind(s, a, q) \o u
<1>1. s \in Seq(LogEntries) /\ a \in Nat BY Zenon DEF From
<1>2. q - a \in Nat /\ q - a <= Len(s) BY <1>1
<1> PICK m \in Nat : m = q - a BY Zenon, <1>2
<1>3. SubSeq(s \o u, m + 1, Len(s \o u)) = SubSeq(s, m + 1, Len(s)) \o u
  BY Zenon, <1>1, <1>2, JoinRest
<1> QED BY <1>3, Zenon DEF Behind

LEMMA BehindSelf ==
  ASSUME NEW s, NEW a, From(s, a)
  PROVE  Behind(s, a, a) = s
<1>1. a - a + 1 = 1 BY DEF From
<1>2. SubSeq(s, 1, Len(s)) = s BY WholeSeq, Zenon DEF From
<1> QED BY <1>1, <1>2, Zenon DEF Behind

FileRecords == [lines : Seq(LogEntries), hs : Nat, snap : Nat]

\* The lines of entries.log start behind index a, at or below the snapshot,
\* and reach up to it.
FilesAt(f, a) == /\ f \in FileRecords
                 /\ From(f.lines, a)
                 /\ f.snap \in a .. a + Len(f.lines)

LEMMA AllDecode ==
  ASSUME NEW s, NEW a, From(s, a)
  PROVE  Decoded(s) = s
<1>1. s \in Seq(LogEntries) /\ a \in Nat BY Zenon DEF From
<1>2. {j \in 1 .. Len(s) : s[j] # TornLine} = 0 + 1 .. Len(s)
  <2>1. \A j \in 1 .. Len(s) : s[j].i # 0 BY <1>1 DEF From
  <2>2. TornLine.i = 0 BY Zenon DEF TornLine, Entry
  <2>3. \A j \in 1 .. Len(s) : s[j] # TornLine BY <2>1, <2>2, Zenon
  <2> QED BY <2>3
<1>3. AtPlaces(s, 0 + 1 .. Len(s)) = SubSeq(s, 0 + 1, Len(s))
  BY <1>1, AtPlacesRest
<1>4. SubSeq(s, 0 + 1, Len(s)) = s BY <1>1
<1> QED BY <1>2, <1>3, <1>4, Zenon DEF Decoded

\* What Load makes of such files.
LEMMA LoadFacts ==
  ASSUME NEW f, NEW a, FilesAt(f, a)
  PROVE  /\ Load(f) = [off |-> f.snap, ents |-> Behind(f.lines, a, f.snap)]
         /\ From(Load(f).ents, f.snap)
         /\ LastIndex(Load(f)) = a + Len(f.lines)
<1> DEFINE es == f.lines
           s  == f.snap
<1>1. es \in Seq(LogEntries) /\ a \in Nat /\ s \in Nat /\ s - a \in Nat /\ s - a <= Len(es)
      /\ From(es, a)
  BY DEF FilesAt, From, FileRecords
<1>2. \A j \in 1 .. Len(es) : es[j].i = a + j BY Zenon, <1>1 DEF From
<1>3. Decoded(es) = es BY Zenon, <1>1, AllDecode
<1>4. StorageSnapshot([off |-> 0, ents |-> <<>>], s) = [off |-> s, ents |-> <<>>]
  BY Zenon, <1>1 DEF StorageSnapshot
<1>5. Load(f) = StorageAppend([off |-> s, ents |-> <<>>], es)
  BY <1>3, <1>4, Zenon DEF Load
<1> HIDE DEF es, s
<1> DEFINE rest == SubSeq(es, s - a + 1, Len(es))
<1>6. /\ rest \in Seq(LogEntries) /\ Len(rest) = Len(es) - (s - a)
      /\ \A j \in 1 .. Len(es) - (s - a) : rest[j] = es[s - a + j]
  BY Zenon, <1>1, SubSeqFacts
<1>7. StorageAppend([off |-> s, ents |-> <<>>], es) = [off |-> s, ents |-> rest]
  <2>1. CASE es = <<>>
    <3>1. rest = <<>> BY <1>1, <1>6, <2>1
    <3> QED BY Zenon, <2>1, <3>1 DEF StorageAppend
  <2>2. CASE es # <<>> /\ s - a = Len(es)
    <3>1. rest = <<>> BY <1>1, <1>6, <2>2
    <3>2. es[1].i = a + 1 BY <1>1, <1>2, <2>2
    <3>3. es[1].i + Len(es) - 1 <= s BY <1>1, <3>2, <2>2
    <3> QED BY Zenon, <2>2, <3>1, <3>3 DEF StorageAppend
  <2>3. CASE es # <<>> /\ s - a < Len(es)
    <3>1. es[1].i = a + 1 BY <1>1, <1>2, <2>3
    <3>2. ~(es[1].i + Len(es) - 1 <= s) BY <1>1, <3>1, <2>3
    <3>3. CASE es[1].i <= s
      <4>1. s - es[1].i + 2 = s - a + 1 BY <1>1, <3>1
      <4>2. rest = SubSeq(es, s - es[1].i + 2, Len(es)) BY <4>1, Zenon
      <4> HIDE DEF rest
      <4> QED BY Zenon, <2>3, <3>2, <3>3, <4>2 DEF StorageAppend
    <3>4. CASE ~(es[1].i <= s)
      <4>1. s = a BY <1>1, <3>1, <3>4
      <4>2. es[1].i - s - 1 = 0 BY <1>1, <3>1, <4>1
      <4>3. rest = es BY <1>1, <4>1
      <4>4. SubSeq(<<>>, 1, 0) \o es = es BY <1>1
      <4>5. ~(es[1].i > s + Len(<<>>) + 1) BY <1>1, <3>1, <4>1
      <4> HIDE DEF rest
      <4> QED BY Zenon, <2>3, <3>2, <3>4, <4>2, <4>3, <4>4, <4>5 DEF StorageAppend, LastIndex
    <3> QED BY Zenon, <3>3, <3>4
  <2> QED BY <2>1, <2>2, <2>3, <1>1
<1>8. From(rest, s)
  <2> HIDE DEF rest
  <2>1. ASSUME NEW j \in 1 .. Len(rest) PROVE rest[j].i = s + j
    <3>1. s - a + j \in 1 .. Len(es) /\ j \in 1 .. Len(es) - (s - a) BY <1>1, <1>6
    <3>2. rest[j] = es[s - a + j] BY Zenon, <1>6, <3>1
    <3>3. es[s - a + j].i = a + (s - a + j) BY Zenon, <1>2, <3>1
    <3> QED BY <1>1, <3>2, <3>3
  <2> QED BY Zenon, <1>1, <1>6, <2>1 DEF From
<1>9. LastIndex(Load(f)) = a + Len(es)
  <2> HIDE DEF rest
  <2> QED BY <1>1, <1>5, <1>6, <1>7 DEF LastIndex
<1>10. Load(f) = [off |-> s, ents |-> rest] BY <1>5, <1>7, Zenon
<1>11. Load(f).ents = rest
  <2> HIDE DEF rest
  <2> QED BY <1>10
<1>12. From(Load(f).ents, s) BY <1>8, <1>11, Zenon
<1> QED BY <1>10, <1>12, <1>9, Zenon DEF es, s, Behind

\* The files hold a snapshot and the entries behind it, and nothing is torn.
FilesOk(f) == \E a : FilesAt(f, a)

\* st holds a snapshot and the entries behind it.
LogHeld(st) == /\ st = [off |-> st.off, ents |-> st.ents]
               /\ From(st.ents, st.off)

LEMMA LoadHeld ==
  ASSUME NEW f, FilesOk(f)
  PROVE  LogHeld(Load(f)) /\ Load(f).off = f.snap
<1> PICK a : FilesAt(f, a) BY Zenon DEF FilesOk
<1> PICK u : u = Behind(f.lines, a, f.snap) BY Zenon
<1>1. Load(f) = [off |-> f.snap, ents |-> u] BY Zenon, LoadFacts
<1>2. From(Load(f).ents, f.snap) BY Zenon, LoadFacts
<1> QED BY <1>1, <1>2 DEF LogHeld

\* Persist adds the Ready's entries to what Load gives back.
LEMMA LoadMore ==
  ASSUME NEW f, FilesOk(f), NEW es, From(es, LastIndex(Load(f)))
  PROVE  /\ FilesOk(PersistEntries(f, es))
         /\ Load(PersistEntries(f, es)) = [off |-> Load(f).off, ents |-> Load(f).ents \o es]
<1> PICK a : FilesAt(f, a) BY Zenon DEF FilesOk
<1> PICK ls : ls = f.lines BY Zenon
<1> PICK g : g = PersistEntries(f, es) BY Zenon
<1>1. f \in FileRecords /\ From(ls, a) /\ f.snap \in a .. a + Len(ls) /\ a \in Nat
      /\ ls \in Seq(LogEntries) /\ f.snap \in Nat
  BY Zenon DEF FilesAt, From, FileRecords
<1>2. From(es, a + Len(ls)) BY Zenon, LoadFacts
<1>3. es \in Seq(LogEntries) BY Zenon, <1>2 DEF From
<1>4. g = [f EXCEPT !.lines = ls \o es]
  <2>1. ls # <<>> => ls[Len(ls)].i = a + Len(ls) /\ Len(ls) > 0 BY <1>1 DEF From
  <2>2. TornLine.i = 0 BY Zenon DEF TornLine, Entry
  <2>3. ~(ls # <<>> /\ ls[Len(ls)] = TornLine) BY <2>1, <2>2, <1>1
  <2> QED BY Zenon, <2>3 DEF PersistEntries
<1>5. ls \o es \in Seq(LogEntries) /\ Len(ls \o es) = Len(ls) + Len(es) BY <1>1, <1>3
<1>6. From(ls \o es, a) BY Zenon, <1>1, <1>2, JoinFrom
<1>7. g \in FileRecords /\ g.lines = ls \o es /\ g.snap = f.snap
  BY Zenon, <1>1, <1>4, <1>5 DEF FileRecords
<1>8. FilesAt(g, a) BY <1>1, <1>5, <1>6, <1>7, <1>3 DEF FilesAt
<1>9. Load(g) = [off |-> f.snap, ents |-> Behind(ls \o es, a, f.snap)]
  BY <1>7, <1>8, LoadFacts, Zenon
<1>11. Behind(ls \o es, a, f.snap) = Behind(ls, a, f.snap) \o es
  <2>1. From(ls, a) BY <1>1, Zenon
  <2>2. \A q \in a .. a + Len(ls) : Behind(ls \o es, a, q) = Behind(ls, a, q) \o es
    BY <2>1, <1>3, BehindJoin
  <2> QED BY <1>1, <2>2, Zenon
<1> PICK u : u = Behind(ls, a, f.snap) BY Zenon
<1>12. Load(f) = [off |-> f.snap, ents |-> u] BY LoadFacts, Zenon
<1>13. Load(f).off = f.snap /\ Load(f).ents = u BY <1>12, HeldParts, Zenon
<1>14. Load(g) = [off |-> Load(f).off, ents |-> Load(f).ents \o es] BY <1>9, <1>11, <1>13, Zenon
<1> QED BY <1>8, <1>14, Zenon DEF FilesOk

\* A snapshot hides the entries it covers and leaves those behind it.
LEMMA LoadSnap ==
  ASSUME NEW f, FilesOk(f), NEW s \in f.snap .. LastIndex(Load(f)), s # 0
  PROVE  /\ FilesOk(PersistSnapshot(f, s))
         /\ Load(PersistSnapshot(f, s)) =
              [off |-> s, ents |-> Behind(Load(f).ents, Load(f).off, s)]
<1> PICK a : FilesAt(f, a) BY Zenon DEF FilesOk
<1> PICK ls : ls = f.lines BY Zenon
<1> PICK g : g = PersistSnapshot(f, s) BY Zenon
<1>1. f \in FileRecords /\ From(ls, a) /\ f.snap \in a .. a + Len(ls) /\ a \in Nat
      /\ ls \in Seq(LogEntries) /\ f.snap \in Nat
  BY Zenon DEF FilesAt, From, FileRecords
<1>2. LastIndex(Load(f)) = a + Len(ls) BY Zenon, LoadFacts
<1>3. g = [f EXCEPT !.snap = s] BY Zenon DEF PersistSnapshot
<1>4. s \in Nat /\ s - f.snap \in Nat /\ s <= a + Len(ls) BY <1>1, <1>2
<1>5. g \in FileRecords /\ g.lines = ls /\ g.snap = s BY Zenon, <1>1, <1>3, <1>4 DEF FileRecords
<1>6. FilesAt(g, a) BY <1>1, <1>4, <1>5 DEF FilesAt
<1>7. Load(g) = [off |-> s, ents |-> Behind(ls, a, s)] BY <1>5, <1>6, LoadFacts, Zenon
<1> PICK u : u = Behind(ls, a, f.snap) BY Zenon
<1>8. Load(f) = [off |-> f.snap, ents |-> u] BY LoadFacts, Zenon
<1>9. Load(f).off = f.snap /\ Load(f).ents = u BY <1>8, HeldParts, Zenon
<1>10. s \in f.snap .. a + Len(ls) BY <1>1, <1>4
<1>11. Behind(u, f.snap, s) = Behind(ls, a, s) BY <1>1, <1>10, BehindBehind, Zenon
<1>14. Load(g) = [off |-> s, ents |-> Behind(Load(f).ents, Load(f).off, s)]
  BY <1>7, <1>9, <1>11, Zenon
<1> QED BY <1>6, <1>14, Zenon DEF FilesOk

\* Pruning through the snapshot drops only lines that Load passes over.
LEMMA LoadPruned ==
  ASSUME NEW f, FilesOk(f)
  PROVE  /\ FilesOk(PruneEntries(f, f.snap))
         /\ Load(PruneEntries(f, f.snap)) = Load(f)
<1> PICK a : FilesAt(f, a) BY DEF FilesOk
<1> PICK ls : ls = f.lines BY Zenon
<1> PICK s : s = f.snap BY Zenon
<1> PICK g : g = PruneEntries(f, s) BY Zenon
<1>1. f \in FileRecords /\ From(ls, a) /\ s \in a .. a + Len(ls) /\ a \in Nat
      /\ ls \in Seq(LogEntries) /\ s \in Nat /\ s - a \in Nat /\ s - a <= Len(ls)
  BY DEF FilesAt, From, FileRecords
<1>2. {j \in 1 .. Len(ls) : ls[j] # TornLine /\ ls[j].i > s} = (s - a) + 1 .. Len(ls)
  <2>1. \A j \in 1 .. Len(ls) : ls[j].i = a + j BY Zenon, <1>1 DEF From
  <2>2. TornLine.i = 0 BY Zenon DEF TornLine, Entry
  <2>3. \A j \in 1 .. Len(ls) : ls[j] # TornLine /\ ls[j].i > s <=> j \in (s - a) + 1 .. Len(ls)
    <3> TAKE j \in 1 .. Len(ls)
    <3>1. ls[j].i = a + j /\ ls[j].i # 0 BY <2>1, <1>1
    <3>2. ls[j] # TornLine BY <3>1, <2>2, Zenon
    <3> QED BY <3>1, <3>2, <1>1
  <2>4. (s - a) + 1 .. Len(ls) \subseteq 1 .. Len(ls) BY <1>1
  <2> QED BY <2>3, <2>4, Zenon
<1> PICK u : u = Behind(ls, a, s) BY Zenon
<1>3. AtPlaces(ls, (s - a) + 1 .. Len(ls)) = u BY Zenon, <1>1, AtPlacesRest DEF Behind
<1>4. g = [f EXCEPT !.lines = u] BY <1>2, <1>3, Zenon DEF PruneEntries
<1>5. Load(f) = [off |-> s, ents |-> u] BY LoadFacts, Zenon
<1>6. Load(f).ents = u BY <1>5, HeldParts, Zenon
<1>7. From(u, s) BY <1>6, LoadFacts, Zenon
<1>8. g \in FileRecords /\ g.lines = u /\ g.snap = s BY Zenon, <1>1, <1>4, <1>7 DEF FileRecords, From
<1>9. FilesAt(g, s)
  <2>1. u \in Seq(LogEntries) BY <1>7, Zenon DEF From
  <2>2. Len(u) \in Nat BY <2>1, LenNat, Zenon
  <2>3. s \in s .. s + Len(u)
    <3> PICK n \in Nat : n = Len(u) BY Zenon, <2>2
    <3>1. s <= s + n /\ s \in Int BY <1>1
    <3> QED BY <1>1, <3>1
  <2> QED BY <1>7, <1>8, <2>3, Zenon DEF FilesAt
<1>10. Load(g) = [off |-> s, ents |-> Behind(u, s, s)] BY <1>8, <1>9, LoadFacts, Zenon
<1>11. Behind(u, s, s) = u BY <1>7, BehindSelf, Zenon
<1>13. Load(g) = Load(f) BY <1>5, <1>10, <1>11, Zenon
<1> QED BY <1>9, <1>13, Zenon DEF FilesOk

\* The hard state is a file of its own.
LEMMA LoadHardState ==
  ASSUME NEW f, FilesOk(f), NEW c \in Nat
  PROVE  FilesOk(PersistHardState(f, c)) /\ Load(PersistHardState(f, c)) = Load(f)
<1> PICK a : FilesAt(f, a) BY Zenon DEF FilesOk
<1> PICK g : g = PersistHardState(f, c) BY Zenon
<1>1. f \in FileRecords BY Zenon DEF FilesAt
<1>2. g \in FileRecords /\ g.lines = f.lines /\ g.snap = f.snap
  BY Zenon, <1>1 DEF PersistHardState, FileRecords
<1>3. FilesAt(g, a) BY Zenon, <1>2 DEF FilesAt
<1>4. Load(g) = Load(f) BY <1>2, Zenon DEF Load
<1> QED BY <1>3, <1>4, Zenon DEF FilesOk

\* MemoryStorage takes the Ready's entries behind what it holds.
LEMMA StorageMore ==
  ASSUME NEW st, LogHeld(st), NEW es, From(es, LastIndex(st))
  PROVE  StorageAppend(st, es) = [off |-> st.off, ents |-> st.ents \o es]
<1>1. /\ st.off \in Nat /\ st.ents \in Seq(LogEntries) /\ es \in Seq(LogEntries)
      /\ LastIndex(st) = st.off + Len(st.ents)
  BY Zenon DEF LogHeld, From, LastIndex
<1> PICK o, u : o = st.off /\ u = st.ents BY Zenon
<1>2. st = [off |-> o, ents |-> u] BY Zenon DEF LogHeld
<1>3. CASE es = <<>>
  <2>1. u \o es = u BY <1>1, <1>3
  <2> QED BY Zenon, <1>2, <1>3, <2>1 DEF StorageAppend
<1>4. CASE es # <<>>
  <2>1. es[1].i = o + Len(u) + 1 /\ Len(es) >= 1 BY <1>1, <1>4 DEF From
  <2>2. /\ ~(es[1].i + Len(es) - 1 <= o) /\ ~(es[1].i <= o) /\ ~(es[1].i > LastIndex(st) + 1)
        /\ es[1].i - o - 1 = Len(u)
    BY SMTT(30), <1>1, <2>1
  <2>3. SubSeq(u, 1, Len(u)) = u BY <1>1
  <2>4. StorageAppend(st, es) = [st EXCEPT !.ents = SubSeq(u, 1, Len(u)) \o es]
    BY <1>4, <2>2, Zenon DEF StorageAppend
  <2>5. StorageAppend(st, es) = [st EXCEPT !.ents = u \o es] BY <2>3, <2>4, Zenon
  <2> PICK w : w = u \o es BY Zenon
  <2> QED BY Zenon, <1>2, <2>5
<1> QED BY Zenon, <1>3, <1>4

DiskSpec == DiskInit /\ [][DiskNext]_vars

\* The fields of the records, whatever they hold.
RaftShape(r) == r = [off |-> r.off, log |-> r.log, commit |-> r.commit,
                     applied |-> r.applied, term |-> r.term]
NodeShape(n) ==
  /\ n = [pc |-> n.pc, rd |-> n.rd, lastHS |-> n.lastHS, applied |-> n.applied,
          since |-> n.since, snapIdx |-> n.snapIdx, pruned |-> n.pruned]
  /\ n.rd = [snap |-> n.rd.snap, ents |-> n.rd.ents, commit |-> n.rd.commit, com |-> n.rd.com]
  /\ n.since \in Nat
GhostShape(g) == g = [acked |-> g.acked, applied |-> g.applied, crashes |-> g.crashes,
                      conflicts |-> g.conflicts, replaced |-> g.replaced, damaged |-> g.damaged]

Shapes == setting \in Settings /\ RaftShape(raft) /\ NodeShape(node) /\ GhostShape(ghost)

\* The log raft works with.
Held == [off |-> raft.off, ents |-> raft.log]

\* Every entry of A is in st, or covered by its snapshot.
Survives(A, st) ==
  \A e \in A : e.i <= st.off \/ (e.i <= LastIndex(st) /\ st.ents[e.i - st.off] = e)

RaftOk ==
  /\ From(raft.log, raft.off)
  /\ raft.commit \in raft.off .. RaftLast(raft)
  /\ raft.applied \in raft.off .. raft.commit
  /\ node.since > 0 => node.applied \in raft.off + 1 .. raft.applied

\* The storage lacks the Ready's entries and nothing else.
RdOk ==
  /\ LogHeld(storage) /\ storage.off = raft.off
  /\ From(node.rd.ents, LastIndex(storage))
  /\ raft.log = storage.ents \o node.rd.ents

\* The Ready's committed entries are those of the log.
ComOk ==
  /\ node.rd.snap = 0 /\ node.rd.commit \in Nat /\ node.rd.com \in Seq(LogEntries)
  /\ \A k \in 1 .. Len(node.rd.com) :
       /\ node.rd.com[k].i \in raft.off + 1 .. raft.applied
       /\ raft.log[node.rd.com[k].i - raft.off] = node.rd.com[k]

\* What files, storage and log have to do with each other between any two
\* file operations.
PhaseOk ==
  /\ node.pc \in {"idle", "apply"} => Load(files) = Held /\ storage = Held
  /\ node.pc \in {"snapshot", "hardstate", "entries"} => Load(files) = storage /\ RdOk
  /\ node.pc = "walhs" => Load(files) = Held /\ RdOk
  /\ node.pc \in {"snapshot", "hardstate", "entries", "walhs", "apply"} => ComOk
  /\ node.pc = "prune" =>
       /\ storage = Held
       /\ node.applied \in raft.off + 1 .. raft.applied
       /\ Load(files) = [off |-> node.applied,
                      ents |-> Behind(raft.log, raft.off, node.applied)]

DiskOk ==
  /\ FilesOk(files)
  /\ ghost.applied \subseteq LogEntries
  /\ Survives(ghost.applied, Load(files))
  /\ raft.term \in Nat
  /\ node.pc = "boot" => node.since = 0
  /\ node.pc \notin {"boot", "dead"} => RaftOk /\ PhaseOk

DiskInv == Shapes /\ (Orderly => DiskOk)

LEMMA MaxZero ==
  ASSUME NEW n \in Nat
  PROVE  Max({n, 0}) = n
<1>1. n \in {n, 0} /\ \A y \in {n, 0} : n >= y OBVIOUS
<1>2. \A x \in {n, 0} : (\A y \in {n, 0} : x >= y) => x = n OBVIOUS
<1> QED BY <1>1, <1>2, Zenon DEF Max

LEMMA NodeGoes ==
  ASSUME NEW n, NodeShape(n), NEW x, NEW m, m = [n EXCEPT !.pc = x]
  PROVE  /\ NodeShape(m) /\ m.pc = x /\ m.rd = n.rd
         /\ m.applied = n.applied /\ m.since = n.since
  BY Zenon DEF NodeShape

LEMMA NodeLogs ==
  ASSUME NEW n, NodeShape(n), NEW x, NEW i, NEW m, m = [n EXCEPT !.pc = x, !.lastHS = i]
  PROVE  /\ NodeShape(m) /\ m.pc = x /\ m.rd = n.rd
         /\ m.applied = n.applied /\ m.since = n.since
  BY Zenon DEF NodeShape

LEMMA NodeTakes ==
  ASSUME NEW n, NodeShape(n), NEW x, NEW rd, NEW m, m = [n EXCEPT !.pc = x, !.rd = rd],
         rd = [snap |-> rd.snap, ents |-> rd.ents, commit |-> rd.commit, com |-> rd.com]
  PROVE  /\ NodeShape(m) /\ m.pc = x /\ m.rd = rd
         /\ m.applied = n.applied /\ m.since = n.since
  BY Zenon DEF NodeShape

LEMMA NodeApplies ==
  ASSUME NEW n, NodeShape(n), NEW c, NEW i, NEW m,
         m = [n EXCEPT !.rd.com = c, !.applied = i, !.since = @ + 1]
  PROVE  /\ NodeShape(m) /\ m.pc = n.pc /\ m.applied = i /\ m.since = n.since + 1
         /\ m.rd.snap = n.rd.snap /\ m.rd.ents = n.rd.ents /\ m.rd.commit = n.rd.commit
         /\ m.rd.com = c
<1> PICK q : q = [n.rd EXCEPT !.com = c] BY Zenon
<1>1. /\ q = [snap |-> q.snap, ents |-> q.ents, commit |-> q.commit, com |-> q.com]
      /\ q.snap = n.rd.snap /\ q.ents = n.rd.ents /\ q.commit = n.rd.commit /\ q.com = c
  BY Zenon DEF NodeShape
<1>2. n.since + 1 \in Nat BY DEF NodeShape
<1>3. m = [pc |-> n.pc, rd |-> q, lastHS |-> n.lastHS, applied |-> i, since |-> n.since + 1,
           snapIdx |-> n.snapIdx, pruned |-> n.pruned]
  BY Zenon DEF NodeShape
<1>4. m.pc = n.pc /\ m.rd = q /\ m.applied = i /\ m.since = n.since + 1
      /\ m.lastHS = n.lastHS /\ m.snapIdx = n.snapIdx /\ m.pruned = n.pruned
  BY Zenon, <1>3
<1>5. NodeShape(m) BY <1>1, <1>2, <1>3, <1>4, Zenon DEF NodeShape
<1> QED BY <1>1, <1>4, <1>5, Zenon

LEMMA NodeCompacts ==
  ASSUME NEW n, NodeShape(n), NEW i, NEW j, NEW m,
         m = [n EXCEPT !.pc = "idle", !.rd = NoReady, !.since = 0, !.snapIdx = i, !.pruned = j]
  PROVE  NodeShape(m) /\ m.pc = "idle" /\ m.since = 0
  BY Zenon DEF NodeShape, NoReady

LEMMA NodeFresh == NodeShape(Fresh("boot")) /\ NodeShape(Fresh("idle"))
                   /\ Fresh("boot").pc = "boot" /\ Fresh("idle").pc = "idle"
                   /\ Fresh("boot").since = 0 /\ Fresh("idle").since = 0
  BY Zenon DEF NodeShape, Fresh, NoReady

LEMMA GhostAcks ==
  ASSUME NEW g, GhostShape(g), NEW x, NEW m, m = [g EXCEPT !.acked = x]
  PROVE  GhostShape(m) /\ m.applied = g.applied /\ m.replaced = g.replaced
  BY Zenon DEF GhostShape

LEMMA GhostInstalls ==
  ASSUME NEW g, GhostShape(g), NEW x, NEW m, m = [g EXCEPT !.replaced = x]
  PROVE  GhostShape(m) /\ m.applied = g.applied /\ m.replaced = x
  BY Zenon DEF GhostShape

LEMMA GhostBoots ==
  ASSUME NEW g, GhostShape(g), NEW x, NEW m, m = [g EXCEPT !.damaged = x]
  PROVE  GhostShape(m) /\ m.applied = g.applied /\ m.replaced = g.replaced
  BY Zenon DEF GhostShape

LEMMA RaftHands ==
  ASSUME NEW r, RaftShape(r), NEW x, NEW m, m = [r EXCEPT !.applied = x]
  PROVE  /\ RaftShape(m) /\ m.off = r.off /\ m.log = r.log /\ m.commit = r.commit
         /\ m.applied = x /\ m.term = r.term
  BY Zenon DEF RaftShape

LEMMA RaftGrows ==
  ASSUME NEW r, RaftShape(r), NEW x, NEW y, NEW m, m = [r EXCEPT !.log = x, !.commit = y]
  PROVE  /\ RaftShape(m) /\ m.off = r.off /\ m.log = x /\ m.commit = y
         /\ m.applied = r.applied /\ m.term = r.term
  BY Zenon DEF RaftShape

LEMMA RaftInstalls ==
  ASSUME NEW r, RaftShape(r), NEW x, NEW y, NEW z, NEW m,
         m = [r EXCEPT !.log = x, !.off = y, !.commit = z]
  PROVE  RaftShape(m)
  BY Zenon DEF RaftShape

\* What an action that leaves setting and raft alone has to show.
LEMMA ShapesKept ==
  ASSUME Shapes, setting' = setting, RaftShape(raft'), NodeShape(node'), GhostShape(ghost'),
         ~ghost'.replaced => ~ghost.replaced
  PROVE  Shapes' /\ (Orderly' => Orderly)
<1>1. Shapes' BY Zenon DEF Shapes
<1>2. Orderly' => Orderly BY Zenon DEF Orderly
<1> QED BY Zenon, <1>1, <1>2

LEMMA ShapesReady ==
  ASSUME Shapes, NEW r, RaftShape(r), NEW sn, NEW es, GiveReady(r, sn, es)
  PROVE  setting' = setting /\ RaftShape(raft') /\ NodeShape(node')
<1> PICK x, rd : /\ x = Max({r.commit, sn})
                 /\ rd = [snap |-> sn, ents |-> es, commit |-> r.commit,
                          com |-> RaftSlice(r, Max({r.applied, sn}) + 1, r.commit)]
  BY Zenon
<1>1. raft' = [r EXCEPT !.applied = x] /\ node' = [node EXCEPT !.pc = "snapshot", !.rd = rd]
      /\ setting' = setting
  BY Zenon DEF GiveReady
<1>2. RaftShape(raft') BY <1>1, RaftHands, Zenon
<1>3. rd = [snap |-> rd.snap, ents |-> rd.ents, commit |-> rd.commit, com |-> rd.com]
  <2> PICK c : c = RaftSlice(r, Max({r.applied, sn}) + 1, r.commit) BY Zenon
  <2>1. rd = [snap |-> sn, ents |-> es, commit |-> r.commit, com |-> c] BY Zenon
  <2> QED BY Zenon, <2>1
<1>4. NodeShape(node') BY <1>1, <1>3, NodeTakes, Zenon DEF Shapes
<1> QED BY <1>1, <1>2, <1>4, Zenon

LEMMA BootFacts ==
  ASSUME Boot, NEW st, st = Load(files), NEW hs, hs = IF files.hs = 0 THEN st.off ELSE files.hs
  PROVE  /\ setting' = setting /\ files' = files
         /\ ~CanRestart(st, files.hs) => /\ node' = [node EXCEPT !.pc = "dead"]
                                         /\ raft' = raft /\ storage' = storage
         /\ CanRestart(st, files.hs) =>
              /\ raft' = [off |-> st.off, log |-> st.ents, commit |-> hs, applied |-> st.off,
                          term |-> raft.term]
              /\ storage' = st
              /\ \E i, k : node' = [node EXCEPT !.pc = "idle", !.applied = i,
                                                !.snapIdx = st.off, !.lastHS = k]
<1>1. setting' = setting /\ files' = files BY Zenon DEF Boot
<1>2. IF ~CanRestart(st, files.hs)
      THEN node' = [node EXCEPT !.pc = "dead"] /\ UNCHANGED <<raft, storage, wal, ring>>
      ELSE /\ raft' = [off |-> st.off, log |-> st.ents, commit |-> hs, applied |-> st.off,
                       term |-> raft.term]
           /\ storage' = st
           /\ wal' = IF setting.wal = "off" THEN wal ELSE openLastOrCreate(wal)
           /\ ring' = IF setting.wal = "off" THEN <<>> ELSE TailLogicalTuples(wal, setting.lastN)
           /\ node' = [node EXCEPT !.pc = "idle", !.applied = LastIndex(st), !.snapIdx = st.off,
                        !.lastHS = IF setting.wal = "off" THEN 0 ELSE ReplayLastHardState(wal)]
  BY Zenon DEF Boot
<1> QED BY <1>1, <1>2, Zenon

LEMMA ShapesNext ==
  ASSUME Shapes, [DiskNext]_vars
  PROVE  Shapes' /\ (Orderly' => Orderly)
<1>0. RaftShape(raft) /\ NodeShape(node) /\ GhostShape(ghost) BY Zenon DEF Shapes
<1>1. CASE ReadySingle
  <2> PICK n, es, r :
         /\ r = [raft EXCEPT !.log = @ \o es, !.commit = RaftLast(raft) + n]
         /\ GiveReady(r, 0, es)
    BY <1>1, Zenon DEF ReadySingle
  <2>1. RaftShape(r) BY <1>0, RaftGrows, ZenonT(40)
  <2>2. ghost' = ghost BY <1>1, Zenon DEF ReadySingle
  <2> QED BY <1>0, <2>1, <2>2, ShapesReady, ShapesKept, Zenon
<1>2. CASE ReadyFollower
  <2>5. PICK j, n :
          LET over == n = 1 /\ j <= RaftLast(raft)
              t    == IF over THEN raft.term + 1 ELSE raft.term
              es   == [k \in 1 .. n |-> Entry(j, t)]
              log  == IF n = 0 THEN raft.log ELSE RaftSlice(raft, raft.off + 1, j - 1) \o es
          IN  /\ \E c : GiveReady([raft EXCEPT !.log = log, !.commit = c, !.term = t], 0, es)
              /\ ghost' = [ghost EXCEPT !.conflicts = @ + (IF over THEN 1 ELSE 0),
                                         !.replaced = @ \/ over]
    BY <1>2, ZenonT(40) DEF ReadyFollower
  <2> PICK over, t, es, log, c :
         /\ GiveReady([raft EXCEPT !.log = log, !.commit = c, !.term = t], 0, es)
         /\ ghost' = [ghost EXCEPT !.conflicts = @ + (IF over THEN 1 ELSE 0),
                                    !.replaced = @ \/ over]
    BY <2>5, ZenonT(40)
  <2> PICK r : r = [raft EXCEPT !.log = log, !.commit = c, !.term = t] BY Zenon
  <2>1. RaftShape(r) BY Zenon, <1>0 DEF RaftShape
  <2> PICK x, y : x = ghost.conflicts + (IF over THEN 1 ELSE 0) /\ y = (ghost.replaced \/ over)
    BY Zenon
  <2>4. ghost' = [ghost EXCEPT !.conflicts = x, !.replaced = y] BY Zenon
  <2>2. GhostShape(ghost') /\ ghost'.replaced = y BY Zenon, <1>0, <2>4 DEF GhostShape
  <2>3. ~ghost'.replaced => ~ghost.replaced BY <2>2, Zenon
  <2> QED BY <1>0, <2>1, <2>2, <2>3, ShapesReady, ShapesKept, Zenon
<1>3. CASE ReadySnapshot
  <2> PICK q : q = RaftLast(raft) + 1 BY Zenon
  <2> PICK r : r = [raft EXCEPT !.log = <<>>, !.off = q, !.commit = q] BY Zenon
  <2>1. GiveReady(r, q, <<>>) /\ ghost' = [ghost EXCEPT !.replaced = TRUE]
    BY <1>3, Zenon DEF ReadySnapshot
  <2>2. RaftShape(r) BY <1>0, RaftInstalls, Zenon
  <2>3. GhostShape(ghost') /\ ghost'.replaced BY <1>0, <2>1, GhostInstalls, Zenon
  <2> QED BY <1>0, <2>1, <2>2, <2>3, ShapesReady, ShapesKept, Zenon
<1>4. ASSUME NEW x, Goto(x), setting' = setting, raft' = raft, ghost' = ghost
      PROVE  Shapes' /\ (Orderly' => Orderly)
  <2>1. NodeShape(node') BY <1>0, <1>4, NodeGoes, Zenon DEF Goto
  <2> QED BY <1>0, <1>4, <2>1, ShapesKept, Zenon
<1>5. CASE WriteSnapshot BY <1>4, <1>5, Zenon DEF WriteSnapshot
<1>6. CASE WriteHardState BY <1>4, <1>6, Zenon DEF WriteHardState
<1>7. CASE WriteEntries BY <1>4, <1>7, Zenon DEF WriteEntries
<1>8. CASE WalHardState
  <2>1. /\ node' = [node EXCEPT !.pc = "apply", !.lastHS = node.rd.commit]
        /\ setting' = setting /\ raft' = raft
        /\ ghost' = ghost \/ \E fs : Acked(fs)
    BY <1>8, Zenon DEF WalHardState
  <2>2. NodeShape(node') BY <1>0, <2>1, NodeLogs, Zenon
  <2>3. GhostShape(ghost') /\ ghost'.replaced = ghost.replaced
    BY <1>0, <2>1, GhostAcks, ZenonT(40) DEF Acked
  <2> QED BY <1>0, <2>1, <2>2, <2>3, ShapesKept, Zenon
<1>9. CASE ApplyCommitted
  <2> PICK i, a, q :
         /\ node' = [node EXCEPT !.rd.com = Tail(@), !.applied = i, !.since = @ + 1]
         /\ ghost' = [ghost EXCEPT !.applied = a, !.acked = q]
    BY <1>9, Zenon DEF ApplyCommitted
  <2>1. setting' = setting /\ raft' = raft BY <1>9, Zenon DEF ApplyCommitted
  <2>2. NodeShape(node') BY <1>0, NodeApplies, ZenonT(40)
  <2>3. GhostShape(ghost') /\ ghost'.replaced = ghost.replaced BY Zenon, <1>0 DEF GhostShape
  <2> QED BY <1>0, <2>1, <2>2, <2>3, ShapesKept, Zenon
<1>10. CASE FinishReady
  <2>1. /\ Goto("prune") \/ node' = [node EXCEPT !.pc = "idle", !.rd = NoReady]
        /\ setting' = setting /\ raft' = raft /\ ghost' = ghost
    BY <1>10, Zenon DEF FinishReady
  <2>2. NoReady = [snap |-> NoReady.snap, ents |-> NoReady.ents, commit |-> NoReady.commit,
                   com |-> NoReady.com]
    BY Zenon DEF NoReady
  <2>3. CASE node' = [node EXCEPT !.pc = "idle", !.rd = NoReady]
    <3>1. NodeShape(node') BY <1>0, <2>2, <2>3, NodeTakes, Zenon
    <3> QED BY <1>0, <2>1, <3>1, ShapesKept, Zenon
  <2> QED BY <1>4, <2>1, <2>3, Zenon
<1>11. CASE CompactAll
  <2> PICK u : node' = [node EXCEPT !.pc = "idle", !.rd = NoReady, !.since = 0,
                                   !.snapIdx = node.applied, !.pruned = u]
    BY <1>11, Zenon DEF CompactAll
  <2>1. /\ raft' = [raft EXCEPT !.log = SubSeq(@, node.applied - raft.off + 1, Len(@)),
                                !.off = node.applied]
        /\ setting' = setting /\ ghost' = ghost
    BY <1>11, Zenon DEF CompactAll
  <2>2. NodeShape(node') BY <1>0, NodeCompacts, Zenon
  <2> PICK l : l = SubSeq(raft.log, node.applied - raft.off + 1, Len(raft.log)) BY Zenon
  <2>4. raft' = [raft EXCEPT !.log = l, !.off = node.applied] BY <2>1, Zenon
  <2>3. RaftShape(raft') BY Zenon, <1>0, <2>4 DEF RaftShape
  <2> QED BY <1>0, <2>1, <2>2, <2>3, ShapesKept, Zenon
<1>12. ASSUME setting' = setting, raft' = raft, node' = node, ghost' = ghost
       PROVE  Shapes' /\ (Orderly' => Orderly)
  BY <1>0, <1>12, ShapesKept, Zenon
<1>13. CASE PruneStart BY <1>12, <1>13, Zenon DEF PruneStart
<1>14. CASE PruneList BY <1>12, <1>14, Zenon DEF PruneList
<1>15. CASE PruneSegment BY <1>12, <1>15, Zenon DEF PruneSegment
<1>16. CASE PrunePassDone BY <1>12, <1>16, Zenon DEF PrunePassDone
<1>17. CASE Crash
  <2> PICK q : ghost' = [ghost EXCEPT !.crashes = @ + 1, !.acked = q]
    BY <1>17, Zenon DEF Crash
  <2>1. setting' = setting /\ raft' = raft /\ node' = Fresh("boot") BY <1>17, Zenon DEF Crash
  <2> PICK x : x = ghost.crashes + 1 BY Zenon
  <2>3. ghost' = [ghost EXCEPT !.crashes = x, !.acked = q] BY Zenon
  <2>2. GhostShape(ghost') /\ ghost'.replaced = ghost.replaced BY Zenon, <1>0, <2>3 DEF GhostShape
  <2> QED BY <1>0, <2>1, <2>2, NodeFresh, ShapesKept, Zenon
<1>18. CASE Boot
  <2> PICK q : ghost' = [ghost EXCEPT !.damaged = q] BY <1>18, Zenon DEF Boot
  <2>1. setting' = setting BY <1>18, Zenon DEF Boot
  <2>2. GhostShape(ghost') /\ ghost'.replaced = ghost.replaced BY <1>0, GhostBoots, Zenon
  <2> PICK st : st = Load(files) BY Zenon
  <2> PICK hs : hs = IF files.hs = 0 THEN st.off ELSE files.hs BY Zenon
  <2>4. RaftShape(raft') /\ NodeShape(node')
    <3>1. CASE ~CanRestart(st, files.hs)
      BY <1>0, <1>18, <3>1, BootFacts, NodeGoes, Zenon
    <3>2. CASE CanRestart(st, files.hs)
      <4>1. raft' = [off |-> st.off, log |-> st.ents, commit |-> hs, applied |-> st.off,
                     term |-> raft.term]
        BY <1>18, <3>2, BootFacts, Zenon
      <4>2. RaftShape(raft') BY Zenon, <4>1 DEF RaftShape
      <4>3. PICK i, k : node' = [node EXCEPT !.pc = "idle", !.applied = i, !.snapIdx = st.off,
                                             !.lastHS = k]
        BY <1>18, <3>2, BootFacts, Zenon
      <4>4. NodeShape(node') BY Zenon, <1>0, <4>3 DEF NodeShape
      <4> QED BY Zenon, <4>2, <4>4
    <3> QED BY Zenon, <3>1, <3>2
  <2> QED BY <2>1, <2>2, <2>4, ShapesKept, Zenon
<1>19. CASE UNCHANGED vars BY <1>12, <1>19, Zenon DEF vars
<1> QED BY Zenon, <1>1, <1>2, <1>3, <1>5, <1>6, <1>7, <1>8, <1>9, <1>10, <1>11, <1>13, <1>14, <1>15,
           <1>16, <1>17, <1>18, <1>19, Zenon DEF DiskNext

LEMMA SubSeqBetween ==
  ASSUME NEW s \in Seq(LogEntries), NEW m \in Nat, NEW n \in Nat, m <= n, n <= Len(s)
  PROVE  /\ SubSeq(s, m + 1, n) \in Seq(LogEntries)
         /\ Len(SubSeq(s, m + 1, n)) = n - m
         /\ \A k \in 1 .. n - m : SubSeq(s, m + 1, n)[k] = s[m + k]
  OBVIOUS

\* c holds entries of s with indices from x + 1 to y.
Sliced(c, s, a, x, y) ==
  /\ c \in Seq(LogEntries)
  /\ \A k \in 1 .. Len(c) : c[k].i \in x + 1 .. y /\ s[c[k].i - a] = c[k]

LEMMA SliceFacts ==
  ASSUME NEW s, NEW a, From(s, a), NEW x \in a .. a + Len(s), NEW y \in x .. a + Len(s)
  PROVE  Sliced(SubSeq(s, (x + 1) - a, y - a), s, a, x, y)
<1>1. s \in Seq(LogEntries) /\ a \in Nat /\ Len(s) \in Nat BY DEF From
<1> DEFINE m == x - a
           n == y - a
           c == SubSeq(s, m + 1, n)
<1>2. m \in Nat /\ n \in Nat /\ m <= n /\ n <= Len(s) /\ (x + 1) - a = m + 1 BY <1>1
<1>3. SubSeq(s, (x + 1) - a, y - a) = c BY <1>2, Zenon
<1>4. \A k \in 1 .. n - m : /\ m + k \in 1 .. Len(s) /\ a + (m + k) \in x + 1 .. y
                            /\ (a + (m + k)) - a = m + k
  BY <1>1
<1> HIDE DEF m, n
<1>5. c \in Seq(LogEntries) /\ Len(c) = n - m /\ \A k \in 1 .. n - m : c[k] = s[m + k]
  BY <1>1, <1>2, SubSeqBetween
<1> HIDE DEF c
<1>6. ASSUME NEW k \in 1 .. Len(c) PROVE c[k].i \in x + 1 .. y /\ s[c[k].i - a] = c[k]
  <2>1. k \in 1 .. n - m BY <1>5, Zenon
  <2>2. c[k] = s[m + k] BY <1>5, <2>1, Zenon
  <2>3. s[m + k].i = a + (m + k) BY <1>4, <2>1, Zenon DEF From
  <2>4. c[k].i = a + (m + k) BY <2>2, <2>3, Zenon
  <2>5. c[k].i \in x + 1 .. y /\ c[k].i - a = m + k BY <1>4, <2>1, <2>4, Zenon
  <2> QED BY <2>2, <2>5, Zenon
<1> QED BY <1>3, <1>5, <1>6, Zenon DEF Sliced

\* A Ready that adds entries behind the log.
\* Snapshot o, applied a, commit c and the end e of a log.
InOrder(o, a, c, e) ==
  /\ a \in o .. e /\ c \in o .. e /\ c \in a .. e /\ c \in o .. c
  /\ a + 1 .. c \subseteq o + 1 .. c /\ o + 1 .. a \subseteq o + 1 .. c

LEMMA Marks ==
  ASSUME NEW o \in Nat, NEW a \in Nat, NEW c \in Nat, NEW e \in Nat, o <= a, a <= c, c <= e
  PROVE  InOrder(o, a, c, e)
  BY DEF InOrder

LEMMA ReadyKeeps ==
  ASSUME Shapes, DiskOk, node.pc = "idle", NEW r, RaftShape(r), NEW es,
         From(es, RaftLast(raft)), r.off = raft.off, r.log = raft.log \o es,
         r.commit \in raft.commit .. raft.off + Len(raft.log \o es),
         r.applied = raft.applied, r.term \in Nat, GiveReady(r, 0, es),
         ghost'.applied = ghost.applied
  PROVE  DiskOk'
<1>1. /\ FilesOk(files) /\ ghost.applied \subseteq LogEntries /\ Survives(ghost.applied, Load(files))
      /\ RaftOk /\ Load(files) = Held /\ storage = Held
  BY Zenon DEF DiskOk, PhaseOk
<1>2. /\ From(raft.log, raft.off) /\ raft.commit \in raft.off .. RaftLast(raft)
      /\ raft.applied \in raft.off .. raft.commit
  BY <1>1, Zenon DEF RaftOk
<1> PICK o, l : o = raft.off /\ l = raft.log BY Zenon
<1>3. o \in Nat /\ l \in Seq(LogEntries) /\ es \in Seq(LogEntries) /\ RaftLast(raft) = o + Len(l)
  BY Zenon, <1>2 DEF From, RaftLast
<1>4. From(l \o es, o) BY <1>2, <1>3, JoinFrom, Zenon
<1>5. Len(l \o es) = Len(l) + Len(es) BY <1>3
<1>6. raft.commit \in Nat /\ raft.applied \in Nat /\ r.commit \in Nat
      /\ raft.commit <= r.commit /\ r.commit <= o + Len(l \o es)
      /\ o <= raft.applied /\ raft.applied <= raft.commit
  BY <1>2, <1>3
<1> PICK c : c = SubSeq(l \o es, (raft.applied + 1) - o, r.commit - o) BY Zenon
<1> PICK rd : rd = [snap |-> 0, ents |-> es, commit |-> r.commit, com |-> c] BY Zenon
<1>17. /\ raft.applied \in o .. o + Len(l \o es) /\ r.commit \in o .. o + Len(l \o es)
       /\ r.commit \in raft.applied .. o + Len(l \o es) /\ r.commit \in o .. r.commit
       /\ raft.applied + 1 .. r.commit \subseteq o + 1 .. r.commit
       /\ o + 1 .. raft.applied \subseteq o + 1 .. r.commit
  <2>1. Len(l \o es) \in Nat BY <1>3, <1>5, LenNat
  <2>2. o + Len(l \o es) \in Nat BY <1>3, <2>1
  <2>3. raft.applied <= r.commit BY <1>6
  <2>4. InOrder(o, raft.applied, r.commit, o + Len(l \o es))
    BY <1>3, <1>6, <2>2, <2>3, Marks, Zenon
  <2> QED BY <2>4, Zenon DEF InOrder
<1>7. rd.snap = 0 /\ rd.ents = es /\ rd.commit = r.commit /\ rd.com = c
      /\ rd = [snap |-> rd.snap, ents |-> rd.ents, commit |-> rd.commit, com |-> rd.com]
  BY Zenon
<1>8. /\ raft' = [r EXCEPT !.applied = r.commit]
      /\ node' = [node EXCEPT !.pc = "snapshot", !.rd = rd]
      /\ storage' = storage /\ files' = files
  <2>1. Max({r.applied, 0}) = raft.applied /\ Max({r.commit, 0}) = r.commit
    BY <1>6, MaxZero, Zenon
  <2>3. r.log = l \o es /\ r.off = o BY Zenon
  <2>4. RaftSlice(r, raft.applied + 1, r.commit) =
          SubSeq(r.log, (raft.applied + 1) - r.off, r.commit - r.off)
    BY Zenon DEF RaftSlice
  <2>2. RaftSlice(r, raft.applied + 1, r.commit) = c BY <2>3, <2>4, Zenon
  <2> QED BY <2>1, <2>2, Zenon DEF GiveReady
<1>9. raft'.off = o /\ raft'.log = l \o es /\ raft'.commit = r.commit
      /\ raft'.applied = r.commit /\ raft'.term = r.term
  <2> PICK x : x = r.commit BY Zenon
  <2>1. raft' = [r EXCEPT !.applied = x] BY <1>8, Zenon
  <2>2. /\ raft'.off = r.off /\ raft'.log = r.log /\ raft'.commit = r.commit
        /\ raft'.applied = x /\ raft'.term = r.term
    BY Zenon, <2>1 DEF RaftShape
  <2> QED BY <2>2, Zenon
<1>10. node'.pc = "snapshot" /\ node'.rd = rd /\ node'.applied = node.applied
       /\ node'.since = node.since
  <2>1. NodeShape(node) BY Zenon DEF Shapes
  <2>2. node' = [node EXCEPT !.pc = "snapshot", !.rd = rd] BY <1>8, Zenon
  <2> QED BY Zenon, <1>7, <2>1, <2>2 DEF NodeShape
<1>11. RaftOk'
  <2>1. From(raft'.log, raft'.off) BY <1>4, <1>9, Zenon
  <2>2. raft'.commit \in raft'.off .. raft'.off + Len(raft'.log)
    BY <1>9, <1>17, Zenon
  <2>3. raft'.applied \in raft'.off .. raft'.commit
    BY <1>9, <1>17, Zenon
  <2>4. node'.since > 0 => node'.applied \in raft'.off + 1 .. raft'.applied
    <3>1. node.since > 0 => node.applied \in o + 1 .. raft.applied BY <1>1, Zenon DEF RaftOk
    <3>2. node.since > 0 => node.applied \in o + 1 .. r.commit BY <1>17, <3>1, Zenon
    <3> QED BY <1>9, <1>10, <3>2, Zenon
  <2> QED BY <2>1, <2>2, <2>3, <2>4, Zenon DEF RaftOk, RaftLast
<1>12. RdOk'
  <2>1. storage = [off |-> o, ents |-> l] BY <1>1, Zenon DEF Held
  <2>2. storage.off = o /\ storage.ents = l BY <2>1, HeldParts, Zenon
  <2>3. LogHeld(storage) BY <1>2, <2>1, <2>2, Zenon DEF LogHeld
  <2>4. LastIndex(storage) = RaftLast(raft) BY <1>3, <2>2, Zenon DEF LastIndex
  <2> QED BY <1>7, <1>8, <1>9, <1>10, <2>2, <2>3, <2>4, Zenon DEF RdOk
<1>13. ComOk'
  <2>1. raft.applied \in o .. o + Len(l \o es) /\ r.commit \in raft.applied .. o + Len(l \o es)
    BY <1>17, Zenon
  <2>2. c \in Seq(LogEntries)
        /\ \A k \in 1 .. Len(c) : c[k].i \in raft.applied + 1 .. r.commit
                                  /\ (l \o es)[c[k].i - o] = c[k]
    <3>1. Sliced(SubSeq(l \o es, (raft.applied + 1) - o, r.commit - o), l \o es, o,
                 raft.applied, r.commit)
      BY <1>4, <2>1, SliceFacts, Zenon
    <3> QED BY <3>1, Zenon DEF Sliced
  <2>3. raft.applied + 1 .. r.commit \subseteq o + 1 .. r.commit BY <1>17, Zenon
  <2>4. \A k \in 1 .. Len(c) : c[k].i \in o + 1 .. r.commit /\ (l \o es)[c[k].i - o] = c[k]
    BY <2>2, <2>3, ZenonT(40)
  <2>5. node'.rd.snap = 0 /\ node'.rd.commit = r.commit /\ node'.rd.com = c
    BY <1>7, <1>10, Zenon
  <2>6. node'.rd.snap = 0 /\ node'.rd.commit \in Nat /\ node'.rd.com \in Seq(LogEntries)
    BY <1>6, <2>2, <2>5, Zenon
  <2>7. \A k \in 1 .. Len(node'.rd.com) :
          /\ node'.rd.com[k].i \in raft'.off + 1 .. raft'.applied
          /\ raft'.log[node'.rd.com[k].i - raft'.off] = node'.rd.com[k]
    BY <1>9, <2>4, <2>5, Zenon
  <2> QED BY <2>6, <2>7, Zenon DEF ComOk
<1>14. PhaseOk' BY Zenon, <1>1, <1>8, <1>10, <1>12, <1>13 DEF PhaseOk
<1>15. Survives(ghost.applied, Load(files))' BY <1>1, <1>8, Zenon DEF Survives
<1>16. node'.pc # "boot" BY Zenon, <1>10
<1> QED BY <1>1, <1>8, <1>9, <1>11, <1>14, <1>15, <1>16, Zenon DEF DiskOk

LEMMA NewEntries ==
  ASSUME NEW b \in Nat, NEW t \in Nat, NEW n \in Nat
  PROVE  /\ From([j \in 1 .. n |-> Entry(b + j, t)], b)
         /\ Len([j \in 1 .. n |-> Entry(b + j, t)]) = n
<1>0. PICK es : es = [j \in 1 .. n |-> Entry(b + j, t)] BY Zenon
<1>1. \A j \in 1 .. n : Entry(b + j, t) \in LogEntries /\ Entry(b + j, t).i = b + j
  BY DEF Entry, LogEntries
<1>2. \A j \in 1 .. n : es[j] = Entry(b + j, t) BY <1>0, Zenon
<1>3. es \in [1 .. n -> LogEntries] BY <1>0, <1>1, Zenon
<1>4. es \in Seq(LogEntries) /\ Len(es) = n BY <1>3
<1>5. \A j \in 1 .. Len(es) : es[j].i = b + j BY <1>1, <1>2, <1>4, Zenon
<1> QED BY <1>0, <1>4, <1>5, Zenon DEF From

LEMMA CommitsAll ==
  ASSUME NEW o \in Nat, NEW x \in Nat, NEW n \in Nat, NEW c \in o .. o + x
  PROVE  (o + x) + n \in c .. o + (x + n)
  OBVIOUS

LEMMA SingleKeeps ==
  ASSUME Shapes, DiskOk, ReadySingle
  PROVE  DiskOk'
<1>0. node.pc = "idle" /\ RaftShape(raft) BY Zenon DEF ReadySingle, Idle, Shapes
<1>1. From(raft.log, raft.off) /\ raft.commit \in raft.off .. RaftLast(raft) /\ raft.term \in Nat
  BY <1>0, Zenon DEF DiskOk, RaftOk
<1> PICK b : b = RaftLast(raft) BY Zenon
<1>2. /\ b = raft.off + Len(raft.log) /\ b \in Nat /\ raft.off \in Nat
      /\ raft.log \in Seq(LogEntries)
  BY <1>1 DEF From, RaftLast
<1> PICK n \in 0 .. 2 :
       GiveReady([raft EXCEPT !.log = @ \o [j \in 1 .. n |-> Entry(b + j, raft.term)],
                              !.commit = b + n], 0, [j \in 1 .. n |-> Entry(b + j, raft.term)])
  BY Zenon DEF ReadySingle
<1> PICK es : es = [j \in 1 .. n |-> Entry(b + j, raft.term)] BY Zenon
<1>3. From(es, b) /\ Len(es) = n BY <1>1, <1>2, NewEntries
<1> PICK l : l = raft.log \o es BY Zenon
<1>4. Len(l) = Len(raft.log) + n BY <1>2, <1>3 DEF From
<1> PICK r : r = [raft EXCEPT !.log = l, !.commit = b + n] BY Zenon
<1>5. GiveReady(r, 0, es) BY Zenon
<1>6. /\ RaftShape(r) /\ r.off = raft.off /\ r.log = l /\ r.commit = b + n
      /\ r.applied = raft.applied /\ r.term = raft.term
  BY Zenon, <1>0 DEF RaftShape
<1>7. b + n \in raft.commit .. raft.off + Len(l)
  <2>1. n \in Nat OBVIOUS
  <2>2. Len(raft.log) \in Nat BY <1>2, LenNat, Zenon
  <2>3. raft.commit \in raft.off .. raft.off + Len(raft.log) BY <1>1, <1>2, Zenon
  <2> QED BY <1>2, <1>4, <2>1, <2>2, <2>3, CommitsAll, Zenon
<1>8. ghost'.applied = ghost.applied BY Zenon DEF ReadySingle
<1>9. r.log = raft.log \o es /\ r.commit \in raft.commit .. raft.off + Len(raft.log \o es)
      /\ r.term \in Nat
  BY <1>1, <1>6, <1>7, Zenon
<1> QED BY <1>0, <1>3, <1>5, <1>6, <1>8, <1>9, ReadyKeeps, Zenon

LEMMA FollowerKeeps ==
  ASSUME Shapes, DiskOk, ReadyFollower, Orderly'
  PROVE  DiskOk'
<1>0. node.pc = "idle" /\ RaftShape(raft) /\ GhostShape(ghost)
  BY Zenon DEF ReadyFollower, Idle, Shapes
<1>1. From(raft.log, raft.off) /\ raft.commit \in raft.off .. RaftLast(raft) /\ raft.term \in Nat
  BY <1>0, Zenon DEF DiskOk, RaftOk
<1>11. PICK b : b = RaftLast(raft) BY Zenon
<1>2. /\ b = raft.off + Len(raft.log) /\ b \in Nat /\ raft.off \in Nat
      /\ raft.log \in Seq(LogEntries)
  BY <1>1, <1>11 DEF From, RaftLast
<1>12. PICK j \in raft.commit + 1 .. RaftLast(raft) + 1, n \in 0 .. 1 :
       LET over == n = 1 /\ j <= RaftLast(raft)
           t    == IF over THEN raft.term + 1 ELSE raft.term
           es   == [k \in 1 .. n |-> Entry(j, t)]
           log  == IF n = 0 THEN raft.log ELSE RaftSlice(raft, raft.off + 1, j - 1) \o es
       IN  /\ \E c \in raft.commit .. raft.off + Len(log) :
                GiveReady([raft EXCEPT !.log = log, !.commit = c, !.term = t], 0, es)
           /\ ghost' = [ghost EXCEPT !.conflicts = @ + (IF over THEN 1 ELSE 0),
                                      !.replaced = @ \/ over]
  BY ZenonT(40) DEF ReadyFollower
<1>13. PICK over : over = (n = 1 /\ j <= b) BY Zenon
<1>14. PICK t : t = IF over THEN raft.term + 1 ELSE raft.term BY Zenon
<1>15. PICK es : es = [k \in 1 .. n |-> Entry(j, t)] BY Zenon
<1>16. PICK log : log = IF n = 0 THEN raft.log ELSE RaftSlice(raft, raft.off + 1, j - 1) \o es BY Zenon
<1>10. /\ \E c \in raft.commit .. raft.off + Len(log) :
            GiveReady([raft EXCEPT !.log = log, !.commit = c, !.term = t], 0, es)
       /\ ghost' = [ghost EXCEPT !.conflicts = @ + (IF over THEN 1 ELSE 0),
                                  !.replaced = @ \/ over]
  BY <1>11, <1>12, <1>13, <1>14, <1>15, <1>16, Zenon
<1>17. PICK c \in raft.commit .. raft.off + Len(log) :
       GiveReady([raft EXCEPT !.log = log, !.commit = c, !.term = t], 0, es)
  BY Zenon, <1>10
<1>3. ~over /\ ghost'.applied = ghost.applied
  <2> PICK x, y : x = ghost.conflicts + (IF over THEN 1 ELSE 0) /\ y = (ghost.replaced \/ over)
    BY Zenon
  <2>1. ghost' = [ghost EXCEPT !.conflicts = x, !.replaced = y] BY <1>10, Zenon
  <2>2. ghost'.applied = ghost.applied /\ ghost'.replaced = y BY Zenon, <1>0, <2>1 DEF GhostShape
  <2>3. ~ghost'.replaced BY Zenon DEF Orderly
  <2> QED BY <2>2, <2>3, Zenon
<1>4. t = raft.term BY <1>3, <1>14, Zenon
<1>5. From(es, b) /\ log = raft.log \o es
  <2>1. CASE n = 0
    <3>1. es = <<>> BY <1>15, <2>1
    <3>2. From(es, b) BY <1>2, <3>1 DEF From
    <3>3. raft.log \o es = raft.log BY <1>2, <3>1
    <3> QED BY <1>16, <2>1, <3>2, <3>3, Zenon
  <2>2. CASE n = 1
    <3>1. ~(j <= b) BY <1>3, <1>13, <2>2, Zenon
    <3>2. j = b + 1
      <4>1. raft.commit \in Int BY <1>1, <1>2
      <4>2. j \in raft.commit + 1 .. b + 1 BY <1>11, <1>12, Zenon
      <4> QED BY <1>2, <3>1, <4>1, <4>2
    <3>3. es = [k \in 1 .. 1 |-> Entry(b + k, raft.term)] BY <1>4, <1>15, <2>2, <3>2
    <3>4. From([k \in 1 .. 1 |-> Entry(b + k, raft.term)], b) BY ZenonT(40), <1>1, <1>2, NewEntries
    <3>5. From(es, b) BY <3>3, <3>4, Zenon
    <3>6. (raft.off + 1) - raft.off = 1 /\ (j - 1) - raft.off = Len(raft.log) BY <1>2, <3>2
    <3>7. RaftSlice(raft, raft.off + 1, j - 1) = SubSeq(raft.log, 1, Len(raft.log))
      BY <3>6, Zenon DEF RaftSlice
    <3>8. RaftSlice(raft, raft.off + 1, j - 1) = raft.log BY <1>2, <3>7, WholeSeq, Zenon
    <3>9. n # 0 BY <2>2
    <3> QED BY <1>16, <3>5, <3>8, <3>9, Zenon
  <2> QED BY <2>1, <2>2
<1>18. PICK r : r = [raft EXCEPT !.log = log, !.commit = c, !.term = t] BY Zenon
<1>6. GiveReady(r, 0, es) BY <1>17, <1>18, Zenon
<1>7. /\ RaftShape(r) /\ r.off = raft.off /\ r.log = log /\ r.commit = c
      /\ r.applied = raft.applied /\ r.term = t
  BY Zenon, <1>0, <1>18 DEF RaftShape
<1>8. r.log = raft.log \o es /\ r.commit \in raft.commit .. raft.off + Len(raft.log \o es)
      /\ r.term \in Nat
  BY <1>1, <1>4, <1>5, <1>7, <1>17, Zenon
<1>19. From(es, RaftLast(raft)) BY <1>5, <1>11, Zenon
<1> QED BY <1>0, <1>3, <1>6, <1>7, <1>8, <1>19, ReadyKeeps, Zenon

LEMMA SurvivesMore ==
  ASSUME NEW A, A \subseteq LogEntries, NEW st, LogHeld(st), Survives(A, st),
         NEW es \in Seq(LogEntries)
  PROVE  Survives(A, [off |-> st.off, ents |-> st.ents \o es])
<1>1. PICK o, u : o = st.off /\ u = st.ents BY Zenon
<1>2. o \in Nat /\ u \in Seq(LogEntries) BY Zenon, <1>1 DEF LogHeld, From
<1>3. PICK w : w = u \o es BY Zenon
<1>4. Len(w) = Len(u) + Len(es) BY <1>2, <1>3
<1>5. PICK tt : tt = [off |-> o, ents |-> w] BY Zenon
<1>6. tt.off = o /\ tt.ents = w BY Zenon, <1>5
<1>7. ASSUME NEW e \in A
      PROVE  e.i <= tt.off \/ (e.i <= LastIndex(tt) /\ tt.ents[e.i - tt.off] = e)
  <2>1. e.i \in Nat BY Zenon DEF LogEntries
  <2>2. e.i <= o \/ (e.i <= o + Len(u) /\ u[e.i - o] = e)
    BY <1>1, Zenon DEF Survives, LastIndex
  <2>3. CASE e.i <= o BY Zenon, <1>6, <2>3
  <2>4. CASE ~(e.i <= o)
    <3>1. e.i - o \in 1 .. Len(u) /\ e.i <= o + Len(w) BY <1>2, <1>4, <2>1, <2>2, <2>4
    <3>2. w[e.i - o] = u[e.i - o] BY Zenon, <1>2, <1>3, <3>1, JoinAt
    <3> QED BY <1>6, <2>2, <2>4, <3>1, <3>2, Zenon DEF LastIndex
  <2> QED BY Zenon, <2>3, <2>4
<1>8. Survives(A, tt) BY <1>7, Zenon DEF Survives
<1> QED BY <1>1, <1>3, <1>5, <1>8, Zenon

LEMMA SurvivesSnap ==
  ASSUME NEW A, A \subseteq LogEntries, NEW st, LogHeld(st), Survives(A, st),
         NEW s \in st.off .. LastIndex(st)
  PROVE  Survives(A, [off |-> s, ents |-> Behind(st.ents, st.off, s)])
<1>1. PICK o, u : o = st.off /\ u = st.ents BY Zenon
<1>2. From(u, o) /\ o \in Nat /\ u \in Seq(LogEntries) BY Zenon, <1>1 DEF LogHeld, From
<1>3. s \in o .. o + Len(u) BY <1>1, Zenon DEF LastIndex
<1>4. PICK w : w = Behind(u, o, s) BY Zenon
<1>5. Len(w) = o + Len(u) - s /\ \A j \in 1 .. o + Len(u) - s : w[j] = u[s - o + j]
  <2>1. From(u, o) BY <1>2, Zenon
  <2>2. \A q \in o .. o + Len(u) :
          /\ Len(Behind(u, o, q)) = o + Len(u) - q
          /\ \A j \in 1 .. o + Len(u) - q : Behind(u, o, q)[j] = u[q - o + j]
    BY <2>1, BehindFacts
  <2> QED BY <1>3, <1>4, <2>2, Zenon
<1>6. PICK tt : tt = [off |-> s, ents |-> w] BY Zenon
<1>7. tt.off = s /\ tt.ents = w BY Zenon, <1>6
<1>8. s \in Nat /\ o <= s /\ s <= o + Len(u) /\ Len(u) \in Nat BY <1>2, <1>3
<1>9. ASSUME NEW e \in A
      PROVE  e.i <= tt.off \/ (e.i <= LastIndex(tt) /\ tt.ents[e.i - tt.off] = e)
  <2>1. e.i \in Nat BY Zenon DEF LogEntries
  <2>2. e.i <= o \/ (e.i <= o + Len(u) /\ u[e.i - o] = e)
    BY <1>1, Zenon DEF Survives, LastIndex
  <2>3. CASE e.i <= s BY Zenon, <1>7, <2>3
  <2>4. CASE ~(e.i <= s)
    <3>1. e.i <= o + Len(u) /\ u[e.i - o] = e BY <1>2, <1>8, <2>1, <2>2, <2>4
    <3>2. /\ e.i - s \in 1 .. o + Len(u) - s /\ s - o + (e.i - s) = e.i - o
          /\ e.i <= s + Len(w)
      BY SMTT(30), <1>2, <1>5, <1>8, <2>1, <2>4, <3>1
    <3>3. w[e.i - s] = u[e.i - o] BY <1>5, <3>2, Zenon
    <3> QED BY <1>7, <2>4, <3>1, <3>2, <3>3, Zenon DEF LastIndex
  <2> QED BY Zenon, <2>3, <2>4
<1>10. Survives(A, tt) BY <1>9, Zenon DEF Survives
<1> QED BY <1>1, <1>4, <1>6, <1>10, Zenon

\* A step that leaves the files, the storage and the log alone.
LEMMA StillKeeps ==
  ASSUME DiskOk, files' = files, ghost'.applied = ghost.applied, raft' = raft,
         node'.pc \notin {"boot", "dead"} => node.pc \notin {"boot", "dead"} /\ PhaseOk',
         node'.pc = "boot" => node.pc = "boot",
         node'.since = node.since, node'.applied = node.applied
  PROVE  DiskOk'
<1>1. FilesOk(files') /\ ghost'.applied \subseteq LogEntries
      /\ Survives(ghost'.applied, Load(files')) /\ raft'.term \in Nat
  BY Zenon DEF DiskOk
<1>2. node'.pc \notin {"boot", "dead"} => RaftOk' /\ PhaseOk'
  BY Zenon DEF DiskOk, RaftOk, RaftLast
<1>3. node'.pc = "boot" => node'.since = 0 BY Zenon DEF DiskOk
<1> QED BY <1>1, <1>2, <1>3, Zenon DEF DiskOk

LEMMA WriteSnapshotKeeps ==
  ASSUME Shapes, DiskOk, WriteSnapshot
  PROVE  DiskOk'
<1>1. node.pc = "snapshot" /\ node' = [node EXCEPT !.pc = "hardstate"]
      /\ raft' = raft /\ storage' = storage /\ ghost' = ghost
  BY Zenon DEF WriteSnapshot, Goto
<1>2. node'.pc = "hardstate" /\ node'.rd = node.rd /\ node'.applied = node.applied
      /\ node'.since = node.since
  BY Zenon, <1>1 DEF Shapes, NodeShape
<1>3. RaftOk /\ Load(files) = storage /\ RdOk /\ ComOk BY Zenon, <1>1 DEF DiskOk, PhaseOk
<1>4. files' = files BY <1>3, Zenon DEF WriteSnapshot, PersistSnapshot, ComOk
<1>5. RdOk' /\ ComOk' BY <1>1, <1>2, <1>3, Zenon DEF RdOk, ComOk
<1>6. PhaseOk' BY Zenon, <1>1, <1>2, <1>3, <1>4, <1>5 DEF PhaseOk
<1> QED BY Zenon, <1>1, <1>2, <1>4, <1>6, StillKeeps

LEMMA WriteHardStateKeeps ==
  ASSUME Shapes, DiskOk, WriteHardState
  PROVE  DiskOk'
<1>1. /\ node.pc = "hardstate" /\ node' = [node EXCEPT !.pc = "entries"]
      /\ files' = PersistHardState(files, node.rd.commit)
      /\ raft' = raft /\ storage' = storage /\ ghost' = ghost
  BY Zenon DEF WriteHardState, Goto
<1>2. node'.pc = "entries" /\ node'.rd = node.rd /\ node'.applied = node.applied
      /\ node'.since = node.since
  BY Zenon, <1>1 DEF Shapes, NodeShape
<1>3. RaftOk /\ Load(files) = storage /\ RdOk /\ ComOk BY Zenon, <1>1 DEF DiskOk, PhaseOk
<1>4. FilesOk(files') /\ Load(files') = Load(files)
  BY <1>1, <1>3, LoadHardState, Zenon DEF ComOk, DiskOk
<1>5. RdOk' /\ ComOk' BY <1>1, <1>2, <1>3, Zenon DEF RdOk, ComOk
<1>6. PhaseOk' BY Zenon, <1>1, <1>2, <1>3, <1>4, <1>5 DEF PhaseOk
<1>7. RaftOk' BY <1>1, <1>2, <1>3, Zenon DEF RaftOk, RaftLast
<1>8. ghost'.applied \subseteq LogEntries /\ Survives(ghost'.applied, Load(files'))
      /\ raft'.term \in Nat
  BY <1>1, <1>4, Zenon DEF DiskOk
<1>9. node'.pc # "boot" BY Zenon, <1>2
<1> QED BY <1>4, <1>6, <1>7, <1>8, <1>9, Zenon DEF DiskOk

LEMMA WriteEntriesKeeps ==
  ASSUME Shapes, DiskOk, WriteEntries
  PROVE  DiskOk'
<1>1. /\ node.pc = "entries" /\ node' = [node EXCEPT !.pc = "walhs"]
      /\ files' = PersistEntries(files, node.rd.ents)
      /\ raft' = raft /\ storage' = storage /\ ghost' = ghost
  BY Zenon DEF WriteEntries, Goto
<1>2. node'.pc = "walhs" /\ node'.rd = node.rd /\ node'.applied = node.applied
      /\ node'.since = node.since
  BY Zenon, <1>1 DEF Shapes, NodeShape
<1>3. RaftOk /\ Load(files) = storage /\ RdOk /\ ComOk BY Zenon, <1>1 DEF DiskOk, PhaseOk
<1>4. From(node.rd.ents, LastIndex(Load(files))) /\ node.rd.ents \in Seq(LogEntries)
  BY <1>3, Zenon DEF RdOk, From
<1>5. FilesOk(files)
      /\ ghost.applied \subseteq LogEntries /\ Survives(ghost.applied, Load(files))
      /\ raft.term \in Nat
  BY Zenon DEF DiskOk
<1>6. /\ FilesOk(files')
      /\ Load(files') = [off |-> Load(files).off, ents |-> Load(files).ents \o node.rd.ents]
  BY <1>1, <1>4, <1>5, LoadMore, Zenon
<1>7. Load(files') = Held' BY <1>1, <1>3, <1>6, Zenon DEF RdOk, Held
<1>8. Survives(ghost'.applied, Load(files'))
  <2>1. LogHeld(Load(files)) BY <1>5, LoadHeld, Zenon
  <2> QED BY <1>1, <1>4, <1>5, <1>6, <2>1, SurvivesMore, Zenon
<1>9. RdOk' /\ ComOk' BY <1>1, <1>2, <1>3, Zenon DEF RdOk, ComOk
<1>10. PhaseOk' BY Zenon, <1>2, <1>7, <1>9 DEF PhaseOk
<1>11. RaftOk' BY <1>1, <1>2, <1>3, Zenon DEF RaftOk, RaftLast
<1>12. node'.pc # "boot" BY Zenon, <1>2
<1> QED BY <1>1, <1>5, <1>6, <1>8, <1>10, <1>11, <1>12, Zenon DEF DiskOk

LEMMA WalHardStateKeeps ==
  ASSUME Shapes, DiskOk, WalHardState
  PROVE  DiskOk'
<1>1. /\ node.pc = "walhs" /\ node' = [node EXCEPT !.pc = "apply", !.lastHS = node.rd.commit]
      /\ storage' = StorageAppend(StorageSnapshot(storage, node.rd.snap), node.rd.ents)
      /\ raft' = raft /\ files' = files
      /\ ghost' = ghost \/ \E fs : Acked(fs)
  BY Zenon DEF WalHardState
<1>2. node'.pc = "apply" /\ node'.rd = node.rd /\ node'.applied = node.applied
      /\ node'.since = node.since
  BY Zenon, <1>1 DEF Shapes, NodeShape
<1>3. RaftOk /\ Load(files) = Held /\ RdOk /\ ComOk BY Zenon, <1>1 DEF DiskOk, PhaseOk
<1>4. ghost'.applied = ghost.applied
  <2>1. GhostShape(ghost) BY Zenon DEF Shapes
  <2>2. ASSUME NEW fs, Acked(fs) PROVE ghost'.applied = ghost.applied
    <3>1. PICK x : x = ghost.acked \o fs BY Zenon
    <3>2. ghost' = [ghost EXCEPT !.acked = x] BY <2>2, <3>1, Zenon DEF Acked
    <3> QED BY Zenon, <2>1, <3>2 DEF GhostShape
  <2> QED BY <1>1, <2>2, Zenon
<1>5. storage' = Held
  <2>1. node.rd.snap = 0 BY <1>3, Zenon DEF ComOk
  <2>2. StorageSnapshot(storage, node.rd.snap) = storage BY <2>1, Zenon DEF StorageSnapshot
  <2>3. LogHeld(storage) /\ From(node.rd.ents, LastIndex(storage)) BY <1>3, Zenon DEF RdOk
  <2>4. storage' = [off |-> storage.off, ents |-> storage.ents \o node.rd.ents]
    BY <1>1, <2>2, <2>3, StorageMore, Zenon
  <2> QED BY <1>3, <2>4, Zenon DEF RdOk, Held
<1>6. ComOk' BY <1>1, <1>2, <1>3, Zenon DEF ComOk
<1>7. Held' = Held BY <1>1, Zenon DEF Held
<1>8. PhaseOk' BY Zenon, <1>1, <1>2, <1>3, <1>5, <1>6, <1>7 DEF PhaseOk
<1>9. node'.pc # "boot" /\ node.pc \notin {"boot", "dead"} BY Zenon, <1>1, <1>2
<1> QED BY <1>1, <1>2, <1>4, <1>8, <1>9, StillKeeps, Zenon

LEMMA ApplyCommittedKeeps ==
  ASSUME Shapes, DiskOk, ApplyCommitted
  PROVE  DiskOk'
<1>1. PICK c : c = node.rd.com BY Zenon
<1>2. PICK e : e = Head(c) BY Zenon
<1>3. /\ node.pc = "apply" /\ c # <<>> /\ raft' = raft /\ storage' = storage /\ files' = files
      /\ node' = [node EXCEPT !.rd.com = Tail(c), !.applied = e.i, !.since = @ + 1]
      /\ \E q : ghost' = [ghost EXCEPT !.applied = @ \cup {e}, !.acked = q]
  BY <1>1, <1>2, Zenon DEF ApplyCommitted
<1>4. node'.pc = "apply" /\ node'.applied = e.i /\ node'.since = node.since + 1
      /\ node'.rd.snap = node.rd.snap /\ node'.rd.commit = node.rd.commit
      /\ node'.rd.com = Tail(c)
  <2>1. NodeShape(node) BY Zenon DEF Shapes
  <2>2. PICK d, i : d = Tail(c) /\ i = e.i BY Zenon
  <2>3. node' = [node EXCEPT !.rd.com = d, !.applied = i, !.since = @ + 1] BY <1>3, <2>2, Zenon
  <2>4. node'.pc = node.pc /\ node'.applied = i /\ node'.since = node.since + 1
        /\ node'.rd.snap = node.rd.snap /\ node'.rd.commit = node.rd.commit /\ node'.rd.com = d
    <3>1. PICK q : q = [node.rd EXCEPT !.com = d] BY Zenon
    <3>2. q.snap = node.rd.snap /\ q.commit = node.rd.commit /\ q.com = d
      BY Zenon, <2>1, <3>1 DEF NodeShape
    <3>3. node' = [pc |-> node.pc, rd |-> q, lastHS |-> node.lastHS, applied |-> i,
                   since |-> node.since + 1, snapIdx |-> node.snapIdx, pruned |-> node.pruned]
      BY Zenon, <2>1, <2>3, <3>1 DEF NodeShape
    <3>4. node'.pc = node.pc /\ node'.rd = q /\ node'.applied = i /\ node'.since = node.since + 1
      BY Zenon, <3>3
    <3> QED BY <3>2, <3>4, Zenon
  <2> QED BY <1>3, <2>2, <2>4, Zenon
<1>5. ghost'.applied = ghost.applied \cup {e}
  <2>1. GhostShape(ghost) BY Zenon DEF Shapes
  <2>2. PICK x : x = ghost.applied \cup {e} BY Zenon
  <2>3. PICK q : ghost' = [ghost EXCEPT !.applied = x, !.acked = q] BY <1>3, <2>2, Zenon
  <2>4. ghost'.applied = x BY Zenon, <2>1, <2>3 DEF GhostShape
  <2> QED BY <2>2, <2>4, Zenon
<1>6. RaftOk /\ Load(files) = Held /\ storage = Held /\ ComOk BY Zenon, <1>3 DEF DiskOk, PhaseOk
<1>7. /\ node.rd.snap = 0 /\ node.rd.commit \in Nat /\ c \in Seq(LogEntries)
      /\ \A k \in 1 .. Len(c) : c[k].i \in raft.off + 1 .. raft.applied
                                /\ raft.log[c[k].i - raft.off] = c[k]
  BY <1>1, <1>6, Zenon DEF ComOk
<1>8. 1 \in 1 .. Len(c) /\ e = c[1] /\ e \in LogEntries BY <1>2, <1>3, <1>7
<1>9. e.i \in raft.off + 1 .. raft.applied /\ raft.log[e.i - raft.off] = e BY <1>7, <1>8, Zenon
<1>10. RaftOk'
  <2>1. node'.since > 0 => node'.applied \in raft'.off + 1 .. raft'.applied
    BY <1>3, <1>4, <1>9, Zenon
  <2> QED BY <1>3, <1>6, <2>1, Zenon DEF RaftOk, RaftLast
<1>11. ComOk'
  <2>1. PICK d : d = Tail(c) BY Zenon
  <2>2. d \in Seq(LogEntries) /\ \A k \in 1 .. Len(d) : k + 1 \in 1 .. Len(c) /\ d[k] = c[k + 1]
    BY <1>3, <1>7, <2>1
  <2>3. \A k \in 1 .. Len(d) : d[k].i \in raft.off + 1 .. raft.applied
                               /\ raft.log[d[k].i - raft.off] = d[k]
    BY <1>7, <2>2, ZenonT(40)
  <2>4. node'.rd.com = d BY <1>4, <2>1, Zenon
  <2> QED BY <1>3, <1>4, <1>7, <2>2, <2>3, <2>4, ZenonT(40) DEF ComOk
<1>12. PhaseOk'
  <2>1. Load(files') = Held' /\ storage' = Held' BY <1>3, <1>6, Zenon DEF Held
  <2> QED BY Zenon, <1>4, <1>11, <2>1 DEF PhaseOk
<1>13. FilesOk(files') /\ ghost'.applied \subseteq LogEntries /\ raft'.term \in Nat
  BY <1>3, <1>5, <1>8, Zenon DEF DiskOk
<1>14. Survives(ghost'.applied, Load(files'))
  <2>1. PICK st : st = Load(files) OBVIOUS
  <2>2. st.off = raft.off /\ st.ents = raft.log BY <1>6, <2>1 DEF Held
  <2>3. Survives(ghost.applied, st) BY <2>1, Zenon DEF DiskOk
  <2>4. e.i <= LastIndex(st)
    <3>1. /\ raft.applied \in raft.off .. raft.commit /\ raft.commit \in raft.off .. RaftLast(raft)
          /\ raft.off \in Nat /\ Len(raft.log) \in Nat
      BY <1>6 DEF RaftOk, From
    <3>2. e.i <= raft.off + Len(raft.log) BY SMTT(30), <1>9, <3>1 DEF RaftLast
    <3> QED BY <2>2, <3>2, Zenon DEF LastIndex
  <2>5. st.ents[e.i - st.off] = e BY <1>9, <2>2, Zenon
  <2>6. Survives(ghost.applied \cup {e}, st) BY <2>3, <2>4, <2>5, Zenon DEF Survives
  <2> QED BY <1>3, <1>5, <2>1, <2>6, Zenon
<1>15. node'.pc # "boot" BY Zenon, <1>4
<1> QED BY <1>10, <1>12, <1>13, <1>14, <1>15, Zenon DEF DiskOk

LEMMA FinishReadyKeeps ==
  ASSUME Shapes, DiskOk, FinishReady
  PROVE  DiskOk'
<1>1. /\ node.pc = "apply" /\ raft' = raft /\ storage' = storage /\ ghost' = ghost
      /\ \/ /\ setting.threshold > 0 /\ node.since >= setting.threshold
            /\ files' = PersistSnapshot(files, node.applied)
            /\ node' = [node EXCEPT !.pc = "prune"]
         \/ files' = files /\ node' = [node EXCEPT !.pc = "idle", !.rd = NoReady]
  BY Zenon DEF FinishReady, Goto
<1>2. RaftOk /\ Load(files) = Held /\ storage = Held BY Zenon, <1>1 DEF DiskOk, PhaseOk
<1>3. FilesOk(files)
      /\ ghost.applied \subseteq LogEntries /\ Survives(ghost.applied, Load(files))
      /\ raft.term \in Nat
  BY Zenon DEF DiskOk
<1>4. NodeShape(node) /\ Held' = Held BY <1>1, Zenon DEF Shapes, Held
<1>5. CASE files' = files /\ node' = [node EXCEPT !.pc = "idle", !.rd = NoReady]
  <2>1. node'.pc = "idle" /\ node'.applied = node.applied /\ node'.since = node.since
    BY Zenon, <1>4, <1>5 DEF NodeShape
  <2>2. PhaseOk' BY Zenon, <1>1, <1>2, <1>4, <1>5, <2>1 DEF PhaseOk
  <2>3. node'.pc # "boot" /\ node.pc \notin {"boot", "dead"} BY Zenon, <1>1, <2>1
  <2> QED BY <1>1, <1>5, <2>1, <2>2, <2>3, StillKeeps, Zenon
<1>6. CASE /\ setting.threshold > 0 /\ node.since >= setting.threshold
           /\ files' = PersistSnapshot(files, node.applied)
           /\ node' = [node EXCEPT !.pc = "prune"]
  <2>1. node'.pc = "prune" /\ node'.applied = node.applied /\ node'.since = node.since
    BY Zenon, <1>4, <1>6 DEF NodeShape
  <2>2. node.since > 0
    <3>1. setting.threshold \in Nat BY DiskAssumption, Zenon DEF Shapes
    <3>2. node.since \in Nat BY <1>4, Zenon DEF NodeShape
    <3> QED BY <1>6, <3>1, <3>2
  <2>3. PICK s : s = node.applied BY Zenon
  <2>4. /\ s \in raft.off + 1 .. raft.applied /\ raft.applied \in raft.off .. raft.commit
        /\ raft.commit \in raft.off .. RaftLast(raft) /\ From(raft.log, raft.off)
    BY <1>2, <2>2, <2>3, Zenon DEF RaftOk
  <2>5. raft.off \in Nat /\ Len(raft.log) \in Nat BY <2>4 DEF From
  <2>6. Load(files).off = raft.off /\ Load(files).ents = raft.log
    BY <1>2, HeldParts, Zenon DEF Held
  <2>7. LastIndex(Load(files)) = raft.off + Len(raft.log) BY <2>6, Zenon DEF LastIndex
  <2>8. LogHeld(Load(files)) /\ files.snap = raft.off BY <1>3, <2>6, LoadHeld, Zenon
  <2>9. s # 0 /\ s \in raft.off .. raft.off + Len(raft.log) BY <2>4, <2>5 DEF RaftLast
  <2>10. s \in files.snap .. LastIndex(Load(files)) BY <2>7, <2>8, <2>9, Zenon
  <2>11. /\ FilesOk(files')
         /\ Load(files') = [off |-> s, ents |-> Behind(Load(files).ents, Load(files).off, s)]
    BY <1>3, <1>6, <2>3, <2>9, <2>10, LoadSnap, Zenon
  <2>12. Survives(ghost'.applied, Load(files'))
    <3>1. PICK st, A : st = Load(files) /\ A = ghost.applied BY Zenon
    <3>2. s \in st.off .. LastIndex(st) BY <2>6, <2>8, <2>10, <3>1, Zenon
    <3>3. A \subseteq LogEntries /\ LogHeld(st) /\ Survives(A, st) BY <1>3, <2>8, <3>1, Zenon
    <3>4. Survives(A, [off |-> s, ents |-> Behind(st.ents, st.off, s)])
      BY <3>2, <3>3, SurvivesSnap, Zenon
    <3> QED BY <1>1, <2>11, <3>1, <3>4, Zenon
  <2>13. PhaseOk'
    <3>1. storage' = Held' BY <1>1, <1>2, <1>4, Zenon
    <3>2. node'.applied \in raft'.off + 1 .. raft'.applied BY <1>1, <2>1, <2>3, <2>4, Zenon
    <3>3. Load(files') = [off |-> node'.applied, ents |-> Behind(raft'.log, raft'.off, node'.applied)]
      BY <1>1, <2>1, <2>3, <2>6, <2>11, Zenon
    <3> QED BY Zenon, <2>1, <3>1, <3>2, <3>3 DEF PhaseOk
  <2>14. RaftOk' BY <1>1, <1>2, <2>1, Zenon DEF RaftOk, RaftLast
  <2>15. node'.pc # "boot" BY Zenon, <2>1
  <2> QED BY <1>1, <1>3, <2>11, <2>12, <2>13, <2>14, <2>15, Zenon DEF DiskOk
<1> QED BY Zenon, <1>1, <1>5, <1>6

LEMMA CompactAllKeeps ==
  ASSUME Shapes, DiskOk, CompactAll
  PROVE  DiskOk'
<1>1. PICK s : s = node.applied OBVIOUS
<1>2. PICK u : node' = [node EXCEPT !.pc = "idle", !.rd = NoReady, !.since = 0, !.snapIdx = s,
                                    !.pruned = u]
  BY <1>1, Zenon DEF CompactAll
<1>3. /\ node.pc = "prune" /\ storage' = StorageCompact(storage, s)
      /\ files' = PruneEntries(files, s) /\ ghost' = ghost
      /\ raft' = [raft EXCEPT !.log = SubSeq(@, s - raft.off + 1, Len(@)), !.off = s]
  BY <1>1, Zenon DEF CompactAll
<1>4. NodeShape(node) /\ RaftShape(raft) BY Zenon DEF Shapes
<1>5. node'.pc = "idle" /\ node'.since = 0
  <2>1. NoReady = [snap |-> NoReady.snap, ents |-> NoReady.ents, commit |-> NoReady.commit,
                   com |-> NoReady.com]
    BY Zenon DEF NoReady
  <2> QED BY Zenon, <1>2, <1>4 DEF NodeShape
<1>6. PICK w : w = Behind(raft.log, raft.off, s) BY Zenon
<1>7. raft'.off = s /\ raft'.log = w /\ raft'.commit = raft.commit
      /\ raft'.applied = raft.applied /\ raft'.term = raft.term
  <2>1. raft' = [raft EXCEPT !.log = w, !.off = s] BY <1>3, <1>6, Zenon DEF Behind
  <2> QED BY Zenon, <1>4, <2>1 DEF RaftShape
<1>8. /\ RaftOk /\ storage = Held /\ s \in raft.off + 1 .. raft.applied
      /\ Load(files) = [off |-> s, ents |-> w]
  BY Zenon, <1>1, <1>3, <1>6 DEF DiskOk, PhaseOk
<1>9. FilesOk(files)
      /\ ghost.applied \subseteq LogEntries /\ Survives(ghost.applied, Load(files))
      /\ raft.term \in Nat
  BY Zenon DEF DiskOk
<1>10. files.snap = s
  <2>1. Load(files).off = s BY <1>8, HeldParts, Zenon
  <2> QED BY <1>9, <2>1, LoadHeld, Zenon
<1>11. FilesOk(files') /\ Load(files') = Load(files) BY <1>3, <1>9, <1>10, LoadPruned, Zenon
<1>12. Held' = [off |-> s, ents |-> w] BY <1>7, Zenon DEF Held
<1>13. storage' = [off |-> s, ents |-> w]
  <2>1. storage.off = raft.off /\ storage.ents = raft.log BY <1>8, HeldParts, Zenon DEF Held
  <2> QED BY <1>3, <1>6, <2>1, Zenon DEF StorageCompact, Behind
<1>14. PhaseOk' BY Zenon, <1>5, <1>8, <1>11, <1>12, <1>13 DEF PhaseOk
<1>15. RaftOk'
  <2>1. /\ raft.applied \in raft.off .. raft.commit
        /\ raft.commit \in raft.off .. raft.off + Len(raft.log) /\ From(raft.log, raft.off)
    BY <1>8, Zenon DEF RaftOk, RaftLast
  <2>2. raft.off \in Nat /\ Len(raft.log) \in Nat BY <2>1 DEF From
  <2>3. s \in raft.off .. raft.off + Len(raft.log) BY <1>8, <2>1, <2>2
  <2>4. From(w, s) /\ Len(w) = raft.off + Len(raft.log) - s
    <3>1. \A q \in raft.off .. raft.off + Len(raft.log) :
            /\ From(Behind(raft.log, raft.off, q), q)
            /\ Len(Behind(raft.log, raft.off, q)) = raft.off + Len(raft.log) - q
      BY Zenon, <2>1, BehindFacts
    <3> QED BY <1>6, <2>3, <3>1, Zenon
  <2>5. raft.commit \in s .. s + Len(w) /\ raft.applied \in s .. raft.commit
    BY SMTT(30), <1>8, <2>1, <2>2, <2>3, <2>4
  <2>6. ~(node'.since > 0) BY <1>5
  <2> QED BY <1>7, <2>4, <2>5, <2>6, Zenon DEF RaftOk, RaftLast
<1>16. node'.pc # "boot" BY Zenon, <1>5
<1> QED BY <1>3, <1>7, <1>9, <1>11, <1>14, <1>15, <1>16, Zenon DEF DiskOk

LEMMA FromPrefix ==
  ASSUME NEW s, NEW a, From(s, a), NEW n \in 0 .. Len(s)
  PROVE  From(SubSeq(s, 1, n), a)
<1>1. s \in Seq(LogEntries) /\ a \in Nat BY Zenon DEF From
<1>2. PICK u : u = SubSeq(s, 1, n) BY Zenon
<1>3. u \in Seq(LogEntries) /\ Len(u) = n /\ \A j \in 1 .. n : u[j] = s[j] /\ j \in 1 .. Len(s)
  BY <1>1, <1>2
<1>4. \A j \in 1 .. Len(u) : u[j].i = a + j BY <1>3, Zenon DEF From
<1> QED BY <1>1, <1>2, <1>3, <1>4, Zenon DEF From

LEMMA CrashKeeps ==
  ASSUME Shapes, Orderly, DiskOk, Crash
  PROVE  DiskOk'
<1>1. /\ node.pc \notin {"boot", "dead"} /\ files' \in CrashLines
      /\ raft' = raft /\ storage' = storage /\ node' = Fresh("boot")
      /\ \E q : ghost' = [ghost EXCEPT !.crashes = @ + 1, !.acked = q]
  BY Zenon DEF Crash
<1>2. node'.pc = "boot" /\ node'.since = 0 BY <1>1, NodeFresh, Zenon
<1>3. ghost'.applied = ghost.applied
  <2>1. PICK q : ghost' = [ghost EXCEPT !.crashes = @ + 1, !.acked = q] BY Zenon, <1>1
  <2>2. PICK x : x = ghost.crashes + 1 BY Zenon
  <2>3. ghost' = [ghost EXCEPT !.crashes = x, !.acked = q] BY <2>1, <2>2, Zenon
  <2>4. GhostShape(ghost) BY Zenon DEF Shapes
  <2> QED BY Zenon, <2>3, <2>4 DEF GhostShape
<1>4. FilesOk(files)
      /\ ghost.applied \subseteq LogEntries /\ Survives(ghost.applied, Load(files))
      /\ raft.term \in Nat
  BY Zenon DEF DiskOk
<1>5. FilesOk(files') /\ Survives(ghost.applied, Load(files'))
  <2>1. CASE node.pc # "entries"
    <3>1. files' = files BY <1>1, <2>1, Zenon DEF CrashLines
    <3> QED BY <1>4, <3>1, Zenon
  <2>2. CASE node.pc = "entries"
    <3>1. ~setting.tears BY Zenon DEF Orderly
    <3>2. PICK es \in {SubSeq(node.rd.ents, 1, n) : n \in 0 .. Len(node.rd.ents)} :
             files' = PersistEntries(files, es)
      BY <1>1, <2>2, <3>1, Zenon DEF CrashLines
    <3>3. PICK n \in 0 .. Len(node.rd.ents) : es = SubSeq(node.rd.ents, 1, n) BY <3>2, Zenon
    <3>4. Load(files) = storage /\ RdOk BY Zenon, <2>2 DEF DiskOk, PhaseOk
    <3>5. From(node.rd.ents, LastIndex(Load(files))) BY <3>4, Zenon DEF RdOk
    <3>6. From(es, LastIndex(Load(files))) BY <3>3, <3>5, FromPrefix, Zenon
    <3>7. PICK st, A : st = Load(files) /\ A = ghost.applied BY Zenon
    <3>8. FilesOk(files') /\ Load(files') = [off |-> st.off, ents |-> st.ents \o es]
      BY <1>4, <3>2, <3>6, <3>7, LoadMore, Zenon
    <3>9. es \in Seq(LogEntries) BY <3>6, Zenon DEF From
    <3>10. LogHeld(st) BY <1>4, <3>7, LoadHeld, Zenon
    <3>11. A \subseteq LogEntries /\ Survives(A, st) BY <1>4, <3>7, Zenon
    <3>12. Survives(A, [off |-> st.off, ents |-> st.ents \o es])
      BY <3>9, <3>10, <3>11, SurvivesMore, Zenon
    <3> QED BY <3>7, <3>8, <3>12, Zenon
  <2> QED BY Zenon, <2>1, <2>2
<1>6. ~(node'.pc \notin {"boot", "dead"}) BY <1>2, Zenon
<1> QED BY <1>1, <1>2, <1>3, <1>4, <1>5, <1>6, Zenon DEF DiskOk

LEMMA BootKeeps ==
  ASSUME Shapes, DiskOk, Boot
  PROVE  DiskOk'
<1>1. PICK st : st = Load(files) OBVIOUS
<1>2. PICK hs : hs = IF files.hs = 0 THEN st.off ELSE files.hs BY Zenon
<1>3. ghost'.applied = ghost.applied
  <2>1. PICK q : ghost' = [ghost EXCEPT !.damaged = q] BY Zenon DEF Boot
  <2>2. GhostShape(ghost) BY Zenon DEF Shapes
  <2> QED BY Zenon, <2>1, <2>2 DEF GhostShape
<1>4. FilesOk(files)
      /\ ghost.applied \subseteq LogEntries /\ Survives(ghost.applied, Load(files))
      /\ raft.term \in Nat /\ node.since = 0 /\ NodeShape(node) /\ files' = files
  <2>1. node.pc = "boot" /\ files' = files BY Zenon DEF Boot
  <2> QED BY <2>1, Zenon DEF DiskOk, Shapes
<1>5. CASE ~CanRestart(st, files.hs)
  <2>1. node' = [node EXCEPT !.pc = "dead"] /\ raft' = raft BY <1>1, <1>2, <1>5, BootFacts, Zenon
  <2>2. node'.pc = "dead" BY Zenon, <1>4, <2>1 DEF NodeShape
  <2>3. node'.pc # "boot" /\ ~(node'.pc \notin {"boot", "dead"}) BY Zenon, <2>2
  <2> QED BY <1>3, <1>4, <2>1, <2>3, Zenon DEF DiskOk
<1>6. CASE CanRestart(st, files.hs)
  <2>1. raft' = [off |-> st.off, log |-> st.ents, commit |-> hs, applied |-> st.off,
                 term |-> raft.term] /\ storage' = st
    BY <1>1, <1>2, <1>6, BootFacts, Zenon
  <2>2. PICK i, k : node' = [node EXCEPT !.pc = "idle", !.applied = i, !.snapIdx = st.off,
                                         !.lastHS = k]
    BY <1>1, <1>2, <1>6, BootFacts, Zenon
  <2>3. node'.pc = "idle" /\ node'.since = 0 BY Zenon, <1>4, <2>2 DEF NodeShape
  <2>4. raft'.off = st.off /\ raft'.log = st.ents /\ raft'.commit = hs /\ raft'.applied = st.off
        /\ raft'.term = raft.term
    BY Zenon, <2>1
  <2>5. LogHeld(st) BY <1>1, <1>4, LoadHeld, Zenon
  <2>6. From(st.ents, st.off) /\ st = [off |-> st.off, ents |-> st.ents] BY <2>5, Zenon DEF LogHeld
  <2>7. st.off \in Nat /\ Len(st.ents) \in Nat BY <2>6 DEF From
  <2>8. files.hs \in Nat BY Zenon, <1>4 DEF FilesOk, FilesAt, FileRecords
  <2>9. files.hs <= st.off + Len(st.ents) /\ (files.hs = 0 \/ files.hs >= st.off)
    BY <1>6, Zenon DEF CanRestart, LastIndex
  <2>10. hs \in st.off .. st.off + Len(st.ents) /\ st.off \in st.off .. hs
    BY <1>2, <2>7, <2>8, <2>9
  <2>11. ~(node'.since > 0) BY <2>3
  <2>12. RaftOk' BY <2>4, <2>6, <2>10, <2>11, Zenon DEF RaftOk, RaftLast
  <2>13. Held' = st BY <2>4, <2>6, Zenon DEF Held
  <2>14. Load(files') = st /\ storage' = st BY <1>1, <1>4, <2>1, Zenon
  <2>15. PhaseOk' BY Zenon, <2>3, <2>13, <2>14 DEF PhaseOk
  <2>16. node'.pc # "boot" BY <2>3
  <2> QED BY <1>3, <1>4, <2>4, <2>12, <2>15, <2>16, Zenon DEF DiskOk
<1> QED BY Zenon, <1>5, <1>6

LEMMA DiskStart ==
  ASSUME DiskInit
  PROVE  DiskInv
<1>1. /\ setting \in Settings
      /\ raft = [off |-> 0, log |-> <<>>, commit |-> 0, applied |-> 0, term |-> 1]
      /\ storage = [off |-> 0, ents |-> <<>>]
      /\ files = [lines |-> <<>>, hs |-> 0, snap |-> 0]
      /\ node = Fresh("idle")
      /\ ghost = [acked |-> <<>>, applied |-> {}, crashes |-> 0, conflicts |-> 0,
                  replaced |-> FALSE, damaged |-> FALSE]
  BY Zenon DEF DiskInit
<1>2. Shapes
  <2>1. RaftShape(raft) BY Zenon, <1>1 DEF RaftShape
  <2>2. GhostShape(ghost) BY <1>1, Zenon DEF GhostShape
  <2> QED BY <1>1, <2>1, <2>2, NodeFresh, Zenon DEF Shapes
<1>3. From(<<>>, 0) BY DEF From
<1>4. files \in FileRecords /\ files.lines = <<>> /\ files.snap = 0 BY <1>1 DEF FileRecords
<1>5. FilesAt(files, 0)
  <2>1. 0 \in 0 .. 0 + Len(<<>>) OBVIOUS
  <2> QED BY <1>3, <1>4, <2>1, Zenon DEF FilesAt
<1>6. Load(files) = [off |-> 0, ents |-> <<>>]
  <2>1. Load(files) = [off |-> 0, ents |-> Behind(<<>>, 0, 0)] BY <1>4, <1>5, LoadFacts, Zenon
  <2>2. Behind(<<>>, 0, 0) = <<>> BY <1>3, BehindSelf, Zenon
  <2> QED BY <2>1, <2>2, Zenon
<1>7. raft.off = 0 /\ raft.log = <<>> /\ raft.commit = 0 /\ raft.applied = 0 /\ raft.term = 1
  BY Zenon, <1>1
<1>8. node.pc = "idle" /\ node.since = 0 BY <1>1, NodeFresh, Zenon
<1>9. Held = [off |-> 0, ents |-> <<>>] BY <1>7, Zenon DEF Held
<1>10. PhaseOk BY Zenon, <1>1, <1>6, <1>8, <1>9 DEF PhaseOk
<1>11. RaftOk BY <1>3, <1>7, <1>8 DEF RaftOk, RaftLast
<1>12. ghost.applied = {} BY <1>1, Zenon
<1>13. Survives(ghost.applied, Load(files)) BY <1>12, Zenon DEF Survives
<1>14. raft.term \in Nat /\ node.pc # "boot" BY <1>7, <1>8
<1>15. FilesOk(files) BY <1>5, Zenon DEF FilesOk
<1>16. DiskOk BY <1>10, <1>11, <1>12, <1>13, <1>14, <1>15, Zenon DEF DiskOk
<1> QED BY <1>2, <1>16, Zenon DEF DiskInv

LEMMA DiskStep ==
  ASSUME DiskInv, [DiskNext]_vars
  PROVE  DiskInv'
<1>1. Shapes /\ Shapes' /\ (Orderly' => Orderly) BY ShapesNext, Zenon DEF DiskInv
<1> SUFFICES ASSUME Orderly' PROVE DiskOk' BY <1>1, Zenon DEF DiskInv
<1>2. Orderly /\ DiskOk BY <1>1, Zenon DEF DiskInv
<1>3. CASE ReadySnapshot
  <2>1. ghost' = [ghost EXCEPT !.replaced = TRUE] /\ GhostShape(ghost)
    BY <1>1, <1>3, Zenon DEF ReadySnapshot, Shapes
  <2>2. ghost'.replaced BY <2>1, GhostInstalls, Zenon
  <2> QED BY <2>2, Zenon DEF Orderly
<1>4. ASSUME raft' = raft, storage' = storage, files' = files, node' = node, ghost' = ghost
      PROVE  DiskOk'
  <2>1. node.pc \notin {"boot", "dead"} => PhaseOk BY <1>2, Zenon DEF DiskOk
  <2>2. PhaseOk => PhaseOk' BY <1>4, Zenon DEF PhaseOk, RdOk, ComOk, Held
  <2> QED BY <1>2, <1>4, <2>1, <2>2, StillKeeps, Zenon
<1>5. CASE PruneStart BY <1>4, <1>5, Zenon DEF PruneStart
<1>6. CASE PruneList BY <1>4, <1>6, Zenon DEF PruneList
<1>7. CASE PruneSegment BY <1>4, <1>7, Zenon DEF PruneSegment
<1>8. CASE PrunePassDone BY <1>4, <1>8, Zenon DEF PrunePassDone
<1>9. CASE UNCHANGED vars BY <1>4, <1>9, Zenon DEF vars
<1>10. CASE ReadySingle BY <1>1, <1>2, <1>10, SingleKeeps, Zenon
<1>11. CASE ReadyFollower BY <1>1, <1>2, <1>11, FollowerKeeps, Zenon
<1>12. CASE WriteSnapshot BY <1>1, <1>2, <1>12, WriteSnapshotKeeps, Zenon
<1>13. CASE WriteHardState BY <1>1, <1>2, <1>13, WriteHardStateKeeps, Zenon
<1>14. CASE WriteEntries BY <1>1, <1>2, <1>14, WriteEntriesKeeps, Zenon
<1>15. CASE WalHardState BY <1>1, <1>2, <1>15, WalHardStateKeeps, Zenon
<1>16. CASE ApplyCommitted BY <1>1, <1>2, <1>16, ApplyCommittedKeeps, Zenon
<1>17. CASE FinishReady BY <1>1, <1>2, <1>17, FinishReadyKeeps, Zenon
<1>18. CASE CompactAll BY <1>1, <1>2, <1>18, CompactAllKeeps, Zenon
<1>19. CASE Crash BY <1>1, <1>2, <1>19, CrashKeeps, Zenon
<1>20. CASE Boot BY <1>1, <1>2, <1>20, BootKeeps, Zenon
<1> QED BY Zenon, <1>3, <1>5, <1>6, <1>7, <1>8, <1>9, <1>10, <1>11, <1>12, <1>13, <1>14, <1>15,
           <1>16, <1>17, <1>18, <1>19, <1>20, Zenon DEF DiskNext

\* Whenever the process is killed, Load gives back every entry the application
\* has seen, or a snapshot that covers it, and between two Readys exactly the
\* log the node works with (Persist, PersistSnapshot, PruneEntries, Load).
THEOREM FilesFaithful == DiskSpec => []LoadFaithful
<1>1. DiskInit => DiskInv BY Zenon, DiskStart
<1>2. DiskInv /\ [DiskNext]_vars => DiskInv' BY Zenon, DiskStep
<1>3. DiskInv => LoadFaithful
  <2> SUFFICES ASSUME DiskInv, Orderly PROVE LoadFaithful
    BY Zenon DEF LoadFaithful, AppliedSurvives, LoadIsStorage
  <2>1. DiskOk BY Zenon DEF DiskInv
  <2>2. AppliedSurvives BY <2>1, Zenon DEF DiskOk, Survives, AppliedSurvives
  <2>3. ASSUME Idle PROVE Load(files) = storage
    <3>1. node.pc = "idle" BY <2>3, Zenon DEF Idle
    <3>2. Load(files) = Held /\ storage = Held BY Zenon, <2>1, <3>1 DEF DiskOk, PhaseOk
    <3> QED BY <3>2, Zenon
  <2>4. LoadIsStorage BY <2>3, Zenon DEF LoadIsStorage
  <2> QED BY <2>2, <2>4, Zenon DEF LoadFaithful
<1> QED BY <1>1, <1>2, <1>3, PTL DEF DiskSpec

\* Such a file has neither gaps nor repeats and reaches its snapshot.
LEMMA NoGaps ==
  ASSUME NEW f, FilesOk(f)
  PROVE  Contiguous(f)
<1>1. PICK a : FilesAt(f, a) BY Zenon DEF FilesOk
<1>2. PICK es, n : es = f.lines /\ n = f.snap BY Zenon
<1>3. From(es, a) /\ n \in a .. a + Len(es) BY <1>1, <1>2, Zenon DEF FilesAt
<1>4. Decoded(f.lines) = es BY <1>2, <1>3, AllDecode, Zenon
<1>5. a \in Nat /\ es \in Seq(LogEntries) /\ \A j \in 1 .. Len(es) : es[j].i = a + j
  BY <1>3, Zenon DEF From
<1>6. Len(es) \in Nat /\ (es # <<>> => Len(es) >= 1) BY <1>5
<1>7. \A j \in 1 .. Len(es) : es[j].i = es[1].i + j - 1
  <2> SUFFICES ASSUME NEW j \in 1 .. Len(es) PROVE es[j].i = es[1].i + j - 1 BY Zenon
  <2>1. 1 \in 1 .. Len(es) BY <1>6
  <2>2. es[j].i = a + j /\ es[1].i = a + 1 BY <1>5, <2>1, Zenon
  <2> QED BY <1>5, <2>2
<1>8. ASSUME es # <<>> PROVE es[1].i <= n + 1 /\ es[Len(es)].i >= n
  <2>1. 1 \in 1 .. Len(es) /\ Len(es) \in 1 .. Len(es) BY <1>6, <1>8
  <2>2. es[1].i = a + 1 /\ es[Len(es)].i = a + Len(es) BY <1>5, <2>1, Zenon
  <2> QED BY <1>3, <1>5, <1>6, <2>2
<1> QED BY <1>2, <1>4, <1>7, <1>8, Zenon DEF Contiguous

\* No step but a start marks the node as started from a damaged file.
LEMMA DamagedBy ==
  ASSUME DiskInv, [DiskNext]_vars, Orderly', ~ghost.damaged
  PROVE  ~ghost'.damaged
<1>1. Shapes /\ Orderly BY ShapesNext, Zenon DEF DiskInv
<1>2. GhostShape(ghost) /\ FilesOk(files) BY <1>1, Zenon DEF DiskInv, DiskOk, Shapes
<1>3. CASE Boot
  <2>1. Contiguous(files) BY <1>2, NoGaps, Zenon
  <2>2. PICK q : q = (ghost.damaged \/ ~Contiguous(files)) BY Zenon
  <2>3. ghost' = [ghost EXCEPT !.damaged = q] BY <1>3, <2>2, Zenon DEF Boot
  <2>4. ghost'.damaged = q BY Zenon, <1>2, <2>3 DEF GhostShape
  <2> QED BY <2>1, <2>2, <2>4, Zenon
<1>4. CASE ReadyFollower
  <2>1. PICK over : ghost' = [ghost EXCEPT !.conflicts = @ + (IF over THEN 1 ELSE 0),
                                          !.replaced = @ \/ over]
    BY <1>4, ZenonT(40) DEF ReadyFollower
  <2>2. PICK k, r : k = ghost.conflicts + (IF over THEN 1 ELSE 0) /\ r = (ghost.replaced \/ over)
    BY Zenon
  <2>3. ghost' = [ghost EXCEPT !.conflicts = k, !.replaced = r] BY <2>1, <2>2, Zenon
  <2>4. ghost'.damaged = ghost.damaged BY Zenon, <1>2, <2>3 DEF GhostShape
  <2> QED BY <2>4, Zenon
<1>5. CASE ReadySnapshot
  <2>1. ghost' = [ghost EXCEPT !.replaced = TRUE] BY <1>5, Zenon DEF ReadySnapshot
  <2>2. PICK r : r = TRUE BY Zenon
  <2>3. ghost' = [ghost EXCEPT !.replaced = r] BY <2>1, <2>2, Zenon
  <2>4. ghost'.damaged = ghost.damaged BY Zenon, <1>2, <2>3 DEF GhostShape
  <2> QED BY <2>4, Zenon
<1>6. CASE WalHardState
  <2>1. ghost' = ghost \/ \E q : ghost' = [ghost EXCEPT !.acked = q]
    BY <1>6, Zenon DEF WalHardState, Acked
  <2>2. ASSUME NEW q, ghost' = [ghost EXCEPT !.acked = q] PROVE ghost'.damaged = ghost.damaged
    BY Zenon, <1>2, <2>2 DEF GhostShape
  <2> QED BY <2>1, <2>2, Zenon
<1>7. CASE ApplyCommitted
  <2>1. PICK p, q : ghost' = [ghost EXCEPT !.applied = p, !.acked = q]
    BY <1>7, Zenon DEF ApplyCommitted
  <2>2. ghost'.damaged = ghost.damaged BY Zenon, <1>2, <2>1 DEF GhostShape
  <2> QED BY <2>2, Zenon
<1>8. CASE Crash
  <2>1. PICK q : ghost' = [ghost EXCEPT !.crashes = @ + 1, !.acked = q] BY <1>8, Zenon DEF Crash
  <2>2. PICK c : c = ghost.crashes + 1 BY Zenon
  <2>3. ghost' = [ghost EXCEPT !.crashes = c, !.acked = q] BY <2>1, <2>2, Zenon
  <2>4. ghost'.damaged = ghost.damaged BY Zenon, <1>2, <2>3 DEF GhostShape
  <2> QED BY <2>4, Zenon
<1>9. CASE ghost' = ghost BY <1>9, Zenon
<1>10. CASE ReadySingle BY <1>9, <1>10, Zenon DEF ReadySingle
<1>11. CASE WriteSnapshot BY <1>9, <1>11, Zenon DEF WriteSnapshot
<1>12. CASE WriteHardState BY <1>9, <1>12, Zenon DEF WriteHardState
<1>13. CASE WriteEntries BY <1>9, <1>13, Zenon DEF WriteEntries
<1>14. CASE FinishReady BY <1>9, <1>14, Zenon DEF FinishReady
<1>15. CASE CompactAll BY <1>9, <1>15, Zenon DEF CompactAll
<1>16. CASE PruneStart BY <1>9, <1>16, Zenon DEF PruneStart
<1>17. CASE PruneList BY <1>9, <1>17, Zenon DEF PruneList
<1>18. CASE PruneSegment BY <1>9, <1>18, Zenon DEF PruneSegment
<1>19. CASE PrunePassDone BY <1>9, <1>19, Zenon DEF PrunePassDone
<1>20. CASE UNCHANGED vars BY <1>9, <1>20, Zenon DEF vars
<1> QED BY Zenon, <1>3, <1>4, <1>5, <1>6, <1>7, <1>8, <1>10, <1>11, <1>12, <1>13, <1>14, <1>15,
           <1>16, <1>17, <1>18, <1>19, <1>20, Zenon DEF DiskNext

\* The file of entries that Load reads has neither gaps nor repeats and reaches
\* its snapshot, so a node that is only killed never starts from a damaged one
\* and LoadFaithful speaks of every Ready it has in its life.
THEOREM NeverDamaged == DiskSpec => [](Orderly => Contiguous(files) /\ ~ghost.damaged)
<1> DEFINE Inv == DiskInv /\ (Orderly => ~ghost.damaged)
<1>1. DiskInit => Inv
  <2> SUFFICES ASSUME DiskInit PROVE Inv BY Zenon
  <2>1. ghost = [acked |-> <<>>, applied |-> {}, crashes |-> 0, conflicts |-> 0,
                 replaced |-> FALSE, damaged |-> FALSE] BY Zenon DEF DiskInit
  <2>2. ~ghost.damaged BY <2>1, Zenon
  <2> QED BY <2>2, DiskStart, Zenon
<1>2. Inv /\ [DiskNext]_vars => Inv'
  <2> SUFFICES ASSUME Inv, [DiskNext]_vars PROVE Inv' BY Zenon
  <2>1. DiskInv' BY DiskStep, Zenon
  <2>2. Orderly' => Orderly BY ShapesNext, Zenon DEF DiskInv
  <2>3. Orderly' => ~ghost'.damaged BY <2>2, DamagedBy, Zenon
  <2> QED BY <2>1, <2>3, Zenon
<1>3. Inv => (Orderly => Contiguous(files) /\ ~ghost.damaged)
  BY NoGaps, Zenon DEF DiskInv, DiskOk
<1> QED BY <1>1, <1>2, <1>3, PTL DEF DiskSpec
=============================================================================
