---------------------------- MODULE MemberProofs ----------------------------
(* Theorems about what a member of a shard starts from and keeps: the ids  *)
(* that the members compute from their configuration (ClusterConfig), for  *)
(* every peer list; a bucket's file and its read loop (BucketFile), for any*)
(* number of appends and every combination of faults; and the Forge WAL    *)
(* (ForgeWAL), for any number of IO threads, any segment size and any      *)
(* number of records, rotations and crashes.                               *)
EXTENDS ClusterConfig, BucketFile, ForgeWAL, FiniteSetTheorems, WellFoundedInduction, TLAPS

\* A set of naturals that is not empty has a least element.
LEMMA LeastOf ==
    ASSUME NEW T \in SUBSET Nat, T # {}
    PROVE  Min(T) \in T /\ \A y \in T : Min(T) <= y
<1> DEFINE R == OpToRel(<, Nat)
<1>1. IsWellFoundedOn(R, Nat)
    BY Zenon, NatLessThanWellFounded
<1>2. PICK x \in T : \A y \in T : <<y, x>> \notin R
    BY Zenon, <1>1, WFMin
<1>3. R = {ss \in Nat \X Nat : ss[1] < ss[2]}
    BY Zenon DEF OpToRel
<1> HIDE DEF R
<1>4. ASSUME NEW y \in T PROVE x <= y
    <2>1. <<y, x>> \notin {ss \in Nat \X Nat : ss[1] < ss[2]}
        BY Zenon, <1>2, <1>3
    <2> QED BY <2>1
<1> QED BY Zenon, <1>4 DEF Min

(***************************************************************************)
(* The ids of the members of a cluster.                                    *)
(***************************************************************************)
\* What the entries of a list look like.
LEMMA EntryForms ==
    ASSUME NEW specs \in Seq(PeerSpec), NEW i \in DOMAIN specs
    PROVE  /\ specs[i][1] \in {"at", "addr", "bad"}
           /\ specs[i][1] = "at" =>
                /\ specs[i] = <<"at", specs[i][2], specs[i][3]>> /\ Len(specs[i]) = 3
                /\ specs[i][2] \in Nat /\ specs[i][3] \in Nat
           /\ specs[i][1] = "addr" => specs[i][2] \in Nat /\ Len(specs[i]) = 2
<1>1. PICK s \in PeerSpec : s = specs[i]
    OBVIOUS
<1>2. CASE s \in {"at"} \X Nat \X Nat
    BY <1>1, <1>2
<1>3. CASE s \in {"addr"} \X Nat
    BY <1>1, <1>3
<1>4. CASE s = <<"bad">>
    BY <1>1, <1>4
<1> QED BY Zenon, <1>2, <1>3, <1>4 DEF PeerSpec

Parts(f, I, n) == {f[i][n] : i \in I}
Shares(f, I, g, J) ==
  (\A i \in I : \E j \in J : f[i] = g[j]) /\ \A j \in J : \E i \in I : f[i] = g[j]
Entering(p, D, S) == {i \in D : p[i] \in S}

\* A bijection keeps the number of elements.
LEMMA SameCount ==
    ASSUME NEW D, IsFiniteSet(D), NEW p \in Bijection(D, D), NEW S \in SUBSET D
    PROVE  Cardinality(Entering(p, D, S)) = Cardinality(S)
<1> DEFINE T == {i \in D : p[i] \in S}
           f == [i \in T |-> p[i]]
<1>1. p \in [D -> D] /\ (\A i, j \in D : p[i] = p[j] => i = j) /\ \A j \in D : \E i \in D : p[i] = j
    BY Zenon DEF Bijection, Injection, Surjection, IsInjective
<1>2. f \in [T -> S] /\ IsInjective(f)
    BY Zenon, <1>1 DEF IsInjective
<1>3. \A j \in S : \E i \in T : f[i] = j
    BY Zenon, <1>1
<1>4. ExistsBijection(T, S)
    BY Zenon, <1>2, <1>3 DEF ExistsBijection, Bijection, Injection, Surjection
<1>5. IsFiniteSet(T)
    BY Zenon, FS_Subset
<1>6. Entering(p, D, S) = T
    BY Zenon DEF Entering
<1> HIDE DEF T
<1> QED BY Zenon, <1>4, <1>5, <1>6, FS_Bijection

\* Entries that two lists share have the same second and third parts.
LEMMA SameParts ==
    ASSUME NEW f, NEW I, NEW g, NEW J, Shares(f, I, g, J)
    PROVE  Parts(f, I, 2) = Parts(g, J, 2) /\ Parts(f, I, 3) = Parts(g, J, 3)
<1>0. (\A i \in I : \E j \in J : f[i] = g[j]) /\ \A j \in J : \E i \in I : f[i] = g[j]
    BY Zenon DEF Shares
<1>1. ASSUME NEW n PROVE {f[i][n] : i \in I} = {g[j][n] : j \in J}
    <2>1. ASSUME NEW i \in I PROVE f[i][n] \in {g[j][n] : j \in J}
        <3>1. PICK j \in J : f[i] = g[j]
            BY Zenon, <1>0
        <3>2. f[i][n] = g[j][n]
            BY Zenon, <3>1
        <3> QED BY Zenon, <3>2
    <2>2. ASSUME NEW j \in J PROVE g[j][n] \in {f[i][n] : i \in I}
        <3>1. PICK i \in I : f[i] = g[j]
            BY Zenon, <1>0
        <3>2. f[i][n] = g[j][n]
            BY Zenon, <3>1
        <3> QED BY Zenon, <3>2
    <2> QED BY Zenon, <2>1, <2>2
<1> QED BY Zenon, <1>1 DEF Parts

\* The entries of specs in the order p.
Reorders(p, specs, list) ==
  /\ p \in Bijection(DOMAIN specs, DOMAIN specs)
  /\ DOMAIN list = DOMAIN specs /\ \A i \in DOMAIN specs : list[i] = specs[p[i]]

\* Lists with the same entries are parsed alike, whatever their order.
LEMMA Reordered ==
    ASSUME NEW specs \in Seq(PeerSpec), NEW p, NEW list, Reorders(p, specs, list)
    PROVE  ParsePeerSpecs(list) = ParsePeerSpecs(specs)
<1> DEFINE D == DOMAIN specs
<1>1. p \in [D -> D] /\ (\A i, j \in D : p[i] = p[j] => i = j) /\ \A j \in D : \E i \in D : p[i] = j
    BY Zenon DEF Reorders, Bijection, Injection, Surjection, IsInjective
<1>2. IsFiniteSet(D)
    <2>1. D = 1 .. Len(specs) /\ Len(specs) \in Nat
        OBVIOUS
    <2> QED BY <2>1, FS_Interval
<1>3. DOMAIN list = D /\ \A i \in D : list[i] = specs[p[i]]
    BY Zenon DEF Reorders
<1>p. p \in Bijection(D, D)
    BY Zenon DEF Reorders
<1> HIDE DEF D
<1>0. \A j \in D : \E i \in D : p[i] = j /\ list[i] = specs[j]
    <2> SUFFICES ASSUME NEW j \in D PROVE \E i \in D : p[i] = j /\ list[i] = specs[j]
        BY Zenon
    <2>1. PICK i \in D : p[i] = j
        BY Zenon, <1>1
    <2> QED BY Zenon, <1>3, <2>1
<1>4. Explicit(list) = {i \in D : p[i] \in Explicit(specs)}
    BY <1>1, <1>3 DEF Explicit, D
<1>5. /\ {list[i][2] : i \in Explicit(list)} = {specs[i][2] : i \in Explicit(specs)}
      /\ ExplicitAddrs(list) = ExplicitAddrs(specs)
      /\ \A e : (\E i \in Explicit(list) : list[i] = e) <=> (\E i \in Explicit(specs) : specs[i] = e)
    <2>1. \A i \in Explicit(list) : \E j \in Explicit(specs) : list[i] = specs[j]
        BY Zenon, <1>3, <1>4
    <2>2. \A j \in Explicit(specs) : \E i \in Explicit(list) : list[i] = specs[j]
        <3>1. Explicit(specs) \subseteq D
            BY Zenon DEF Explicit, D
        <3> QED BY Zenon, <1>0, <1>4, <3>1
    <2>3. /\ Parts(list, Explicit(list), 2) = Parts(specs, Explicit(specs), 2)
          /\ Parts(list, Explicit(list), 3) = Parts(specs, Explicit(specs), 3)
        <3>1. Shares(list, Explicit(list), specs, Explicit(specs))
            BY Zenon, <2>1, <2>2 DEF Shares
        <3> QED BY <3>1, SameParts
    <2>4. ASSUME NEW e
          PROVE  (\E i \in Explicit(list) : list[i] = e) <=> (\E i \in Explicit(specs) : specs[i] = e)
        BY Zenon, <2>1, <2>2
    <2> QED BY Zenon, <2>3, <2>4 DEF ExplicitAddrs, Parts
<1>6. Implicit(list) = {i \in D : p[i] \in Implicit(specs)} /\ Implicit(specs) \subseteq D
    <2>1. Implicit(list) \subseteq D /\ Implicit(specs) \subseteq D
        BY Zenon, <1>3 DEF Implicit, D
    <2>2. ASSUME NEW i \in D PROVE i \in Implicit(list) <=> p[i] \in Implicit(specs)
        <3>1. PICK j \in D : j = p[i] /\ list[i] = specs[j]
            BY Zenon, <1>1, <1>3
        <3>2. DOMAIN list = D /\ DOMAIN specs = D /\ ExplicitAddrs(list) = ExplicitAddrs(specs)
            BY Zenon, <1>3, <1>5 DEF D
        <3> HIDE <1>0, <1>1, <1>3, <1>4, <1>5
        <3> QED BY Zenon, <3>1, <3>2 DEF Implicit
    <2> QED BY Zenon, <2>1, <2>2
<1>7. Cardinality(Implicit(list)) = Cardinality(Implicit(specs))
    <2>1. Implicit(list) = Entering(p, D, Implicit(specs))
        BY Zenon, <1>6 DEF Entering
    <2>2. Implicit(specs) \in SUBSET D
        BY Zenon, <1>6
    <2> QED BY <1>2, <1>p, <2>1, <2>2, SameCount
<1>8. {list[i][2] : i \in Implicit(list)} = {specs[i][2] : i \in Implicit(specs)}
    <2>1. \A i \in Implicit(list) : \E j \in Implicit(specs) : list[i] = specs[j]
        BY Zenon, <1>3, <1>6
    <2>2. \A j \in Implicit(specs) : \E i \in Implicit(list) : list[i] = specs[j]
        BY Zenon, <1>0, <1>6
    <2>3. Parts(list, Implicit(list), 2) = Parts(specs, Implicit(specs), 2)
        <3>1. Shares(list, Implicit(list), specs, Implicit(specs))
            BY Zenon, <2>1, <2>2 DEF Shares
        <3> QED BY <3>1, SameParts
    <2> QED BY Zenon, <2>3 DEF Parts
<1>9. ASSUME NEW addr PROVE Cardinality(UpTo(list, addr)) = Cardinality(UpTo(specs, addr))
    <2>1. UpTo(list, addr) = Entering(p, D, UpTo(specs, addr)) /\ UpTo(specs, addr) \subseteq D
        BY Zenon, <1>3, <1>6 DEF UpTo, Entering
    <2>2. UpTo(specs, addr) \in SUBSET D
        BY Zenon, <2>1
    <2> QED BY <1>2, <1>p, <2>1, <2>2, SameCount
<1>10. Bare(list) = Bare(specs)
    <2> DEFINE A == {specs[i][2] : i \in Implicit(specs)}
               From(k) == {addr \in A : Cardinality(UpTo(specs, addr)) >= k}
               FromL(k) == {addr \in A : Cardinality(UpTo(list, addr)) >= k}
    <2>1. ASSUME NEW k PROVE FromL(k) = From(k)
        <3> HIDE DEF A
        <3> QED BY <1>9
    <2>2. Bare(specs) = [k \in 1 .. Cardinality(Implicit(specs)) |-> Min(From(k))]
        BY Zenon DEF Bare
    <2>3. Bare(list) = [k \in 1 .. Cardinality(Implicit(specs)) |-> Min(FromL(k))]
        BY Zenon, <1>7, <1>8 DEF Bare
    <2> HIDE DEF From, FromL
    <2> QED BY Zenon, <2>1, <2>2, <2>3
<1>11. ExplicitMap(list) = ExplicitMap(specs)
    <2> DEFINE E == ExplicitAddrs(list)
               I == {specs[i][2] : i \in Explicit(specs)}
               J == {list[i][2] : i \in Explicit(list)}
               F(id) == CHOOSE addr \in ExplicitAddrs(specs) :
                          \E i \in Explicit(specs) : specs[i] = <<"at", id, addr>>
               G(id) == CHOOSE addr \in E : \E i \in Explicit(list) : list[i] = <<"at", id, addr>>
    <2>1. ExplicitMap(specs) = [id \in I |-> F(id)] /\ ExplicitMap(list) = [id \in J |-> G(id)]
        BY Zenon DEF ExplicitMap
    <2>2. E = ExplicitAddrs(specs) /\ I = J
        BY Zenon, <1>5
    <2> HIDE DEF E, I, J
    <2>3. ASSUME NEW id PROVE F(id) = G(id)
        BY Zenon, <1>5, <2>2
    <2> HIDE DEF F, G
    <2> QED BY Zenon, <2>1, <2>2, <2>3
<1>12. Invalid(list) <=> Invalid(specs)
    <2>1. ASSUME NEW i \in DOMAIN list, list[i][1] = "bad" PROVE p[i] \in DOMAIN specs /\ specs[p[i]][1] = "bad"
        BY Zenon, <1>1, <1>3, <2>1 DEF D
    <2>2. ASSUME NEW j \in DOMAIN specs, specs[j][1] = "bad" PROVE \E i \in DOMAIN list : list[i][1] = "bad"
        <3>1. PICK i \in D : list[i] = specs[j]
            BY Zenon, <1>0 DEF D
        <3> QED BY Zenon, <1>3, <2>2, <3>1
    <2>4. ASSUME NEW i \in Explicit(list), NEW j \in Explicit(list), i # j, list[i][2] = list[j][2]
          PROVE  \E k, l \in Explicit(specs) : k # l /\ specs[k][2] = specs[l][2]
        <3>1. /\ i \in D /\ p[i] \in Explicit(specs) /\ j \in D /\ p[j] \in Explicit(specs)
              /\ p[i] # p[j] /\ specs[p[i]][2] = specs[p[j]][2]
            BY Zenon, <1>1, <1>3, <1>4, <2>4
        <3> QED BY Zenon, <3>1
    <2>3. ASSUME NEW k \in Explicit(specs), NEW l \in Explicit(specs), k # l, specs[k][2] = specs[l][2]
          PROVE  \E i, j \in Explicit(list) : i # j /\ list[i][2] = list[j][2]
        <3>1. k \in D /\ l \in D
            BY Zenon DEF Explicit, D
        <3>2. PICK i \in D : p[i] = k
            BY Zenon, <1>1, <3>1
        <3>3. PICK j \in D : p[j] = l
            BY Zenon, <1>1, <3>1
        <3> QED BY <1>3, <1>4, <2>3, <3>2, <3>3
    <2> QED BY Zenon, <2>1, <2>2, <2>3, <2>4 DEF Invalid
<1> QED BY Zenon, <1>10, <1>11, <1>12 DEF ParsePeerSpecs

\* The k-th unused id is among the first k ones beyond those in use.
LEMMA Ranks ==
    ASSUME NEW used \in SUBSET Nat, IsFiniteSet(used), NEW k \in Nat \ {0}
    PROVE  \E id \in (1 .. Cardinality(used) + k) \ used : Rank(id, used) = k
<1> DEFINE n == Cardinality(used) + k
           T == {m \in Nat : Rank(m, used) >= k}
<1>1. ASSUME NEW m \in Nat PROVE IsFiniteSet((1 .. m) \ used) /\ Rank(m, used) \in Nat
    <2>1. IsFiniteSet(1 .. m)
        BY FS_Interval
    <2>2. (1 .. m) \ used \in SUBSET (1 .. m)
        BY Zenon
    <2>3. IsFiniteSet((1 .. m) \ used)
        BY Zenon, <2>1, <2>2, FS_Subset
    <2> QED BY Zenon, <2>3, FS_CardinalityType DEF Rank
<1>2. Cardinality(used) \in Nat /\ n \in Nat
    <2>1. Cardinality(used) \in Nat
        BY Zenon, FS_CardinalityType
    <2> QED BY <2>1
<1>3. n \in T
    <2> DEFINE A == 1 .. n
    <2>1. IsFiniteSet(A) /\ Cardinality(A) = n
        BY <1>2, FS_Interval
    <2> HIDE DEF A
    <2>2. Cardinality(A \ used) = Cardinality(A) - Cardinality(A \cap used)
        BY Zenon, <2>1, FS_Difference
    <2>3. Cardinality(A \cap used) <= Cardinality(used) /\ Cardinality(A \cap used) \in Nat
        <3>1. A \cap used \in SUBSET used
            BY Zenon
        <3>2. IsFiniteSet(A \cap used) /\ Cardinality(A \cap used) <= Cardinality(used)
            BY Zenon, <3>1, FS_Subset
        <3> QED BY Zenon, <3>2, FS_CardinalityType
    <2>4. Cardinality(A \ used) >= k
        BY <1>2, <2>1, <2>2, <2>3
    <2> QED BY Zenon, <1>2, <2>4 DEF A, Rank
<1> DEFINE m == Min(T)
<1>4. m \in T /\ \A y \in T : m <= y
    <2>1. T \in SUBSET Nat /\ T # {}
        BY Zenon, <1>3
    <2> HIDE DEF T
    <2> QED BY Zenon, <2>1, LeastOf
<1> HIDE DEF m
<1>5. m \in Nat /\ Rank(m, used) >= k /\ m <= n
    BY Zenon, <1>3, <1>4
<1>6. m > 0
    <2> SUFFICES ASSUME m = 0 PROVE FALSE
        BY <1>5
    <2>1. (1 .. 0) \ used = {}
        OBVIOUS
    <2>2. Rank(m, used) = 0
        BY Zenon, <2>1, FS_EmptySet DEF Rank
    <2> QED BY <1>5, <2>2
<1>7. m - 1 \in Nat /\ Rank(m - 1, used) < k
    <2>1. m - 1 \in Nat /\ ~(m <= m - 1)
        BY <1>5, <1>6
    <2>2. m - 1 \notin T
        BY Zenon, <1>4, <2>1
    <2>3. Rank(m - 1, used) \in Nat /\ ~(Rank(m - 1, used) >= k)
        BY Zenon, <1>1, <2>1, <2>2
    <2> QED BY <2>1, <2>3
<1> DEFINE B == (1 .. m - 1) \ used
<1>8. IsFiniteSet(B) /\ Cardinality(B) = Rank(m - 1, used)
    BY Zenon, <1>1, <1>7 DEF Rank
<1>9. m \notin used
    <2> SUFFICES ASSUME m \in used PROVE FALSE
        BY Zenon
    <2>1. (1 .. m) \ used = B
        BY <1>5, <1>6
    <2>2. Rank(m, used) = Rank(m - 1, used)
        BY Zenon, <1>8, <2>1 DEF Rank
    <2>3. Rank(m, used) \in Nat
        BY Zenon, <1>1, <1>5
    <2> QED BY <1>5, <1>7, <2>2, <2>3
<1>10. Rank(m, used) = Rank(m - 1, used) + 1
    <2>1. (1 .. m) \ used = B \cup {m} /\ m \notin B
        BY <1>5, <1>6, <1>9
    <2> HIDE DEF B
    <2>2. Cardinality(B \cup {m}) = Cardinality(B) + 1
        BY Zenon, <1>8, <2>1, FS_AddElement
    <2> QED BY Zenon, <1>8, <2>1, <2>2 DEF Rank
<1>11. Rank(m, used) = k
    <2>1. Rank(m, used) \in Nat /\ Rank(m - 1, used) \in Nat
        BY Zenon, <1>1, <1>5, <1>7
    <2> QED BY <1>5, <1>7, <1>10, <2>1
<1>12. m \in 1 .. n
    BY <1>2, <1>5, <1>6
<1> QED BY Zenon, <1>9, <1>11, <1>12

LEMMA BareLength ==
    ASSUME NEW specs \in Seq(PeerSpec)
    PROVE  /\ IsFiniteSet(Implicit(specs)) /\ Cardinality(Implicit(specs)) \in Nat
           /\ Len(Bare(specs)) = Cardinality(Implicit(specs)) /\ Len(Bare(specs)) \in Nat
<1> DEFINE D == Implicit(specs)
<1>1. IsFiniteSet(D) /\ Cardinality(D) \in Nat
    <2>1. IsFiniteSet(DOMAIN specs)
        <3>1. DOMAIN specs = 1 .. Len(specs) /\ Len(specs) \in Nat
            OBVIOUS
        <3> QED BY <3>1, FS_Interval
    <2>2. D \in SUBSET DOMAIN specs
        BY Zenon DEF Implicit
    <2> HIDE DEF D
    <2>3. IsFiniteSet(D)
        BY Zenon, <2>1, <2>2, FS_Subset
    <2> QED BY Zenon, <2>3, FS_CardinalityType
<1>2. PICK b : b = Bare(specs)
    BY Zenon
<1>3. PICK c \in Nat : c = Cardinality(D)
    BY Zenon, <1>1
<1>4. DOMAIN b = 1 .. c
    BY Zenon, <1>2, <1>3 DEF Bare
<1>5. Len(b) = c
    BY <1>3, <1>4
<1> QED BY Zenon, <1>1, <1>2, <1>3, <1>5

\* Every bare address is in the sorted list.
LEMMA BareCovers ==
    ASSUME NEW specs \in Seq(PeerSpec), NEW i \in Implicit(specs)
    PROVE  \E k \in 1 .. Len(Bare(specs)) : Bare(specs)[k] = specs[i][2]
<1> DEFINE D == Implicit(specs)
           A == {specs[j][2] : j \in D}
           From(k) == {addr \in A : Cardinality(UpTo(specs, addr)) >= k}
           a == specs[i][2]
           k == Cardinality(UpTo(specs, a))
<1>1. IsFiniteSet(D) /\ Cardinality(D) \in Nat /\ Len(Bare(specs)) = Cardinality(D)
    BY Zenon, BareLength
<1>2. ASSUME NEW j \in D PROVE specs[j][2] \in Nat
    <2>1. j \in DOMAIN specs /\ specs[j][1] = "addr"
        BY Zenon DEF Implicit
    <2> QED BY Zenon, <2>1, EntryForms
<1>3. Bare(specs) = [l \in 1 .. Cardinality(D) |-> Min(From(l))]
    BY Zenon DEF Bare
<1>4. ASSUME NEW addr
      PROVE  /\ UpTo(specs, addr) \in SUBSET D /\ IsFiniteSet(UpTo(specs, addr))
             /\ Cardinality(UpTo(specs, addr)) \in Nat
             /\ Cardinality(UpTo(specs, addr)) <= Cardinality(D)
    <2>1. UpTo(specs, addr) \in SUBSET D
        BY Zenon DEF UpTo
    <2> HIDE DEF D
    <2>2. IsFiniteSet(UpTo(specs, addr)) /\ Cardinality(UpTo(specs, addr)) <= Cardinality(D)
        BY Zenon, <1>1, <2>1, FS_Subset
    <2> QED BY Zenon, <2>1, <2>2, FS_CardinalityType
<1>5. i \in D /\ a \in Nat /\ a \in A
    BY Zenon, <1>2
<1>6. i \in UpTo(specs, a)
    <2>1. a <= a
        BY <1>5
    <2> QED BY Zenon, <2>1 DEF UpTo
<1>7. k \in 1 .. Cardinality(D)
    <2>1. k \in Nat /\ k <= Cardinality(D)
        BY Zenon, <1>4
    <2>2. k # 0
        BY Zenon, <1>4, <1>6, FS_EmptySet
    <2> HIDE DEF k, D
    <2> QED BY <1>1, <2>1, <2>2
<1>8. k \in Nat /\ k >= k
    <2> HIDE DEF k, D
    <2> QED BY <1>1, <1>7
<1> DEFINE m == Min(From(k))
<1>9. m \in From(k) /\ \A y \in From(k) : m <= y
    <2>1. A \subseteq Nat
        BY Zenon, <1>2
    <2>2. From(k) \in SUBSET Nat /\ From(k) # {}
        BY Zenon, <1>5, <1>8, <2>1
    <2> HIDE DEF From
    <2> QED BY Zenon, <2>2, LeastOf
<1>10. m \in Nat /\ m <= a /\ Cardinality(UpTo(specs, m)) >= k
    <2>1. m \in A /\ Cardinality(UpTo(specs, m)) >= k
        BY Zenon, <1>9
    <2>2. m \in Nat
        <3> HIDE DEF m
        <3> QED BY Zenon, <1>2, <2>1
    <2>3. a \in From(k)
        BY Zenon, <1>5, <1>8
    <2> HIDE DEF m, From
    <2> QED BY Zenon, <1>9, <2>1, <2>2, <2>3
<1> HIDE DEF m
<1>11. m = a
    <2> SUFFICES ASSUME m < a PROVE FALSE
        <3> HIDE DEF a, k
        <3> QED BY <1>5, <1>10
    <2>1. UpTo(specs, m) \subseteq UpTo(specs, a)
        <3>1. ASSUME NEW j \in D, specs[j][2] <= m PROVE specs[j][2] <= a
            <4>1. PICK x \in Nat : x = specs[j][2]
                BY Zenon, <1>2
            <4> HIDE DEF a
            <4> QED BY <1>5, <1>10, <3>1, <4>1
        <3> QED BY Zenon, <3>1 DEF UpTo
    <2>2. i \notin UpTo(specs, m)
        <3>1. ~(a <= m)
            <4> HIDE DEF a
            <4> QED BY <1>5, <1>10
        <3> QED BY Zenon, <3>1 DEF UpTo
    <2>3. UpTo(specs, m) \in SUBSET UpTo(specs, a) /\ UpTo(specs, m) # UpTo(specs, a)
        BY Zenon, <1>6, <2>1, <2>2
    <2>4. /\ Cardinality(UpTo(specs, m)) <= Cardinality(UpTo(specs, a))
          /\ Cardinality(UpTo(specs, a)) # Cardinality(UpTo(specs, m))
        BY Zenon, <1>4, <2>3, FS_Subset
    <2>5. Cardinality(UpTo(specs, m)) \in Nat
        BY Zenon, <1>4
    <2> QED BY <1>8, <1>10, <2>4, <2>5
<1>12. Bare(specs)[k] = m
    <2> HIDE DEF k, From
    <2> QED BY Zenon, <1>3, <1>7 DEF m
<1> QED BY Zenon, <1>1, <1>7, <1>11, <1>12

\* In a list without errors an entry with an id is what the map says of it.
LEMMA ExplicitFacts ==
    ASSUME NEW specs \in Seq(PeerSpec), ~Invalid(specs)
    PROVE  /\ DOMAIN ExplicitMap(specs) \in SUBSET Nat /\ IsFiniteSet(DOMAIN ExplicitMap(specs))
           /\ \A i \in Explicit(specs) : /\ specs[i][2] \in DOMAIN ExplicitMap(specs)
                                         /\ ExplicitMap(specs)[specs[i][2]] = specs[i][3]
<1> DEFINE E == Explicit(specs)
           I == {specs[i][2] : i \in E}
           P(id, addr) == \E i \in E : specs[i] = <<"at", id, addr>>
           C(id) == CHOOSE addr \in ExplicitAddrs(specs) : P(id, addr)
<1>1. ASSUME NEW i \in E
      PROVE  /\ specs[i] = <<"at", specs[i][2], specs[i][3]>> /\ specs[i][2] \in Nat
             /\ specs[i][3] \in ExplicitAddrs(specs)
    <2>1. i \in DOMAIN specs /\ specs[i][1] = "at"
        BY Zenon DEF Explicit
    <2> QED BY Zenon, <2>1, EntryForms DEF ExplicitAddrs
<1>2. ExplicitMap(specs) = [id \in I |-> C(id)]
    BY Zenon DEF ExplicitMap
<1>3. IsFiniteSet(I)
    <2> DEFINE f == [i \in E |-> specs[i][2]]
    <2>1. IsFiniteSet(DOMAIN specs)
        <3>1. DOMAIN specs = 1 .. Len(specs) /\ Len(specs) \in Nat
            OBVIOUS
        <3> QED BY <3>1, FS_Interval
    <2>2. E \in SUBSET DOMAIN specs
        BY Zenon DEF Explicit
    <2>3. IsFiniteSet(E)
        <3> HIDE DEF E
        <3> QED BY Zenon, <2>1, <2>2, FS_Subset
    <2>4. f \in Surjection(E, I)
        <3> HIDE DEF E
        <3> QED BY Zenon DEF Surjection
    <2> HIDE DEF f, E, I
    <2> QED BY Zenon, <2>3, <2>4, FS_Surjection
<1>4. ASSUME NEW i \in E PROVE C(specs[i][2]) = specs[i][3]
    <2> DEFINE c == C(specs[i][2])
    <2>1. P(specs[i][2], specs[i][3])
        BY Zenon, <1>1
    <2>2. P(specs[i][2], c)
        <3> HIDE DEF P
        <3> QED BY Zenon, <1>1, <2>1
    <2> HIDE DEF c
    <2>3. PICK j \in E : specs[j] = <<"at", specs[i][2], c>>
        BY Zenon, <2>2
    <2>4. specs[j][2] = specs[i][2] /\ specs[j][3] = c
        BY <2>3
    <2>5. j = i
        BY Zenon, <2>4 DEF Invalid
    <2> QED BY Zenon, <2>4, <2>5 DEF c
<1>5. I \in SUBSET Nat
    BY Zenon, <1>1
<1>6. DOMAIN ExplicitMap(specs) = I
    <2> HIDE DEF C, I
    <2> QED BY Zenon, <1>2
<1>7. ASSUME NEW i \in E PROVE ExplicitMap(specs)[specs[i][2]] = specs[i][3]
    <2>1. specs[i][2] \in I
        BY Zenon
    <2> HIDE DEF C, I
    <2> QED BY Zenon, <1>2, <1>4, <2>1
<1>8. \A i \in E : specs[i][2] \in I
    BY Zenon
<1> HIDE DEF I, C
<1> QED BY Zenon, <1>3, <1>5, <1>6, <1>7, <1>8

Extends(addrs, map, bare) ==
  /\ IsFiniteSet(DOMAIN addrs)
  /\ \A id \in DOMAIN map : id \in DOMAIN addrs /\ addrs[id] = map[id]
  /\ \A k \in 1 .. Len(bare) : \E id \in DOMAIN addrs : addrs[id] = bare[k]

\* Assign keeps the map and gives every bare address an id.
LEMMA AssignFacts ==
    ASSUME NEW map, DOMAIN map \in SUBSET Nat, IsFiniteSet(DOMAIN map),
           NEW bare, Len(bare) \in Nat
    PROVE  Extends(Assign(map, bare), map, bare)
<1> DEFINE used == DOMAIN map
           B == 1 .. Cardinality(used) + Len(bare)
           given == {id \in B \ used : Rank(id, used) <= Len(bare)}
           all == used \cup given
           F(id) == IF id \in used THEN map[id] ELSE bare[Rank(id, used)]
<1>1. Assign(map, bare) = [id \in all |-> F(id)]
    BY Zenon DEF Assign
<1>2. Cardinality(used) \in Nat
    BY Zenon, FS_CardinalityType
<1>3. IsFiniteSet(all)
    <2>1. IsFiniteSet(B)
        <3>1. 1 \in Int /\ Cardinality(used) + Len(bare) \in Int
            BY <1>2
        <3> QED BY Zenon, <3>1, FS_Interval
    <2>2. given \in SUBSET B
        BY Zenon
    <2>3. IsFiniteSet(given)
        <3> HIDE DEF given, B
        <3> QED BY Zenon, <2>1, <2>2, FS_Subset
    <2> HIDE DEF given
    <2> QED BY Zenon, <2>3, FS_Union
<1>4. ASSUME NEW id \in used PROVE id \in all /\ F(id) = map[id]
    BY Zenon
<1>5. ASSUME NEW k \in 1 .. Len(bare) PROVE \E id \in all : F(id) = bare[k]
    <2>1. k \in Nat \ {0} /\ k <= Len(bare)
        OBVIOUS
    <2>2. PICK id \in (1 .. Cardinality(used) + k) \ used : Rank(id, used) = k
        BY Zenon, <2>1, Ranks
    <2>3. id \in B
        BY <1>2, <2>1, <2>2
    <2>4. Rank(id, used) <= Len(bare)
        BY Zenon, <2>1, <2>2
    <2> QED BY Zenon, <2>2, <2>3, <2>4
<1> HIDE DEF all, F
<1>6. DOMAIN Assign(map, bare) = all /\ \A id \in all : Assign(map, bare)[id] = F(id)
    BY Zenon, <1>1
<1>7. ASSUME NEW k \in 1 .. Len(bare) PROVE \E id \in all : Assign(map, bare)[id] = bare[k]
    <2>1. PICK id \in all : F(id) = bare[k]
        BY Zenon, <1>5
    <2> QED BY Zenon, <1>6, <2>1
<1>8. ASSUME NEW id \in used PROVE id \in all /\ Assign(map, bare)[id] = map[id]
    BY Zenon, <1>4, <1>6
<1> QED BY Zenon, <1>3, <1>6, <1>7, <1>8 DEF Extends

\* A list that parses gives an id to every address in it.
LEMMA EveryAddress ==
    ASSUME NEW specs \in Seq(PeerSpec), ~Invalid(specs), NEW addrs, addrs = ParsePeerSpecs(specs).addrs
    PROVE  /\ IsFiniteSet(DOMAIN addrs)
           /\ \A i \in DOMAIN specs : \E id \in DOMAIN addrs : addrs[id] = specs[i][Len(specs[i])]
<1>1. PICK map : map = ExplicitMap(specs)
    BY Zenon
<1>2. PICK bare : bare = Bare(specs)
    BY Zenon
<1>3. addrs = Assign(map, bare)
    <2>1. ASSUME NEW t, NEW x PROVE [ok |-> t, addrs |-> x].addrs = x
        BY Zenon
    <2>2. ParsePeerSpecs(specs) = [ok |-> TRUE, addrs |-> Assign(map, bare)]
        BY Zenon, <1>1, <1>2 DEF ParsePeerSpecs
    <2> QED BY Zenon, <2>1, <2>2
<1>4. /\ DOMAIN map \in SUBSET Nat /\ IsFiniteSet(DOMAIN map)
      /\ \A i \in Explicit(specs) : specs[i][2] \in DOMAIN map /\ map[specs[i][2]] = specs[i][3]
    BY Zenon, <1>1, ExplicitFacts
<1>5. Len(bare) \in Nat
    BY Zenon, <1>2, BareLength
<1>6. Extends(addrs, map, bare)
    BY Zenon, <1>3, <1>4, <1>5, AssignFacts
<1>7. ASSUME NEW i \in Explicit(specs)
      PROVE  \E id \in DOMAIN addrs : addrs[id] = specs[i][3]
    <2>1. \A id \in DOMAIN map : id \in DOMAIN addrs /\ addrs[id] = map[id]
        BY Zenon, <1>6 DEF Extends
    <2> QED BY Zenon, <1>4, <2>1
<1>8. ASSUME NEW i \in DOMAIN specs
      PROVE  \E id \in DOMAIN addrs : addrs[id] = specs[i][Len(specs[i])]
    <2>1. CASE specs[i][1] = "at"
        <3>1. i \in Explicit(specs) /\ Len(specs[i]) = 3
            BY Zenon, <2>1, EntryForms DEF Explicit
        <3> QED BY Zenon, <1>7, <3>1
    <2>2. CASE specs[i][1] = "addr" /\ specs[i][2] \in ExplicitAddrs(specs)
        <3>1. Len(specs[i]) = 2
            BY Zenon, <2>2, EntryForms
        <3>2. PICK j \in Explicit(specs) : specs[j][3] = specs[i][2]
            BY Zenon, <2>2 DEF ExplicitAddrs
        <3> QED BY Zenon, <1>7, <3>1, <3>2
    <2>3. CASE specs[i][1] = "addr" /\ specs[i][2] \notin ExplicitAddrs(specs)
        <3>1. Len(specs[i]) = 2 /\ i \in Implicit(specs)
            BY Zenon, <2>3, EntryForms DEF Implicit
        <3>2. PICK k \in 1 .. Len(bare) : bare[k] = specs[i][2]
            BY Zenon, <1>2, <3>1, BareCovers
        <3> QED BY ZenonT(40), <1>6, <3>1, <3>2 DEF Extends
    <2>4. specs[i][1] # "bad"
        BY Zenon DEF Invalid
    <2> QED BY Zenon, <2>1, <2>2, <2>3, <2>4, EntryForms
<1> QED BY Zenon, <1>6, <1>8 DEF Extends

\* What a start of a leaves in m: it is the same for every order of the list.
StartedAs(m, a) ==
  IF peerList = <<>> THEN m.id = 1
  ELSE /\ m.addrs = ParsePeerSpecs(peerList).addrs /\ m.voters = Voters(m.id, m.addrs)
       /\ IF Invalid(peerList) THEN m.id = 0 ELSE m.id \in DetermineLocalID(m.picked, a, m.addrs)

\* The inductive invariant.
ConfigInv ==
  /\ peerList \in Seq(PeerSpec)
  /\ member = [a \in Members |-> member[a]]
  /\ \A a \in Members : member[a].starts > 0 => StartedAs(member[a], a)

LEMMA LocalIds ==
    ASSUME NEW nodeID, NEW a, NEW addrs, NEW id \in DetermineLocalID(nodeID, a, addrs), id # 0
    PROVE  /\ id \in DOMAIN addrs
           /\ nodeID = NoId =>
                (id \in Own(a, addrs) \/ (Own(a, addrs) = {} /\ Cardinality(DOMAIN addrs) = 1))
<1>1. CASE nodeID # NoId
    BY Zenon, <1>1 DEF DetermineLocalID
<1>2. CASE nodeID = NoId /\ Own(a, addrs) # {}
    <2>1. id \in Own(a, addrs)
        BY Zenon, <1>2 DEF DetermineLocalID
    <2>2. id \in DOMAIN addrs
        BY Zenon, <2>1 DEF Own
    <2> QED BY Zenon, <1>2, <2>1, <2>2
<1>3. CASE nodeID = NoId /\ Own(a, addrs) = {}
    BY Zenon, <1>3 DEF DetermineLocalID
<1> QED BY Zenon, <1>1, <1>2, <1>3

LEMMA StartFacts ==
    ASSUME ConfigInv, NEW a \in Members, StartMember(a)
    PROVE  /\ peerList' = peerList /\ member' = [b \in Members |-> member'[b]]
           /\ \A b \in Members \ {a} : member'[b] = member[b]
           /\ StartedAs(member'[a], a)
<1>0. peerList \in Seq(PeerSpec) /\ member = [b \in Members |-> member[b]]
    BY Zenon DEF ConfigInv
<1> DEFINE D == DOMAIN peerList
<1>1. PICK order \in Bijection(D, D), nodeID \in {NoId, 1} :
          NewShardManager(a, [i \in D |-> peerList[order[i]]], nodeID)
    BY Zenon DEF StartMember
<1> DEFINE list == [i \in D |-> peerList[order[i]]]
<1>2. PICK parsed : parsed = Parsed(a, list)
    BY Zenon
<1>3. PICK id \in LocalIDs(a, list, nodeID) :
             member' = [member EXCEPT ![a] =
               [starts |-> @.starts + 1, id |-> id, addrs |-> parsed.addrs,
                voters |-> Voters(id, parsed.addrs), picked |-> nodeID]]
    BY Zenon, <1>1, <1>2 DEF NewShardManager
<1>4. /\ member' = [b \in Members |-> member'[b]] /\ \A b \in Members \ {a} : member'[b] = member[b]
      /\ member'[a].id = id /\ member'[a].addrs = parsed.addrs
      /\ member'[a].voters = Voters(id, parsed.addrs) /\ member'[a].picked = nodeID
    BY Zenon, <1>0, <1>3
<1>5. list = <<>> <=> peerList = <<>>
    <2>1. DOMAIN list = DOMAIN peerList
        BY Zenon
    <2>2. list = <<>> => DOMAIN peerList = {}
        BY <2>1
    <2>3. peerList = <<>> => list = <<>>
        OBVIOUS
    <2>4. DOMAIN peerList = {} => peerList = <<>>
        OBVIOUS
    <2> QED BY Zenon, <2>2, <2>3, <2>4
<1>6. peerList' = peerList
    BY Zenon DEF StartMember
<1>7. CASE peerList = <<>>
    BY Zenon, <1>3, <1>4, <1>5, <1>6, <1>7 DEF LocalIDs, StartedAs
<1>8. CASE peerList # <<>>
    <2>1. Reorders(order, peerList, list)
        BY Zenon, <1>1 DEF Reorders
    <2> HIDE DEF list
    <2>2. parsed = ParsePeerSpecs(peerList)
        <3>1. ParsePeerSpecs(list) = ParsePeerSpecs(peerList)
            BY Zenon, <1>0, <2>1, Reordered
        <3> QED BY Zenon, <1>2, <1>5, <1>8, <3>1 DEF Parsed
    <2>3. id \in IF parsed.ok THEN DetermineLocalID(nodeID, a, parsed.addrs) ELSE {0}
        BY Zenon, <1>2, <1>3, <1>5, <1>8 DEF LocalIDs
    <2>4. parsed.ok <=> ~Invalid(peerList)
        <3>1. ASSUME NEW t, NEW x PROVE [ok |-> t, addrs |-> x].ok = t
            BY Zenon
        <3>2. Invalid(peerList) => parsed.ok = FALSE
            BY Zenon, <2>2, <3>1 DEF ParsePeerSpecs, Failed
        <3>3. ~Invalid(peerList) => parsed.ok = TRUE
            BY Zenon, <2>2, <3>1 DEF ParsePeerSpecs
        <3> QED BY Zenon, <3>2, <3>3
    <2>5. IF Invalid(peerList) THEN id = 0 ELSE id \in DetermineLocalID(nodeID, a, parsed.addrs)
        BY Zenon, <2>3, <2>4
    <2> QED BY Zenon, <1>4, <1>6, <1>8, <2>2, <2>5 DEF StartedAs
<1> QED BY Zenon, <1>4, <1>6, <1>7, <1>8

LEMMA ConfigInit == ClusterInit => ConfigInv
<1> SUFFICES ASSUME ClusterInit PROVE ConfigInv
    BY Zenon
<1>1. peerList \in Seq(PeerSpec)
    BY Zenon, PeerListsAssumption DEF ClusterInit
<1>2. member = [a \in Members |-> member[a]] /\ \A a \in Members : member[a].starts = 0
    BY Zenon DEF ClusterInit, Idle
<1>3. ~(0 > 0)
    OBVIOUS
<1> QED BY Zenon, <1>1, <1>2, <1>3 DEF ConfigInv

LEMMA ConfigStep == ConfigInv /\ [ClusterNext]_cvars => ConfigInv'
<1> SUFFICES ASSUME ConfigInv, [ClusterNext]_cvars PROVE ConfigInv'
    BY Zenon
<1>1. ASSUME NEW a \in Members, StartMember(a) PROVE ConfigInv'
    <2>1. /\ peerList' = peerList /\ member' = [b \in Members |-> member'[b]]
          /\ \A b \in Members \ {a} : member'[b] = member[b]
          /\ StartedAs(member'[a], a)
        BY Zenon, <1>1, StartFacts
    <2>2. ASSUME NEW b \in Members, member'[b].starts > 0 PROVE StartedAs(member'[b], b)
        BY Zenon, <2>1, <2>2 DEF ConfigInv
    <2>3. ASSUME NEW b \in Members, StartedAs(member'[b], b) PROVE StartedAs(member[b], b)'
        BY Zenon, <2>1, <2>3 DEF StartedAs
    <2> QED BY Zenon, <2>1, <2>2, <2>3 DEF ConfigInv
<1>2. CASE UNCHANGED cvars
    <2>1. peerList' = peerList /\ member' = member
        BY Zenon, <1>2 DEF cvars
    <2>2. ASSUME NEW b PROVE StartedAs(member[b], b)' <=> StartedAs(member[b], b)
        BY Zenon, <2>1 DEF StartedAs
    <2> QED BY Zenon, <2>1, <2>2 DEF ConfigInv
<1> QED BY Zenon, <1>1, <1>2 DEF ClusterNext

LEMMA ConfigInvariant == ClusterSpec => []ConfigInv
BY ConfigInit, ConfigStep, PTL DEF ClusterSpec

\* Whatever the order of their lists and however often they start, nodes that
\* found their ids agree on every id and on the voters, every listed address
\* has an id, and two nodes that found theirs by their addresses have
\* different ones.
THEOREM MembersAgree == ClusterSpec => []IdsAgree
<1>1. ASSUME ConfigInv PROVE IdsAgree
    <2>1. ASSUME NEW a \in Members, Knows(a), peerList # <<>>
          PROVE  /\ peerList \in Seq(PeerSpec) /\ ~Invalid(peerList)
                 /\ member[a].addrs = ParsePeerSpecs(peerList).addrs
                 /\ member[a].voters = DOMAIN member[a].addrs
                 /\ member[a].id \in DetermineLocalID(member[a].picked, a, member[a].addrs)
                 /\ member[a].id # 0
        <3>1. peerList \in Seq(PeerSpec) /\ StartedAs(member[a], a) /\ member[a].id # 0
            BY Zenon, <1>1, <2>1 DEF ConfigInv, Knows
        <3>2. /\ ~Invalid(peerList) /\ member[a].addrs = ParsePeerSpecs(peerList).addrs
              /\ member[a].voters = Voters(member[a].id, member[a].addrs)
              /\ member[a].id \in DetermineLocalID(member[a].picked, a, member[a].addrs)
            BY Zenon, <2>1, <3>1 DEF StartedAs
        <3>3. member[a].id \in DOMAIN member[a].addrs
            BY Zenon, <3>1, <3>2, LocalIds
        <3> QED BY Zenon, <3>1, <3>2, <3>3 DEF Voters
    <2>2. VotersAgree
        BY Zenon, <2>1 DEF VotersAgree
    <2>3. ASSUME NEW a \in Members, Knows(a), peerList # <<>>, NEW i \in DOMAIN peerList
          PROVE  peerList[i][Len(peerList[i])] \in {member[a].addrs[id] : id \in DOMAIN member[a].addrs}
        <3>1. PICK addrs : addrs = member[a].addrs
            BY Zenon
        <3>2. \E id \in DOMAIN addrs : addrs[id] = peerList[i][Len(peerList[i])]
            <4>1. peerList \in Seq(PeerSpec) /\ ~Invalid(peerList) /\ addrs = ParsePeerSpecs(peerList).addrs
                BY Zenon, <2>1, <2>3, <3>1
            <4> QED BY ZenonT(40), <4>1, EveryAddress
        <3> QED BY Zenon, <3>1, <3>2
    <2>4. ASSUME NEW a \in Members, NEW b \in Members \ {a}, Knows(a), Knows(b), peerList # <<>>,
                 Cardinality(DOMAIN member[a].addrs) > 1,
                 member[a].picked = NoId, member[b].picked = NoId
          PROVE  member[a].id # member[b].id
        <3>1. PICK addrs : addrs = member[a].addrs /\ addrs = member[b].addrs
            BY Zenon, <2>1, <2>4
        <3>2. Cardinality(DOMAIN addrs) # 1
            <4>1. Cardinality(DOMAIN addrs) > 1
                BY Zenon, <2>4, <3>1
            <4> QED BY <4>1
        <3>3. member[a].id \in Own(a, addrs) /\ member[b].id \in Own(b, addrs)
            BY Zenon, <2>1, <2>4, <3>1, <3>2, LocalIds
        <3> QED BY Zenon, <2>4, <3>3 DEF Own
    <2>5. IdsDistinct
        BY Zenon, <2>3, <2>4 DEF IdsDistinct
    <2> QED BY Zenon, <2>2, <2>5 DEF IdsAgree
<1> QED BY <1>1, ConfigInvariant, PTL

\* A node whose list names its address once comes back from every restart with
\* the id under which it voted, whatever the order of the list then.
THEOREM RestartsKeepId == ClusterSpec => RestartKeepsId
<1>1. ASSUME ConfigInv, [ClusterNext]_cvars, NEW a \in Members,
             Knows(a), ListedOnce(a), member[a].picked = NoId, member'[a].picked = NoId
      PROVE  member'[a].id = member[a].id
    <2>1. CASE UNCHANGED cvars
        BY Zenon, <2>1 DEF cvars
    <2>2. ASSUME NEW b \in Members, b # a, StartMember(b) PROVE member'[a].id = member[a].id
        BY Zenon, <1>1, <2>2, StartFacts
    <2>3. ASSUME StartMember(a) PROVE member'[a].id = member[a].id
        <3>1. StartedAs(member[a], a) /\ StartedAs(member'[a], a) /\ member[a].id # 0
            <4>1. StartedAs(member'[a], a)
                BY Zenon, <1>1, <2>3, StartFacts
            <4> QED BY Zenon, <1>1, <4>1 DEF ConfigInv, Knows
        <3>2. CASE peerList = <<>>
            BY Zenon, <3>1, <3>2 DEF StartedAs
        <3>3. CASE peerList # <<>>
            <4>1. PICK addrs : addrs = ParsePeerSpecs(peerList).addrs
                BY Zenon
            <4>2. /\ ~Invalid(peerList) /\ member[a].addrs = addrs /\ member'[a].addrs = addrs
                  /\ member[a].id \in DetermineLocalID(NoId, a, addrs)
                  /\ member'[a].id \in DetermineLocalID(NoId, a, addrs)
                BY Zenon, <1>1, <3>1, <3>3, <4>1 DEF StartedAs
            <4>3. IsFiniteSet(DOMAIN addrs)
                <5>1. peerList \in Seq(PeerSpec)
                    BY Zenon, <1>1 DEF ConfigInv
                <5> QED BY Zenon, <4>1, <4>2, <5>1, EveryAddress
            <4>4. IsFiniteSet(Own(a, addrs)) /\ Cardinality(Own(a, addrs)) = 1
                <5>1. Own(a, addrs) \in SUBSET DOMAIN addrs
                    BY Zenon DEF Own
                <5>2. Cardinality(Own(a, addrs)) = 1
                    BY Zenon, <1>1, <4>2 DEF ListedOnce
                <5> QED BY Zenon, <4>3, <5>1, <5>2, FS_Subset
            <4>5. PICK x : Own(a, addrs) = {x}
                BY Zenon, <4>4, FS_Singleton
            <4>6. DetermineLocalID(NoId, a, addrs) = Own(a, addrs)
                BY Zenon, <4>5 DEF DetermineLocalID
            <4>7. member[a].id \in {x} /\ member'[a].id \in {x}
                BY Zenon, <4>2, <4>5, <4>6
            <4> QED BY Zenon, <4>7
        <3> QED BY Zenon, <3>2, <3>3
    <2> QED BY Zenon, <1>1, <2>1, <2>2, <2>3 DEF ClusterNext
<1>2. ConfigInv /\ [ClusterNext]_cvars =>
        [\A a \in Members :
           (Knows(a) /\ ListedOnce(a) /\ member[a].picked = NoId /\ member'[a].picked = NoId)
              => member'[a].id = member[a].id]_cvars
    BY Zenon, <1>1
<1> QED BY <1>2, ConfigInvariant, PTL DEF RestartKeepsId, ClusterSpec

\* A bounded set of naturals that is not empty has a greatest element: the
\* least of its bounds.
LEMMA GreatestOf ==
    ASSUME NEW T \in SUBSET Nat, T # {}, NEW B \in Nat, \A y \in T : y <= B
    PROVE  Max(T) \in T /\ \A y \in T : y <= Max(T)
<1> DEFINE U == {u \in Nat : \A y \in T : y <= u}
<1> DEFINE m == Min(U)
<1>1. m \in U /\ \A u \in U : m <= u
    <2>1. U \in SUBSET Nat /\ U # {}
        BY Zenon
    <2> HIDE DEF U
    <2> QED BY Zenon, <2>1, LeastOf
<1> HIDE DEF m
<1>2. m \in T
    <2> SUFFICES ASSUME m \notin T PROVE FALSE
        BY Zenon
    <2>1. m \in Nat /\ \A y \in T : y < m
        BY <1>1
    <2>2. m > 0
        <3>1. PICK y \in T : TRUE
            BY Zenon
        <3> QED BY <2>1, <3>1
    <2>3. m - 1 \in U
        <3>1. m - 1 \in Nat
            BY <2>1, <2>2
        <3>2. \A y \in T : y <= m - 1
            BY <2>1
        <3> QED BY Zenon, <3>1, <3>2
    <2> QED BY <1>1, <2>1, <2>3
<1>3. \A y \in T : m >= y
    BY Zenon, <1>1
<1>4. \A x \in T : (\A y \in T : x >= y) => x = m
    BY <1>1, <1>2, <1>3
<1> QED BY Zenon, <1>1, <1>2, <1>3, <1>4 DEF Max

Entries == Nat \X Nat

LEMMA EntryFacts ==
    /\ Cut \in Entries /\ Cut[1] = 0
    /\ \A x \in Entries : x[1] \in Nat /\ x # <<>>
BY DEF Entries, Cut

LEMMA InSeq ==
    ASSUME NEW S, NEW s \in Seq(S)
    PROVE  /\ \A i \in 1 .. Len(s) : s[i] \in S /\ s[i] \in Range(s)
           /\ \A x \in Range(s) : \E i \in 1 .. Len(s) : s[i] = x
BY DEF Range

LEMMA Appended ==
    ASSUME NEW S, NEW s \in Seq(S), NEW x \in S
    PROVE  /\ Append(s, x) \in Seq(S) /\ Len(Append(s, x)) = Len(s) + 1 /\ Len(s) \in Nat
           /\ \A i \in 1 .. Len(s) : Append(s, x)[i] = s[i]
           /\ Append(s, x)[Len(s) + 1] = x
OBVIOUS

\* The scan ends before the first torn entry.
LEMMA ScanFacts ==
    ASSUME NEW f \in Seq(Entries)
    PROVE  /\ Scan(f) \in Seq(Entries)
           /\ Len(Scan(f)) \in 0 .. Len(f)
           /\ \A j \in 1 .. Len(Scan(f)) : Scan(f)[j] = f[j] /\ f[j] # Cut
           /\ Len(Scan(f)) < Len(f) => f[Len(Scan(f)) + 1] = Cut
<1> DEFINE T == {j \in 1 .. Len(f) : f[j] = Cut}
<1>1. CASE T = {}
    BY <1>1 DEF Scan
<1>2. CASE T # {}
    <2>1. Min(T) \in T /\ \A y \in T : Min(T) <= y
        <3>1. T \in SUBSET Nat
            OBVIOUS
        <3> HIDE DEF T
        <3> QED BY Zenon, <1>2, <3>1, LeastOf
    <2> DEFINE k == Min(T) - 1
    <2>2. Scan(f) = SubSeq(f, 1, k)
        BY Zenon, <1>2 DEF Scan
    <2>3. k \in 0 .. Len(f) /\ k < Len(f) /\ f[k + 1] = Cut /\ \A j \in 1 .. k : f[j] # Cut
        <3>1. Min(T) \in 1 .. Len(f) /\ f[Min(T)] = Cut
            BY Zenon, <2>1
        <3>2. ASSUME NEW j \in 1 .. k PROVE f[j] # Cut
            BY <2>1, <3>1
        <3> QED BY <3>1, <3>2
    <2> HIDE DEF k, T
    <2>4. SubSeq(f, 1, k) \in Seq(Entries) /\ Len(SubSeq(f, 1, k)) = k
        BY <2>3
    <2>5. \A j \in 1 .. k : SubSeq(f, 1, k)[j] = f[j]
        BY <2>3
    <2> QED BY Zenon, <2>2, <2>3, <2>4, <2>5
<1> QED BY Zenon, <1>1, <1>2

LEMMA ScanIs ==
    ASSUME NEW f \in Seq(Entries), NEW k \in 0 .. Len(f),
           \A j \in 1 .. k : f[j] # Cut, k < Len(f) => f[k + 1] = Cut
    PROVE  Len(Scan(f)) = k
BY ScanFacts

\* The entry Append writes for its call i at the commit index after c.
LEMMA NewEntry ==
    ASSUME NEW c \in Nat, NEW i \in Nat
    PROVE  /\ <<c + 1, i + 1>> \in Entries /\ <<c + 1, i + 1>> # Cut
           /\ <<c + 1, i + 1>> # <<>> /\ <<c + 1, i + 1>>[1] = c + 1
BY DEF Entries, Cut

-----------------------------------------------------------------------------
ReaderType == [lastApplied : Nat, from : Nat \ {0}, pos : Nat]
ToldType == [acked : Seq(Entries), applied : Seq(Entries), calls : Nat, crashes : Nat]
LogType == [open : BOOLEAN, commitIdx : Nat, stuck : BOOLEAN, busy : {<<>>} \cup Entries]

Types ==
    /\ file \in Seq(Entries)
    /\ log \in LogType
    /\ reader \in ReaderType
    /\ told \in ToldType

\* No index runs ahead of its place in the file; the entry an append is busy
\* with is the last one, one above the commit index.
Placed ==
    /\ \A j \in 1 .. Len(file) : file[j][1] <= j
    /\ log.busy = <<>> => log.commitIdx <= Len(file)
    /\ log.busy # <<>> =>
           /\ log.open /\ Len(file) > 0 /\ file[Len(file)] = log.busy
           /\ log.busy[1] = log.commitIdx + 1 /\ log.commitIdx < Len(file)

Untorn(f) == \A i \in 1 .. Len(f) : f[i] # Cut

\* Answered entries are in the file, in order, and none above the commit index.
Answered ==
    Untorn(file) =>
        /\ \A j \in 1 .. Len(told.acked) : \E i \in 1 .. Len(file) : told.acked[j] = file[i]
        /\ \A j \in 1 .. Len(told.acked) - 1 : told.acked[j][1] < told.acked[j + 1][1]
        /\ log.open => \A j \in 1 .. Len(told.acked) : told.acked[j][1] <= log.commitIdx

AnswerInv == Types /\ Placed /\ Answered

\* openBucket finds an index no smaller than any in a file that reads to its end.
LEMMA OpenFacts ==
    ASSUME Types, Placed
    PROVE  LET l == openBucket(log, file) IN
           /\ l \in LogType /\ l.open /\ l.busy = log.busy
           /\ log.busy = <<>> => l.commitIdx <= Len(file)
           /\ log.open => l = log
           /\ ~log.open => /\ \A j \in 1 .. Len(Scan(file)) : file[j][1] <= l.commitIdx
                           /\ \/ l.commitIdx = 0
                              \/ \E j \in 1 .. Len(Scan(file)) : l.commitIdx = file[j][1]
<1> DEFINE S == {0} \cup {e[1] : e \in Range(Scan(file))}
<1>1. CASE log.open
    BY Zenon, <1>1 DEF openBucket, Types, LogType, Placed
<1>2. CASE ~log.open
    <2>0. /\ Scan(file) \in Seq(Entries) /\ Len(Scan(file)) \in 0 .. Len(file)
          /\ \A j \in 1 .. Len(Scan(file)) : Scan(file)[j] = file[j]
        BY Zenon, ScanFacts DEF Types
    <2>1. S = {0} \cup {file[j][1] : j \in 1 .. Len(Scan(file))}
        BY <2>0 DEF Range
    <2>2. \A j \in 1 .. Len(Scan(file)) : file[j][1] \in Nat /\ file[j][1] <= Len(file)
        <3> SUFFICES ASSUME NEW j \in 1 .. Len(Scan(file))
                     PROVE  file[j][1] \in Nat /\ file[j][1] <= Len(file)
            BY Zenon
        <3>1. Len(file) \in Nat /\ j \in 1 .. Len(file) /\ file[j] \in Entries
            BY <2>0 DEF Types
        <3>2. file[j][1] \in Nat
            BY Zenon, <3>1 DEF Entries
        <3>3. file[j][1] <= j
            BY Zenon, <3>1 DEF Placed
        <3> QED BY <3>1, <3>2, <3>3
    <2> HIDE DEF S
    <2>3. S \in SUBSET Nat /\ S # {} /\ Len(file) \in Nat /\ \A y \in S : y <= Len(file)
        <3>1. Len(file) \in Nat
            BY DEF Types
        <3>2. ASSUME NEW y \in S PROVE y \in Nat /\ y <= Len(file)
            <4>1. CASE y = 0
                BY <3>1, <4>1
            <4>2. CASE \E j \in 1 .. Len(Scan(file)) : y = file[j][1]
                BY Zenon, <2>2, <4>2
            <4> QED BY Zenon, <2>1, <3>2, <4>1, <4>2
        <3>3. 0 \in S
            BY Zenon, <2>1
        <3> QED BY Zenon, <3>1, <3>2, <3>3
    <2>4. Max(S) \in S /\ \A y \in S : y <= Max(S)
        BY Zenon, <2>3, GreatestOf
    <2>5. openBucket(log, file) = [log EXCEPT !.open = TRUE, !.stuck = FALSE, !.commitIdx = Max(S)]
        BY Zenon, <1>2 DEF openBucket, S
    <2>6. /\ Max(S) \in Nat /\ Max(S) <= Len(file)
          /\ \A j \in 1 .. Len(Scan(file)) : file[j][1] <= Max(S)
          /\ Max(S) = 0 \/ \E j \in 1 .. Len(Scan(file)) : Max(S) = file[j][1]
        BY Zenon, <2>1, <2>3, <2>4
    <2> QED BY Zenon, <1>2, <2>5, <2>6 DEF Types, LogType
<1> QED BY Zenon, <1>1, <1>2

-----------------------------------------------------------------------------
LEMMA AnswerInit == BucketInit => AnswerInv
BY DEF BucketInit, AnswerInv, Types, LogType, ReaderType, ToldType, Placed, Answered

LEMMA FlushAnswers ==
    ASSUME AnswerInv, AppendFlush
    PROVE  AnswerInv'
<1> DEFINE l == openBucket(log, file)
           e == <<l.commitIdx + 1, told.calls + 1>>
<1>0. /\ l \in LogType /\ l.open /\ l.busy = <<>> /\ l.commitIdx \in Nat
      /\ l.commitIdx <= Len(file) /\ Len(file) \in Nat
      /\ file \in Seq(Entries) /\ \A j \in 1 .. Len(file) : file[j][1] <= j
    <2>1. log.busy = <<>>
        BY Zenon DEF AppendFlush
    <2>2. l \in LogType /\ l.open /\ l.busy = <<>> /\ l.commitIdx <= Len(file)
        BY Zenon, <2>1, OpenFacts DEF AnswerInv
    <2> QED BY <2>2 DEF AnswerInv, Types, Placed, LogType
\* whoever opened the bucket, no answer is above the commit index
<1>1. Untorn(file) => \A j \in 1 .. Len(told.acked) : told.acked[j][1] <= l.commitIdx
    <2>1. CASE log.open
        <3>1. l = log
            BY Zenon, <2>1, OpenFacts DEF AnswerInv
        <3> HIDE DEF l
        <3> QED BY Zenon, <2>1, <3>1 DEF AnswerInv, Answered
    <2>2. CASE ~log.open
        <3> SUFFICES ASSUME Untorn(file), NEW j \in 1 .. Len(told.acked)
                     PROVE  told.acked[j][1] <= l.commitIdx
            BY Zenon
        <3>1. Len(Scan(file)) = Len(file)
            BY <1>0, ScanIs DEF Untorn
        <3>2. PICK i \in 1 .. Len(file) : told.acked[j] = file[i]
            BY Zenon DEF AnswerInv, Answered
        <3>3. \A k \in 1 .. Len(Scan(file)) : file[k][1] <= l.commitIdx
            BY Zenon, <2>2, OpenFacts DEF AnswerInv
        <3> QED BY Zenon, <3>1, <3>2, <3>3
    <2> QED BY Zenon, <2>1, <2>2
<1>2. /\ told' = [told EXCEPT !.calls = @ + 1] /\ UNCHANGED reader
      /\ \/ file' = Append(file, e) /\ log' = [l EXCEPT !.busy = e]
         \/ file' = file /\ log' = [l EXCEPT !.stuck = TRUE]
         \/ file' = Append(file, Cut) /\ log' = [l EXCEPT !.stuck = TRUE]
         \/ file' = file /\ log' = l
    <2>1. file \o <<>> = file /\ file \o <<Cut>> = Append(file, Cut)
        BY <1>0, EntryFacts
    <2> QED BY Zenon, <2>1 DEF AppendFlush
<1>3. e \in Entries /\ e # Cut /\ e # <<>> /\ e[1] = l.commitIdx + 1
    <2>1. l.commitIdx \in Nat /\ told.calls \in Nat
        BY Zenon, <1>0 DEF AnswerInv, Types, ToldType, LogType
    <2> QED BY Zenon, <2>1, NewEntry
<1> HIDE DEF l, e
<1>4. /\ reader' = reader /\ told'.acked = told.acked
      /\ told' \in ToldType
    <2>1. told \in ToldType /\ told.calls + 1 \in Nat
        BY DEF AnswerInv, Types, ToldType
    <2>2. reader' = reader /\ told' = [told EXCEPT !.calls = told.calls + 1]
        BY Zenon, <1>2
    <2> QED BY Zenon, <2>1, <2>2 DEF ToldType
<1>5. /\ log' \in LogType /\ log'.open /\ log'.commitIdx = l.commitIdx
      /\ log'.busy = <<>> \/ (log'.busy = e /\ file' = Append(file, e))
    BY Zenon, <1>0, <1>2, <1>3 DEF LogType
<1>6. /\ file' \in Seq(Entries) /\ Len(file') \in {Len(file), Len(file) + 1}
      /\ \A j \in 1 .. Len(file) : file'[j] = file[j]
      /\ Len(file') = Len(file) + 1 => file'[Len(file) + 1] \in {e, Cut}
    <2>1. ASSUME NEW x \in Entries, file' = Append(file, x)
          PROVE  /\ file' \in Seq(Entries) /\ Len(file') = Len(file) + 1
                 /\ \A j \in 1 .. Len(file) : file'[j] = file[j]
                 /\ file'[Len(file) + 1] = x
        BY <1>0, <2>1, Appended
    <2>2. CASE file' = file
        BY <1>0, <2>2
    <2>3. CASE file' = Append(file, e)
        BY Zenon, <1>3, <2>1, <2>3
    <2>4. CASE file' = Append(file, Cut)
        BY Zenon, EntryFacts, <2>1, <2>4
    <2> QED BY Zenon, <1>2, <2>2, <2>3, <2>4
<1>7. Types'
    BY Zenon, <1>4, <1>5, <1>6 DEF AnswerInv, Types
<1>8. Placed'
    <2>1. ASSUME NEW j \in 1 .. Len(file') PROVE file'[j][1] <= j
        <3>1. CASE j \in 1 .. Len(file)
            BY Zenon, <1>0, <1>6, <3>1
        <3>2. CASE j = Len(file) + 1 /\ Len(file') = Len(file) + 1
            BY <1>0, <1>3, <1>6, <3>2, EntryFacts
        <3> QED BY <1>0, <1>6, <3>1, <3>2
    <2>2. CASE log'.busy = <<>>
        BY <1>0, <1>5, <1>6, <2>1, <2>2 DEF Placed
    <2>3. CASE log'.busy = e /\ file' = Append(file, e)
        <3>1. Len(file') = Len(file) + 1 /\ file'[Len(file')] = e
            BY <1>0, <1>3, <2>3, Appended
        <3> QED BY <1>0, <1>3, <1>5, <2>1, <2>3, <3>1 DEF Placed
    <2> QED BY Zenon, <1>5, <2>2, <2>3
<1>9. Answered'
    <2>1. Untorn(file') => Untorn(file)
        BY <1>0, <1>6 DEF Untorn
    <2>2. \A j \in 1 .. Len(file) : j \in 1 .. Len(file') /\ file'[j] = file[j]
        BY <1>0, <1>6
    <2> QED BY <1>1, <1>4, <1>5, <2>1, <2>2 DEF AnswerInv, Answered
<1> QED BY Zenon, <1>7, <1>8, <1>9 DEF AnswerInv

LEMMA SyncAnswers ==
    ASSUME AnswerInv, AppendSync
    PROVE  AnswerInv'
<1> DEFINE b == log.busy
<1>0. /\ b \in Entries /\ log.open /\ b[1] = log.commitIdx + 1 /\ log \in LogType
      /\ log.commitIdx \in Nat /\ log.commitIdx < Len(file) /\ Len(file) \in Nat
      /\ Len(file) > 0 /\ file[Len(file)] = b /\ file \in Seq(Entries)
      /\ told.acked \in Seq(Entries) /\ UNCHANGED <<file, reader>>
      /\ \A j \in 1 .. Len(file) : file[j][1] <= j
    <2>1. log.busy # <<>> /\ UNCHANGED <<file, reader>>
        BY Zenon DEF AppendSync
    <2>2. log \in LogType /\ file \in Seq(Entries) /\ told.acked \in Seq(Entries)
        BY Zenon DEF AnswerInv, Types, ToldType
    <2> QED BY <2>1, <2>2 DEF AnswerInv, LogType, Placed
<1>1. \/ log' = [log EXCEPT !.busy = <<>>, !.commitIdx = b[1]] /\ told' = [told EXCEPT !.acked = Append(@, b)]
      \/ log' = [log EXCEPT !.busy = <<>>] /\ told' = told
    BY Zenon DEF AppendSync
<1> HIDE DEF b
<1>2. /\ log' \in LogType /\ log'.open /\ log'.busy = <<>>
      /\ \/ log'.commitIdx = log.commitIdx + 1 /\ told'.acked = Append(told.acked, b)
         \/ log'.commitIdx = log.commitIdx /\ told'.acked = told.acked
    <2>1. /\ log' \in LogType /\ log'.open /\ log'.busy = <<>>
          /\ \/ log'.commitIdx = log.commitIdx + 1 /\ told' = [told EXCEPT !.acked = Append(@, b)]
             \/ log'.commitIdx = log.commitIdx /\ told' = told
        <3>1. b[1] \in Nat
            BY Zenon, <1>0, EntryFacts
        <3>2. CASE log' = [log EXCEPT !.busy = <<>>] /\ told' = told
            BY Zenon, <1>0, <3>2 DEF LogType
        <3>3. CASE /\ log' = [log EXCEPT !.busy = <<>>, !.commitIdx = b[1]]
                   /\ told' = [told EXCEPT !.acked = Append(@, b)]
            BY Zenon, <1>0, <3>1, <3>3 DEF LogType
        <3> QED BY Zenon, <1>1, <3>2, <3>3
    <2> QED BY Zenon, <2>1 DEF AnswerInv, Types, ToldType
<1>3. told' \in ToldType
    <2>1. Append(told.acked, b) \in Seq(Entries) /\ told \in ToldType
        BY Zenon, <1>0, Appended DEF AnswerInv, Types
    <2> QED BY Zenon, <1>1, <2>1 DEF ToldType
<1>4. Types'
    BY Zenon, <1>0, <1>2, <1>3 DEF AnswerInv, Types
<1>5. Placed'
    BY <1>0, <1>2 DEF Placed
<1>6. Answered'
    <2>1. CASE log'.commitIdx = log.commitIdx /\ told'.acked = told.acked
        BY <1>0, <1>2, <2>1 DEF AnswerInv, Answered
    <2>2. CASE log'.commitIdx = log.commitIdx + 1 /\ told'.acked = Append(told.acked, b)
        <3> DEFINE k == Len(told.acked)
        <3>1. /\ k \in Nat /\ Len(told'.acked) = k + 1 /\ told'.acked[k + 1] = b
              /\ \A j \in 1 .. k : told'.acked[j] = told.acked[j]
            BY <1>0, <2>2, Appended
        <3>2. \A j \in 1 .. k : told.acked[j][1] \in Nat
            BY Zenon, <1>0, InSeq, EntryFacts
        <3> SUFFICES ASSUME Untorn(file)
                     PROVE  /\ \A j \in 1 .. k + 1 : \E i \in 1 .. Len(file) : told'.acked[j] = file[i]
                            /\ \A j \in 1 .. k : told'.acked[j][1] < told'.acked[j + 1][1]
                            /\ \A j \in 1 .. k + 1 : told'.acked[j][1] <= log'.commitIdx
            <4>1. k + 1 - 1 = k
                BY <3>1
            <4> HIDE DEF k
            <4> QED BY <1>0, <3>1, <4>1 DEF Answered
        <3>3. /\ \A j \in 1 .. k : \E i \in 1 .. Len(file) : told.acked[j] = file[i]
              /\ \A j \in 1 .. k - 1 : told.acked[j][1] < told.acked[j + 1][1]
              /\ \A j \in 1 .. k : told.acked[j][1] <= log.commitIdx
            BY Zenon, <1>0 DEF AnswerInv, Answered
        <3> HIDE DEF k
        <3>4. Len(file) \in 1 .. Len(file)
            BY <1>0
        <3>5. ASSUME NEW j \in 1 .. k + 1
              PROVE  /\ \E i \in 1 .. Len(file) : told'.acked[j] = file[i]
                     /\ told'.acked[j][1] <= log'.commitIdx
            <4>1. CASE j = k + 1
                BY <1>0, <2>2, <3>1, <3>4, <4>1
            <4>2. CASE j \in 1 .. k
                <5>1. told'.acked[j] = told.acked[j] /\ told.acked[j][1] \in Nat
                    BY Zenon, <3>1, <3>2, <4>2
                <5>2. told.acked[j][1] <= log.commitIdx
                    BY Zenon, <3>3, <4>2
                <5>3. \E i \in 1 .. Len(file) : told.acked[j] = file[i]
                    BY Zenon, <3>3, <4>2
                <5> QED BY <1>0, <2>2, <5>1, <5>2, <5>3
            <4> QED BY <3>1, <4>1, <4>2
        <3>6. ASSUME NEW j \in 1 .. k
              PROVE  told'.acked[j][1] < told'.acked[j + 1][1]
            <4>1. CASE j = k
                <5>1. told'.acked[j] = told.acked[j] /\ told'.acked[j + 1] = b
                    BY Zenon, <3>1, <4>1
                <5>2. told.acked[j][1] \in Nat /\ told.acked[j][1] <= log.commitIdx
                    BY Zenon, <3>2, <3>3
                <5> QED BY <1>0, <5>1, <5>2
            <4>2. CASE j \in 1 .. k - 1
                <5>1. j \in 1 .. k /\ j + 1 \in 1 .. k
                    BY <3>1, <4>2
                <5> QED BY Zenon, <3>1, <3>3, <4>2, <5>1
            <4> QED BY <3>1, <4>1, <4>2
        <3> QED BY Zenon, <3>5, <3>6
    <2> QED BY Zenon, <1>2, <2>1, <2>2
<1> QED BY <1>4, <1>5, <1>6 DEF AnswerInv

LEMMA CrashAnswers ==
    ASSUME AnswerInv, BucketCrash
    PROVE  AnswerInv'
<1>0. /\ file \in Seq(Entries) /\ Len(file) \in Nat
      /\ \A j \in 1 .. Len(file) : file[j] \in Entries /\ file[j][1] <= j
    BY InSeq DEF AnswerInv, Types, Placed
<1>1. /\ log' = [open |-> FALSE, commitIdx |-> 0, stuck |-> FALSE, busy |-> <<>>]
      /\ reader' = [lastApplied |-> 0, from |-> 1, pos |-> 0]
      /\ told' = [told EXCEPT !.applied = <<>>, !.crashes = @ + 1]
    BY Zenon DEF BucketCrash
<1>2. told' \in ToldType /\ told'.acked = told.acked
    <2>1. told \in ToldType /\ told.crashes + 1 \in Nat /\ <<>> \in Seq(Entries)
        BY DEF AnswerInv, Types, ToldType
    <2> QED BY Zenon, <1>1, <2>1 DEF ToldType
<1>3. log' \in LogType /\ reader' \in ReaderType
    BY <1>1 DEF LogType, ReaderType
<1>4. CASE file' = file
    BY <1>0, <1>1, <1>2, <1>3, <1>4 DEF AnswerInv, Types, Placed, Answered
<1>5. CASE file' = Append(SubSeq(file, 1, Len(file) - 1), Cut) /\ log.busy # <<>>
    <2>1. Len(file) > 0
        BY Zenon, <1>5 DEF AnswerInv, Placed
    <2>2. /\ SubSeq(file, 1, Len(file) - 1) \in Seq(Entries) /\ Len(SubSeq(file, 1, Len(file) - 1)) = Len(file) - 1
          /\ \A j \in 1 .. Len(file) - 1 : SubSeq(file, 1, Len(file) - 1)[j] = file[j]
        <3> DEFINE k == Len(file) - 1
        <3>1. k \in 0 .. Len(file) /\ SubSeq(file, 1, Len(file) - 1) = SubSeq(file, 1, k)
            BY <1>0, <2>1
        <3> HIDE DEF k
        <3>2. SubSeq(file, 1, k) \in Seq(Entries) /\ Len(SubSeq(file, 1, k)) = k
            BY <1>0, <3>1
        <3>3. \A j \in 1 .. k : SubSeq(file, 1, k)[j] = file[j]
            BY <1>0, <3>1
        <3> QED BY Zenon, <3>1, <3>2, <3>3 DEF k
    <2>3. /\ file' \in Seq(Entries) /\ Len(file') = Len(file) /\ file'[Len(file)] = Cut
          /\ \A j \in 1 .. Len(file) - 1 : file'[j] = file[j]
        <3> DEFINE f == SubSeq(file, 1, Len(file) - 1)
        <3>1. /\ Append(f, Cut) \in Seq(Entries) /\ Len(Append(f, Cut)) = Len(f) + 1
              /\ Append(f, Cut)[Len(f) + 1] = Cut
              /\ \A j \in 1 .. Len(f) : Append(f, Cut)[j] = f[j]
            BY <2>2, EntryFacts, Appended
        <3> HIDE DEF f
        <3>2. file' = Append(f, Cut) /\ Len(f) = Len(file) - 1
            BY Zenon, <1>5, <2>2 DEF f
        <3>3. \A j \in 1 .. Len(file) - 1 : f[j] = file[j]
            BY Zenon, <2>2 DEF f
        <3> QED BY <1>0, <2>1, <3>1, <3>2, <3>3
    <2>4. \A j \in 1 .. Len(file') : file'[j][1] <= j
        <3> SUFFICES ASSUME NEW j \in 1 .. Len(file') PROVE file'[j][1] <= j
            BY Zenon
        <3>1. CASE j = Len(file)
            BY <1>0, <2>1, <2>3, <3>1, EntryFacts
        <3>2. CASE j \in 1 .. Len(file) - 1
            BY Zenon, <1>0, <2>3, <3>2
        <3> QED BY <1>0, <2>3, <3>1, <3>2
    <2>5. ~Untorn(file')
        BY <1>0, <2>1, <2>3 DEF Untorn
    <2>6. Placed'
        BY <1>0, <1>1, <2>3, <2>4 DEF Placed
    <2> QED BY Zenon, <1>2, <1>3, <2>3, <2>5, <2>6 DEF AnswerInv, Types, Answered
<1> QED BY Zenon, <1>4, <1>5 DEF BucketCrash

\* A reader may open the bucket, as an append does.
LEMMA ReadAnswers ==
    ASSUME AnswerInv, BucketRead
    PROVE  AnswerInv'
<1>0. file' = file /\ file \in Seq(Entries) /\ Len(file) \in Nat
    BY DEF BucketRead, ReadStart, ReadEntry, ReadEnd, AnswerInv, Types
<1>1. CASE ReadStart
    <2> DEFINE l == openBucket(log, file)
    <2>1. /\ log' = l /\ told' = told
          /\ reader' = [reader EXCEPT !.pos = 1, !.from = reader.lastApplied + 1]
        BY Zenon, <1>1 DEF ReadStart
    <2>2. reader' \in ReaderType
        <3>1. reader \in ReaderType /\ reader.lastApplied + 1 \in Nat \ {0}
            BY DEF AnswerInv, Types, ReaderType
        <3> QED BY Zenon, <2>1, <3>1 DEF ReaderType
    <2>3. CASE log.open
        <3>1. l = log
            BY <2>3, OpenFacts DEF AnswerInv
        <3> QED BY Zenon, <1>0, <2>1, <2>2, <3>1 DEF AnswerInv, Types, Placed, Answered
    <2>4. CASE ~log.open
        <3>1. log.busy = <<>>
            BY Zenon, <2>4 DEF AnswerInv, Placed
        <3>2. l \in LogType /\ l.open /\ l.busy = <<>> /\ l.commitIdx <= Len(file)
            BY <3>1, OpenFacts DEF AnswerInv
        <3>3. \A k \in 1 .. Len(Scan(file)) : file[k][1] <= l.commitIdx
            BY Zenon, <2>4, OpenFacts DEF AnswerInv
        <3> HIDE DEF l
        <3>4. Types'
            BY Zenon, <1>0, <2>1, <2>2, <3>2 DEF AnswerInv, Types
        <3>5. Placed'
            BY Zenon, <1>0, <2>1, <3>2 DEF AnswerInv, Placed
        <3>6. Untorn(file) => Len(Scan(file)) = Len(file)
            BY <1>0, ScanIs DEF Untorn
        <3>7. Answered'
            BY Zenon, <1>0, <2>1, <3>3, <3>6 DEF AnswerInv, Answered
        <3> QED BY <3>4, <3>5, <3>7 DEF AnswerInv
    <2> QED BY Zenon, <2>3, <2>4
<1>2. CASE ReadEntry
    <2>1. reader.pos \in 1 .. Len(file) /\ file[reader.pos] \in Entries /\ log' = log
        BY <1>0, <1>2, ScanFacts, InSeq DEF ReadEntry, AnswerInv, Types, ReaderType
    <2>2. /\ \/ reader' = [reader EXCEPT !.pos = @ + 1]
             \/ reader' = [reader EXCEPT !.pos = @ + 1, !.lastApplied = file[reader.pos][1]]
          /\ told' = told \/ told' = [told EXCEPT !.applied = Append(@, file[reader.pos])]
        BY Zenon, <1>2 DEF ReadEntry
    <2>3. file[reader.pos][1] \in Nat
        BY Zenon, <2>1, EntryFacts
    <2>4. reader' \in ReaderType
        <3>1. reader \in ReaderType /\ reader.pos + 1 \in Nat
            BY DEF AnswerInv, Types, ReaderType
        <3> QED BY Zenon, <2>2, <2>3, <3>1 DEF ReaderType
    <2>5. told' \in ToldType /\ told'.acked = told.acked
        <3>1. told \in ToldType /\ Append(told.applied, file[reader.pos]) \in Seq(Entries)
            BY Zenon, <2>1, Appended DEF AnswerInv, Types, ToldType
        <3> QED BY Zenon, <2>2, <3>1 DEF ToldType
    <2> QED BY Zenon, <1>0, <2>1, <2>4, <2>5 DEF AnswerInv, Types, Placed, Answered
<1>3. CASE ReadEnd
    BY Zenon, <1>3 DEF ReadEnd, AnswerInv, Types, ReaderType, Placed, Answered
<1> QED BY Zenon, <1>1, <1>2, <1>3 DEF BucketRead

LEMMA AnswerStep == AnswerInv /\ [BucketNext]_bvars => AnswerInv'
<1> SUFFICES ASSUME AnswerInv, [BucketNext]_bvars PROVE AnswerInv'
    BY Zenon
<1>1. CASE UNCHANGED bvars
    BY Zenon, <1>1 DEF bvars, AnswerInv, Types, Placed, Answered
<1> QED BY Zenon, <1>1, FlushAnswers, SyncAnswers, ReadAnswers, CrashAnswers DEF BucketNext

\* file_bucket_log.go Append and openBucket: the indices answered with count up,
\* through crashes, failed writes and failed fsyncs, as long as no entry is torn,
\* and what was answered is in the file.
THEOREM AnswersGrow == BucketSpec => []AnswersCountUp
<1>1. AnswerInv => AnswersCountUp
    <2> SUFFICES ASSUME AnswerInv, Cut \notin Range(file) PROVE
            /\ \A j \in 1 .. Len(told.acked) - 1 : told.acked[j][1] < told.acked[j + 1][1]
            /\ Range(told.acked) \subseteq Range(Scan(file))
        BY Zenon DEF AnswersCountUp
    <2>1. file \in Seq(Entries) /\ told.acked \in Seq(Entries)
        BY Zenon DEF AnswerInv, Types, ToldType
    <2>2. Untorn(file)
        BY <2>1, InSeq DEF Untorn
    <2>3. /\ Scan(file) \in Seq(Entries) /\ Len(Scan(file)) = Len(file)
          /\ \A i \in 1 .. Len(file) : Scan(file)[i] = file[i]
        BY <2>1, <2>2, ScanIs, ScanFacts DEF Untorn
    <2>4. ASSUME NEW x \in Range(told.acked) PROVE x \in Range(Scan(file))
        <3>1. PICK j \in 1 .. Len(told.acked) : told.acked[j] = x
            BY <2>1, InSeq
        <3>2. PICK i \in 1 .. Len(file) : told.acked[j] = file[i]
            BY Zenon, <2>2 DEF AnswerInv, Answered
        <3> QED BY Zenon, <2>3, <3>1, <3>2, InSeq
    <2> QED BY Zenon, <2>2, <2>4 DEF AnswerInv, Answered
<1> QED BY <1>1, AnswerInit, AnswerStep, PTL DEF BucketSpec

-----------------------------------------------------------------------------
\* Without a failed fsync the file counts 1, 2, ... as far as it reads, and while
\* it has no torn entry the next index continues it.
Counting ==
    /\ \A j \in 1 .. Len(Scan(file)) : file[j][1] = j
    /\ Untorn(file) /\ log.open =>
           log.commitIdx = IF log.busy = <<>> THEN Len(file) ELSE Len(file) - 1

\* The loop has applied what it has read, from where it started.
ReadingSegs ==
    /\ Len(told.applied) = reader.lastApplied
    /\ \A j \in 1 .. Len(told.applied) : told.applied[j][1] = j
    /\ reader.pos > 0 => IF reader.pos <= reader.from THEN reader.lastApplied = reader.from - 1
                         ELSE reader.lastApplied = reader.pos - 1

ApplyInv == AnswerInv /\ ("fsync" \notin faults => Counting /\ ReadingSegs)

\* The commit index a bucket opens with is the length of a file that counts.
LEMMA OpenCounts ==
    ASSUME AnswerInv, Counting, Untorn(file), log.busy = <<>>
    PROVE  openBucket(log, file).commitIdx = Len(file)
<1> DEFINE l == openBucket(log, file)
<1> SUFFICES l.commitIdx = Len(file)
    BY Zenon
<1>0. file \in Seq(Entries) /\ Len(file) \in Nat
    BY DEF AnswerInv, Types
<1>1. Len(Scan(file)) = Len(file)
    BY <1>0, ScanIs DEF Untorn
<1>2. CASE log.open
    <2>1. l = log
        BY Zenon, <1>2, OpenFacts DEF AnswerInv
    <2> QED BY Zenon, <1>2, <2>1 DEF Counting
<1>3. CASE ~log.open
    <2>1. /\ \A j \in 1 .. Len(file) : file[j][1] <= l.commitIdx
          /\ l.commitIdx <= Len(file) /\ l \in LogType
        BY Zenon, <1>1, <1>3, OpenFacts DEF AnswerInv
    <2>2. l.commitIdx \in Nat
        BY Zenon, <2>1 DEF LogType
    <2> HIDE DEF l
    <2>3. CASE Len(file) = 0
        BY <2>1, <2>2, <2>3
    <2>4. CASE Len(file) > 0
        <3>1. Len(file) \in 1 .. Len(file)
            BY <1>0, <2>4
        <3>2. file[Len(file)][1] = Len(file)
            BY Zenon, <1>1, <3>1 DEF Counting
        <3> QED BY <1>0, <2>1, <2>2, <3>1, <3>2
    <2> QED BY <1>0, <2>3, <2>4
<1> QED BY Zenon, <1>2, <1>3

LEMMA FlushCounts ==
    ASSUME AnswerInv, AnswerInv', Counting, ReadingSegs, AppendFlush
    PROVE  Counting' /\ ReadingSegs'
<1> DEFINE l == openBucket(log, file)
           e == <<l.commitIdx + 1, told.calls + 1>>
<1>0. /\ log.busy = <<>> /\ l \in LogType /\ l.open /\ l.busy = <<>> /\ l.commitIdx \in Nat
      /\ file \in Seq(Entries) /\ Len(file) \in Nat
    <2>1. log.busy = <<>>
        BY Zenon DEF AppendFlush
    <2>2. l \in LogType /\ l.open /\ l.busy = <<>>
        BY Zenon, <2>1, OpenFacts DEF AnswerInv
    <2> QED BY <2>1, <2>2 DEF AnswerInv, Types, LogType
<1>1. Untorn(file) => l.commitIdx = Len(file)
    BY Zenon, <1>0, OpenCounts
<1>2. /\ told' = [told EXCEPT !.calls = @ + 1] /\ UNCHANGED reader
      /\ \/ file' = Append(file, e) /\ log' = [l EXCEPT !.busy = e]
         \/ file' = file /\ log' = [l EXCEPT !.stuck = TRUE]
         \/ file' = Append(file, Cut) /\ log' = [l EXCEPT !.stuck = TRUE]
         \/ file' = file /\ log' = l
    <2>1. file \o <<>> = file /\ file \o <<Cut>> = Append(file, Cut)
        BY <1>0, EntryFacts
    <2> QED BY Zenon, <2>1 DEF AppendFlush
<1>3. e \in Entries /\ e # Cut /\ e # <<>> /\ e[1] = l.commitIdx + 1
    <2>1. l.commitIdx \in Nat /\ told.calls \in Nat
        BY Zenon, <1>0 DEF AnswerInv, Types, ToldType, LogType
    <2> QED BY Zenon, <2>1, NewEntry
<1> HIDE DEF l, e
<1>4. told'.applied = told.applied
    BY Zenon, <1>2 DEF AnswerInv, Types, ToldType
<1>5. ReadingSegs'
    BY Zenon, <1>2, <1>4 DEF ReadingSegs
<1> DEFINE n == Len(Scan(file))
<1>6. /\ n \in 0 .. Len(file) /\ \A j \in 1 .. n : file[j] # Cut /\ file[j][1] = j
      /\ n < Len(file) => file[n + 1] = Cut
    BY Zenon, <1>0, ScanFacts DEF Counting
<1> HIDE DEF n
<1>7. CASE file' = file
    <2>1. log'.open /\ log'.busy = <<>> /\ log'.commitIdx = l.commitIdx
        <3>1. \A x \in Entries : Append(file, x) # file
            BY <1>0
        <3>2. log' = l \/ log' = [l EXCEPT !.stuck = TRUE]
            BY Zenon, <1>2, <1>3, <1>7, <3>1
        <3> QED BY Zenon, <1>0, <3>2 DEF LogType
    <2> QED BY Zenon, <1>1, <1>5, <1>7, <2>1 DEF Counting
<1>8. CASE file' = Append(file, Cut) /\ log' = [l EXCEPT !.stuck = TRUE]
    <2>1. /\ file' \in Seq(Entries) /\ Len(file') = Len(file) + 1 /\ file'[Len(file) + 1] = Cut
          /\ \A j \in 1 .. Len(file) : file'[j] = file[j]
        BY <1>0, <1>8, EntryFacts, Appended
    <2>2. /\ n \in 0 .. Len(file') /\ \A j \in 1 .. n : file'[j] = file[j]
          /\ n < Len(file') => file'[n + 1] = Cut
        BY <1>0, <1>6, <2>1
    <2>a. \A j \in 1 .. n : file'[j] # Cut
        BY Zenon, <1>6, <2>2
    <2>3. Len(Scan(file')) = n
        BY Zenon, <2>1, <2>2, <2>a, ScanIs
    <2>4. ~Untorn(file')
        BY <1>0, <2>1 DEF Untorn
    <2> QED BY Zenon, <1>5, <1>6, <2>2, <2>3, <2>4 DEF Counting
<1>9. CASE file' = Append(file, e) /\ log' = [l EXCEPT !.busy = e]
    <2>0. log'.busy = e /\ log'.commitIdx = l.commitIdx
        BY Zenon, <1>0, <1>9 DEF LogType
    <2>1. /\ file' \in Seq(Entries) /\ Len(file') = Len(file) + 1 /\ file'[Len(file) + 1] = e
          /\ \A j \in 1 .. Len(file) : file'[j] = file[j]
        BY <1>0, <1>3, <1>9, Appended
    <2>2. CASE Untorn(file)
        <3>1. n = Len(file)
            BY <1>0, <2>2, ScanIs DEF Untorn, n
        <3>2. \A j \in 1 .. Len(file') : file'[j] # Cut /\ file'[j][1] = j
            BY <1>0, <1>1, <1>3, <1>6, <2>1, <2>2, <3>1
        <3>3. Len(Scan(file')) = Len(file')
            <4>1. PICK len \in Nat : len = Len(file') /\ len \in 0 .. len /\ ~(len < len)
                BY <1>0, <2>1
            <4>2. \A j \in 1 .. len : file'[j] # Cut
                BY Zenon, <3>2, <4>1
            <4> QED BY Zenon, <2>1, <4>1, <4>2, ScanIs
        <3> QED BY <1>0, <1>1, <1>3, <1>5, <2>0, <2>1, <2>2, <3>2, <3>3 DEF Counting
    <2>3. CASE ~Untorn(file)
        <3>1. n < Len(file)
            BY <1>0, <1>6, <2>3 DEF Untorn
        <3>2. /\ n \in 0 .. Len(file') /\ \A j \in 1 .. n : file'[j] = file[j]
              /\ file'[n + 1] = Cut
            BY SMTT(30), <1>0, <1>6, <2>1, <3>1
        <3>a. /\ \A j \in 1 .. n : file'[j] # Cut
              /\ n < Len(file') => file'[n + 1] = Cut
            BY Zenon, <1>6, <3>2
        <3>3. Len(Scan(file')) = n
            BY Zenon, <2>1, <3>2, <3>a, ScanIs
        <3>4. ~Untorn(file')
            BY <1>0, <1>6, <2>1, <3>1, <3>2 DEF Untorn
        <3> QED BY Zenon, <1>5, <1>6, <3>2, <3>3, <3>4 DEF Counting
    <2> QED BY Zenon, <2>2, <2>3
<1> QED BY Zenon, <1>2, <1>5, <1>7, <1>8, <1>9

LEMMA SyncCounts ==
    ASSUME AnswerInv, Counting, ReadingSegs, AppendSync, "fsync" \notin faults
    PROVE  Counting' /\ ReadingSegs'
<1>1. /\ log.busy # <<>> /\ UNCHANGED <<file, reader>>
      /\ log' = [log EXCEPT !.busy = <<>>, !.commitIdx = log.busy[1]]
      /\ told' = [told EXCEPT !.acked = Append(@, log.busy)]
    BY Zenon DEF AppendSync
<1>2. log'.busy = <<>> /\ log'.commitIdx = log.busy[1] /\ log'.open = log.open
    BY Zenon, <1>1 DEF AnswerInv, Types, LogType
<1>3. log.busy[1] = log.commitIdx + 1 /\ log.open /\ Len(file) \in Nat
    BY <1>1 DEF AnswerInv, Types, Placed
<1>4. Counting'
    BY <1>1, <1>2, <1>3 DEF Counting
<1>5. told'.applied = told.applied
    BY Zenon, <1>1 DEF AnswerInv, Types, ToldType
<1> QED BY Zenon, <1>1, <1>4, <1>5 DEF ReadingSegs

LEMMA ReadCounts ==
    ASSUME AnswerInv, Counting, ReadingSegs, BucketRead
    PROVE  Counting' /\ ReadingSegs'
<1>0. /\ file' = file /\ file \in Seq(Entries) /\ Len(file) \in Nat /\ reader \in ReaderType
      /\ told.applied \in Seq(Entries)
    BY DEF BucketRead, ReadStart, ReadEntry, ReadEnd, AnswerInv, Types, ToldType
<1>1. CASE ReadStart
    <2> DEFINE l == openBucket(log, file)
    <2>1. /\ log' = l /\ told' = told
          /\ reader' = [reader EXCEPT !.pos = 1, !.from = reader.lastApplied + 1]
        BY Zenon, <1>1 DEF ReadStart
    <2>2. ReadingSegs'
        BY <1>0, <2>1 DEF ReadingSegs, ReaderType
    <2>3. CASE log.open
        <3>1. l = log
            BY Zenon, <2>3, OpenFacts DEF AnswerInv
        <3> QED BY Zenon, <1>0, <2>1, <2>2, <3>1 DEF Counting
    <2>4. CASE ~log.open
        <3>1. log.busy = <<>>
            BY Zenon, <2>4 DEF AnswerInv, Placed
        <3>2. l.open /\ l.busy = <<>>
            BY Zenon, <3>1, OpenFacts DEF AnswerInv
        <3>3. Untorn(file) => l.commitIdx = Len(file)
            BY Zenon, <3>1, OpenCounts
        <3> HIDE DEF l
        <3> QED BY Zenon, <1>0, <2>1, <2>2, <3>2, <3>3 DEF Counting
    <2> QED BY Zenon, <2>3, <2>4
<1>2. CASE ReadEntry
    <2> DEFINE p == reader.pos
               e == file[p]
    <2>1. /\ p \in Nat /\ p > 0 /\ p <= Len(Scan(file)) /\ Len(Scan(file)) \in 0 .. Len(file)
          /\ log' = log /\ reader.from \in Nat \ {0} /\ reader.lastApplied \in Nat
        BY Zenon, <1>0, <1>2, ScanFacts DEF ReadEntry, ReaderType
    <2>2. e[1] = p /\ e \in Entries
        BY <1>0, <2>1, InSeq DEF Counting
    <2>3. Counting'
        BY Zenon, <1>0, <2>1 DEF Counting
    <2>4. CASE p < reader.from
        <3>1. reader' = [reader EXCEPT !.pos = p + 1] /\ told' = told
            BY Zenon, <1>2, <2>2, <2>4 DEF ReadEntry, Below
        <3>2. /\ reader'.pos = p + 1 /\ reader'.from = reader.from
              /\ reader'.lastApplied = reader.lastApplied
            BY Zenon, <1>0, <3>1 DEF ReaderType
        <3> QED BY <2>1, <2>3, <2>4, <3>1, <3>2 DEF ReadingSegs
    <2>5. CASE ~(p < reader.from)
        <3>1. /\ reader' = [reader EXCEPT !.pos = p + 1, !.lastApplied = p]
              /\ told' = [told EXCEPT !.applied = Append(@, e)]
            BY Zenon, <1>2, <2>2, <2>5 DEF ReadEntry, Below
        <3>2. reader'.pos = p + 1 /\ reader'.from = reader.from /\ reader'.lastApplied = p
            BY Zenon, <1>0, <3>1 DEF ReaderType
        <3>3. told'.applied = Append(told.applied, e)
            BY Zenon, <3>1 DEF AnswerInv, Types, ToldType
        <3>4. Len(told.applied) = p - 1 /\ \A j \in 1 .. p - 1 : told.applied[j][1] = j
            <4>1. reader.lastApplied = p - 1
                BY <2>1, <2>5 DEF ReadingSegs
            <4>2. Len(told.applied) = p - 1
                BY Zenon, <4>1 DEF ReadingSegs
            <4> QED BY Zenon, <4>2 DEF ReadingSegs
        <3> HIDE DEF e
        <3>5. /\ Len(told'.applied) = p /\ told'.applied[p] = e
              /\ \A j \in 1 .. p - 1 : told'.applied[j] = told.applied[j]
            <4>1. p - 1 + 1 = p
                BY <2>1
            <4> HIDE DEF p
            <4> QED BY <1>0, <2>2, <3>3, <3>4, <4>1, Appended
        <3> HIDE DEF p
        <3>6. \A j \in 1 .. p : told'.applied[j][1] = j
            BY SMTT(30), <2>1, <2>2, <3>4, <3>5
        <3> QED BY <2>1, <2>3, <2>5, <3>2, <3>5, <3>6 DEF ReadingSegs
    <2> QED BY Zenon, <2>4, <2>5
<1>3. CASE ReadEnd
    <2>1. log' = log /\ told' = told /\ reader' = [reader EXCEPT !.pos = 0]
        BY Zenon, <1>3 DEF ReadEnd
    <2>2. reader'.pos = 0 /\ reader'.lastApplied = reader.lastApplied
        BY Zenon, <1>0, <2>1 DEF ReaderType
    <2> QED BY <1>0, <2>1, <2>2 DEF Counting, ReadingSegs
<1> QED BY Zenon, <1>1, <1>2, <1>3 DEF BucketRead

LEMMA CrashCounts ==
    ASSUME AnswerInv, Counting, BucketCrash
    PROVE  Counting' /\ ReadingSegs'
<1>0. file \in Seq(Entries) /\ Len(file) \in Nat
    BY DEF AnswerInv, Types
<1>1. /\ log' = [open |-> FALSE, commitIdx |-> 0, stuck |-> FALSE, busy |-> <<>>]
      /\ reader' = [lastApplied |-> 0, from |-> 1, pos |-> 0]
      /\ told' = [told EXCEPT !.applied = <<>>, !.crashes = @ + 1]
    BY Zenon DEF BucketCrash
<1>2. told'.applied = <<>>
    BY Zenon, <1>1 DEF AnswerInv, Types, ToldType
<1>3. ReadingSegs'
    BY <1>1, <1>2 DEF ReadingSegs
<1>4. CASE file' = file
    BY Zenon, <1>1, <1>3, <1>4 DEF Counting
<1>5. CASE file' = Append(SubSeq(file, 1, Len(file) - 1), Cut) /\ log.busy # <<>>
    <2> DEFINE k == Len(file) - 1
    <2>1. k \in 0 .. Len(file) /\ SubSeq(file, 1, Len(file) - 1) = SubSeq(file, 1, k)
        BY <1>0, <1>5 DEF AnswerInv, Placed
    <2> HIDE DEF k
    <2>2. SubSeq(file, 1, k) \in Seq(Entries) /\ Len(SubSeq(file, 1, k)) = k
        BY <1>0, <2>1
    <2>3. \A j \in 1 .. k : SubSeq(file, 1, k)[j] = file[j]
        BY <1>0, <2>1
    <2>4. /\ file' \in Seq(Entries) /\ Len(file') = k + 1 /\ file'[k + 1] = Cut
          /\ \A j \in 1 .. k : file'[j] = file[j]
        BY <1>5, <2>1, <2>2, <2>3, EntryFacts, Appended
    <2> DEFINE n == Len(Scan(file))
               m == Len(Scan(file'))
    <2>5. /\ n \in 0 .. Len(file)
          /\ n < Len(file) => file[n + 1] = Cut
          /\ m \in 0 .. k + 1 /\ \A j \in 1 .. m : file'[j] # Cut
        BY Zenon, <1>0, <2>4, ScanFacts
    <2> HIDE DEF n, m
    <2>6. m <= k
        BY <2>1, <2>4, <2>5
    <2>7. m <= n
        <3> SUFFICES ASSUME n < m PROVE FALSE
            BY <2>5
        <3>1. n + 1 \in 1 .. m /\ n + 1 \in 1 .. k /\ n < Len(file)
            BY <1>0, <2>1, <2>5, <2>6
        <3> QED BY Zenon, <2>4, <2>5, <3>1
    <2>8. ASSUME NEW j \in 1 .. m PROVE file'[j][1] = j
        <3>1. j \in 1 .. k /\ j \in 1 .. n
            BY <1>0, <2>1, <2>5, <2>6, <2>7
        <3>2. file[j][1] = j
            BY Zenon, <3>1 DEF Counting, n
        <3> QED BY Zenon, <2>4, <3>1, <3>2
    <2>9. \A j \in 1 .. Len(Scan(file')) : file'[j][1] = j
        BY Zenon, <2>8 DEF m
    <2> QED BY Zenon, <1>1, <1>3, <2>9 DEF Counting
<1> QED BY Zenon, <1>4, <1>5 DEF BucketCrash

LEMMA ApplyStep == ApplyInv /\ [BucketNext]_bvars => ApplyInv'
<1> SUFFICES ASSUME ApplyInv, [BucketNext]_bvars PROVE ApplyInv'
    OBVIOUS
<1>1. AnswerInv /\ AnswerInv' /\ faults' = faults
    <2>1. faults' = faults
        BY Zenon DEF BucketNext, bvars, AppendFlush, AppendSync, BucketRead, ReadStart, ReadEntry,
               ReadEnd, BucketCrash
    <2> QED BY Zenon, <2>1, AnswerStep DEF ApplyInv
<1> SUFFICES ASSUME "fsync" \notin faults PROVE Counting' /\ ReadingSegs'
    BY Zenon, <1>1 DEF ApplyInv
<1>2. Counting /\ ReadingSegs
    BY Zenon DEF ApplyInv
<1>3. CASE UNCHANGED bvars
    BY Zenon, <1>2, <1>3 DEF bvars, Counting, ReadingSegs
<1> QED BY Zenon, <1>1, <1>2, <1>3, FlushCounts, SyncCounts, ReadCounts, CrashCounts DEF BucketNext

\* runtime.go Run over file_bucket_log.go Read: unless an fsync fails the loop
\* applies 1, 2, 3, ... with none left out or repeated, while appends run beside
\* it and through failed writes, torn entries and crashes.
THEOREM RunAppliesInOrder == BucketSpec => []AppliedInOrder
<1>1. BucketInit => ApplyInv
    <2> SUFFICES ASSUME BucketInit PROVE ApplyInv
        BY Zenon
    <2>1. file = <<>> /\ file \in Seq(Entries) /\ Len(file) = 0 /\ ~log.open
          /\ told.applied = <<>> /\ reader.lastApplied = 0 /\ reader.pos = 0
        BY DEF BucketInit
    <2>2. Len(Scan(file)) = 0
        <3>1. Len(Scan(file)) \in 0 .. Len(file)
            BY Zenon, <2>1, ScanFacts
        <3> QED BY <2>1, <3>1
    <2> QED BY <2>1, <2>2, AnswerInit DEF ApplyInv, Counting, ReadingSegs
<1>2. ApplyInv => AppliedInOrder
    BY Zenon DEF ApplyInv, ReadingSegs, AppliedInOrder
<1> QED BY <1>1, <1>2, ApplyStep, PTL DEF BucketSpec

(***************************************************************************)
(* The Forge WAL.                                                          *)
(***************************************************************************)
\* A record of natural numbers is one.
LEMMA RecordType ==
    /\ crashes \in Nat => \A i, s, a \in Nat : \A k \in Kinds :
          \A g \in Groups \cup {"none"} : Record(i, s, a, k, g) \in Records
    /\ NoRecord \in Records
    /\ \A r \in Records : /\ r.id \in Nat /\ r.seg \in Nat /\ r.at \in Nat /\ r.run \in Nat
                          /\ \A s \in Nat : [r EXCEPT !.seg = s] \in Records
                          /\ [r EXCEPT !.kind = "torn"] \in Records
BY Zenon DEF Record, Records, NoRecord, Kinds

\* The parts of an action that work under wl.mu keep their variables' types.
LEMMA FsyncType ==
    ASSUME LogTypeOK, NEW h \in Holders, NEW r \in Records, Fsync(h, r)
    PROVE  mu' \in [by : Holders, rec : Records] /\ synced' \subseteq disk
BY Zenon DEF LogTypeOK, Fsync, InSegment

LEMMA FsyncHolds == ASSUME NEW h, NEW r, Fsync(h, r) PROVE mu'.by = h /\ mu'.rec = r
BY Zenon DEF Fsync

LEMMA FreeType == Free \in [by : Holders, rec : Records] /\ Free.by = "none"
BY Zenon, RecordType DEF Free, Holders

LEMMA PersistType ==
    ASSUME RaftTypeOK, NEW h, PersistHS(h)
    PROVE  mu' \in [by : Holders, rec : Records] /\ hs' \in Nat /\ pendingHS' \in Nat
BY Zenon, FreeType DEF RaftTypeOK, PersistHS

LEMMA PrunerType ==
    /\ Resting \in Pruners
    /\ \A n, u \in Nat : \A c \in 0..4 : [target |-> n, calls |-> c, upto |-> u] \in Pruners
    /\ \A p \in Pruners : p.target \in Nat /\ p.calls \in 0..4 /\ p.upto \in Nat
BY DEF Resting, Pruners

LEMMA CalledType == ASSUME NEW p \in Pruners, p.calls > 0 PROVE Called(p) \in Pruners
<1>1. p.calls - 1 \in 0..4
  BY PrunerType
<1> QED BY Zenon, <1>1, PrunerType DEF Called

LEMMA CommandRecord == TypeOK => Command \in Records /\ Command.id = last + 1
                                 /\ Command.seg = seg /\ Command.at = lsn + 1
<1>1. TypeOK => last + 1 \in Nat /\ lsn + 1 \in Nat /\ seg \in Nat
  BY DEF TypeOK, LogTypeOK
<1>2. "command" \in Kinds /\ (TypeOK => crashes \in Nat)
  BY Zenon DEF Kinds, TypeOK, RaftTypeOK
<1>3. TypeOK => Command \in Records
  BY Zenon, <1>1, <1>2, RecordType DEF Command
<1> QED BY Zenon, <1>3 DEF Command, Record

LEMMA InitType == Init => TypeOK
<1> SUFFICES ASSUME Init PROVE TypeOK
  BY Zenon
<1>1. LogTypeOK
  BY Zenon, FreeType DEF Init, LogTypeOK
<1>2. ThreadTypeOK
  BY DEF Init, ThreadTypeOK
<1>3. RaftTypeOK
  BY PrunerType DEF Init, RaftTypeOK, RaftLogs
<1> QED BY Zenon, <1>1, <1>2, <1>3 DEF TypeOK

LEMMA CommandType ==
    ASSUME TypeOK, NEW t \in Threads
    PROVE  /\ LogCommand(t) => TypeOK'
           /\ LogCommandRotates(t) => TypeOK'
           /\ LogCommandRotated(t) => TypeOK'
           /\ LogCommandFails(t) => TypeOK'
<1> Command \in Records /\ Command.id \in Nat
  BY CommandRecord DEF TypeOK, LogTypeOK
<1> t \in Holders
  BY Zenon DEF Holders
<1> USE DEF TypeOK
<1>1. ASSUME LogCommand(t) PROVE TypeOK'
  <2>1. LogTypeOK'
    BY <1>1 DEF LogCommand, TakeLSN, Write, LogTypeOK
  <2>2. ThreadTypeOK'
    BY <1>1 DEF LogCommand, TakeLSN, Logged, Goto, LogTypeOK, ThreadTypeOK
  <2>3. RaftTypeOK'
    BY Zenon, <1>1 DEF LogCommand, RaftTypeOK, hsVars, raftVars
  <2> QED BY Zenon, <2>1, <2>2, <2>3
<1>2. ASSUME LogCommandRotates(t) PROVE TypeOK'
  <2>1. LogTypeOK'
    BY <1>2, FsyncType DEF LogCommandRotates, TakeLSN, LogTypeOK
  <2>2. ThreadTypeOK'
    BY <1>2 DEF LogCommandRotates, TakeLSN, LogTypeOK, ThreadTypeOK, threadVars
  <2>3. RaftTypeOK'
    BY Zenon, <1>2 DEF LogCommandRotates, RaftTypeOK, hsVars, raftVars
  <2> QED BY <2>1, <2>2, <2>3
<1>3. ASSUME LogCommandRotated(t) PROVE TypeOK'
  <2>1. mu.rec \in Records /\ seg + 1 \in Nat
    BY DEF LogTypeOK
  <2>2. [mu.rec EXCEPT !.seg = seg + 1] \in Records /\ mu.rec.id \in Nat
    BY Zenon, <2>1, RecordType
  <2>3. LogTypeOK'
    BY Zenon, <1>3, <2>1, <2>2, PersistType DEF LogCommandRotated, WriteNext, LogTypeOK
  <2>4. ThreadTypeOK'
    <3>1. /\ pc' \in [Threads -> {"idle", "sync", "wait", "lead"}]
          /\ mine' \in [Threads -> Nat]
      BY Zenon, <1>3, <2>2 DEF LogCommandRotated, Logged, Goto, ThreadTypeOK
    <3> QED BY Zenon, <1>3, <3>1 DEF LogCommandRotated, ThreadTypeOK
  <2>5. RaftTypeOK'
    BY Zenon, <1>3, PersistType DEF LogCommandRotated, RaftTypeOK, raftVars
  <2> QED BY <2>3, <2>4, <2>5
<1>4. ASSUME LogCommandFails(t) PROVE TypeOK'
  <2>1. last' \in Nat /\ lsn' \in Nat /\ lsn' >= lsn
    BY <1>4 DEF LogCommandFails, TakeLSN, LogTypeOK
  <2>2. LogTypeOK'
    BY Zenon, <1>4, <2>1, FreeType DEF LogCommandFails, SyncFails, LogTypeOK
  <2>3. ThreadTypeOK'
    <3>1. ok' \subseteq Nat
      BY Zenon, <1>4, <2>1 DEF LogCommandFails, ThreadTypeOK
    <3>2. durableLSN' \in 0..lsn'
      BY <1>4, <2>1 DEF LogCommandFails, ThreadTypeOK, LogTypeOK
    <3> QED BY Zenon, <1>4, <3>1, <3>2 DEF LogCommandFails, ThreadTypeOK
  <2>4. RaftTypeOK'
    BY Zenon, <1>4 DEF LogCommandFails, SyncFails, RaftTypeOK, hsVars, raftVars
  <2> QED BY <2>2, <2>3, <2>4
<1> QED BY Zenon, <1>1, <1>2, <1>3, <1>4

LEMMA SyncType == ASSUME TypeOK, NEW t \in Threads, Sync(t) PROVE TypeOK'
<1> t \in Holders /\ NoRecord \in Records
  BY Zenon, RecordType DEF Holders
<1> USE DEF TypeOK
<1>1. CASE SyncFast(t)
  <2>1. ThreadTypeOK'
    BY Zenon, <1>1 DEF SyncFast, Goto, Forget, ThreadTypeOK, logVars
  <2> QED BY Zenon, <1>1, <2>1 DEF SyncFast, LogTypeOK, RaftTypeOK, logVars, hsVars, raftVars
<1>2. CASE SyncWait(t)
  <2>1. ThreadTypeOK'
    BY Zenon, <1>2 DEF SyncWait, Goto, ThreadTypeOK, logVars
  <2> QED BY Zenon, <1>2, <2>1 DEF SyncWait, LogTypeOK, RaftTypeOK, logVars, hsVars, raftVars
<1>3. CASE SyncLead(t)
  <2>1. ThreadTypeOK'
    BY Zenon, <1>3 DEF SyncLead, Goto, ThreadTypeOK, logVars
  <2> QED BY Zenon, <1>3, <2>1 DEF SyncLead, LogTypeOK, RaftTypeOK, logVars, hsVars, raftVars
<1>4. CASE LeadSync(t)
  <2>1. LogTypeOK'
    BY Zenon, <1>4, FsyncType DEF LeadSync, LogTypeOK
  <2> QED BY Zenon, <1>4, <2>1 DEF LeadSync, ThreadTypeOK, RaftTypeOK, threadVars, hsVars, raftVars
<1>5. CASE LeadDone(t)
  <2>1. LogTypeOK'
    BY Zenon, <1>5, PersistType DEF LeadDone, LogTypeOK, logVars
  <2>2. /\ pc' \in [Threads -> {"idle", "sync", "wait", "lead"}]
        /\ mine' \in [Threads -> Nat] /\ ok' \subseteq Nat
        /\ leader' \in Threads \cup {"none"}
    BY Zenon, <1>5 DEF LeadDone, Wake, Forget, ThreadTypeOK
  <2>3. durableLSN' \in 0..lsn'
    BY <1>5 DEF LeadDone, LogTypeOK, logVars
  <2>4. RaftTypeOK'
    BY Zenon, <1>5, PersistType DEF LeadDone, RaftTypeOK, raftVars
  <2> QED BY Zenon, <2>1, <2>2, <2>3, <2>4 DEF ThreadTypeOK
<1>6. CASE LeadFails(t)
  <2>1. LogTypeOK'
    BY Zenon, <1>6, FreeType DEF LeadFails, SyncFails, LogTypeOK, logVars
  <2>2. ThreadTypeOK'
    BY Zenon, <1>6 DEF LeadFails, Wake, Forget, ThreadTypeOK, logVars
  <2>3. RaftTypeOK'
    BY Zenon, <1>6 DEF LeadFails, SyncFails, RaftTypeOK, hsVars, raftVars
  <2> QED BY Zenon, <2>1, <2>2, <2>3
<1> QED BY Zenon, <1>1, <1>2, <1>3, <1>4, <1>5, <1>6 DEF Sync

LEMMA TickerType ==
    ASSUME TypeOK
    PROVE  /\ TickSync \/ TimedRotation \/ (\E g \in Groups : PruneSync(g)) => TypeOK'
           /\ TickDone \/ TimedRotated \/ TickerFails => TypeOK'
<1> {"ticker", "rotator"} \cup Groups \subseteq Holders /\ NoRecord \in Records
  BY Zenon, RecordType DEF Holders
<1> USE DEF TypeOK
<1>1. ASSUME TickSync \/ TimedRotation \/ (\E g \in Groups : PruneSync(g)) PROVE TypeOK'
  <2>1. LogTypeOK'
    BY Zenon, <1>1, FsyncType DEF TickSync, TimedRotation, PruneSync, LogTypeOK
  <2> QED BY Zenon, <1>1, <2>1 DEF TickSync, TimedRotation, PruneSync, ThreadTypeOK, RaftTypeOK,
                            threadVars, hsVars, raftVars
<1>2. ASSUME TickDone \/ TimedRotated PROVE TypeOK'
  <2>1. LogTypeOK'
    BY <1>2, PersistType DEF TickDone, TimedRotated, LogTypeOK, logVars
  <2>2. RaftTypeOK'
    BY Zenon, <1>2, PersistType DEF TickDone, TimedRotated, RaftTypeOK, raftVars
  <2> QED BY Zenon, <1>2, <2>1, <2>2 DEF TickDone, TimedRotated, ThreadTypeOK, threadVars, logVars
<1>3. ASSUME TickerFails PROVE TypeOK'
  BY Zenon, <1>3, FreeType DEF TickerFails, SyncFails, LogTypeOK, ThreadTypeOK, RaftTypeOK,
                        logVars, threadVars, hsVars, raftVars
<1> QED BY Zenon, <1>1, <1>2, <1>3

\* Raft's view of group g: its record, and the record with one field replaced.
LEMMA RaftLogType ==
    ASSUME RaftTypeOK, NEW g \in Groups
    PROVE  /\ raftLog[g].index \in Nat /\ raftLog[g].commit \in Nat /\ raftLog[g].snap \in Nat
           /\ raftLog[g] \in RaftLogs /\ pruner[g] \in Pruners /\ floor[g] \in Nat
           /\ \A n \in Nat : /\ [raftLog EXCEPT ![g].index = n] \in [Groups -> RaftLogs]
                             /\ [raftLog EXCEPT ![g].commit = n] \in [Groups -> RaftLogs]
                             /\ [raftLog EXCEPT ![g].snap = n] \in [Groups -> RaftLogs]
                             /\ [raftLog[g] EXCEPT !.index = n] \in RaftLogs
           /\ \A p \in Pruners : [pruner EXCEPT ![g] = p] \in [Groups -> Pruners]
BY Zenon DEF RaftTypeOK, RaftLogs

LEMMA EntryRecord ==
    ASSUME TypeOK, NEW g \in Groups
    PROVE  /\ Entry(g) \in Records /\ Entry(g).id = last + 1 /\ Entry(g).seg = seg
           /\ Entry(g).at = raftLog[g].index + 1 /\ Entry(g).kind = "entry"
           /\ Entry(g).group = g /\ Entry(g).run = crashes
<1>0. raftLog[g].index \in Nat
  BY Zenon, RaftLogType DEF TypeOK
<1>1. last + 1 \in Nat /\ raftLog[g].index + 1 \in Nat /\ seg \in Nat /\ crashes \in Nat
  BY <1>0 DEF TypeOK, LogTypeOK, RaftTypeOK
<1>2. "entry" \in Kinds
  BY Zenon DEF Kinds
<1>3. Entry(g) \in Records
  BY Zenon, <1>1, <1>2, RecordType DEF Entry
<1> QED BY Zenon, <1>3 DEF Entry, Record

LEMMA EntryDoneType ==
    ASSUME RaftTypeOK, NEW g \in Groups, EntryDone(g)
    PROVE  /\ raftLog' \in [Groups -> RaftLogs]
           /\ raftLog'[g].index = raftLog[g].index + 1
           /\ \A h \in Groups : h # g => raftLog'[h] = raftLog[h]
<1>1. raftLog[g].index + 1 \in Nat
  BY RaftLogType
<1>2. raftLog' = [raftLog EXCEPT ![g].index = raftLog[g].index + 1]
  BY Zenon DEF EntryDone
<1>3. raftLog' \in [Groups -> RaftLogs]
  BY Zenon, <1>1, <1>2, RaftLogType
<1>4. \A h \in Groups : h # g => raftLog'[h] = raftLog[h]
  BY Zenon, <1>2 DEF RaftTypeOK
<1>5. raftLog'[g] = [raftLog[g] EXCEPT !.index = raftLog[g].index + 1]
  BY Zenon, <1>2 DEF RaftTypeOK
<1>6. raftLog'[g].index = raftLog[g].index + 1
  BY Zenon, <1>5, RaftLogType DEF RaftLogs
<1> QED BY Zenon, <1>3, <1>4, <1>6

LEMMA EntryType ==
    ASSUME TypeOK, NEW g \in Groups
    PROVE  /\ LogEntry(g) => TypeOK'
           /\ LogEntryRotates(g) => TypeOK'
           /\ LogEntryRotated(g) => TypeOK'
           /\ LogEntryFails(g) => TypeOK'
           /\ SkipEntry(g) => TypeOK'
<1> Entry(g) \in Records /\ g \in Holders
  BY Zenon, EntryRecord DEF Holders
<1> USE DEF TypeOK
<1>1. ASSUME LogEntry(g) PROVE TypeOK'
  <2>1. LogTypeOK'
    BY <1>1 DEF LogEntry, TakeEntry, Write, LogTypeOK
  <2>2. ThreadTypeOK'
    BY <1>1 DEF LogEntry, TakeEntry, LogTypeOK, ThreadTypeOK, threadVars
  <2>3. RaftTypeOK'
    BY Zenon, <1>1, EntryDoneType DEF LogEntry, RaftTypeOK, hsVars
  <2> QED BY Zenon, <2>1, <2>2, <2>3
<1>2. ASSUME LogEntryRotates(g) PROVE TypeOK'
  <2>1. LogTypeOK'
    BY <1>2, FsyncType DEF LogEntryRotates, TakeEntry, LogTypeOK
  <2>2. ThreadTypeOK'
    BY <1>2 DEF LogEntryRotates, TakeEntry, LogTypeOK, ThreadTypeOK, threadVars
  <2>3. RaftTypeOK'
    BY Zenon, <1>2 DEF LogEntryRotates, RaftTypeOK, hsVars, raftVars
  <2> QED BY Zenon, <2>1, <2>2, <2>3
<1>3. ASSUME LogEntryRotated(g) PROVE TypeOK'
  <2>1. mu.rec \in Records /\ seg + 1 \in Nat
    BY DEF LogTypeOK
  <2>2. [mu.rec EXCEPT !.seg = seg + 1] \in Records
    BY Zenon, <2>1, RecordType
  <2>3. LogTypeOK'
    BY Zenon, <1>3, <2>1, <2>2, PersistType DEF LogEntryRotated, WriteNext, LogTypeOK
  <2>4. ThreadTypeOK'
    BY Zenon, <1>3 DEF LogEntryRotated, ThreadTypeOK, threadVars
  <2>5. RaftTypeOK'
    BY Zenon, <1>3, PersistType, EntryDoneType DEF LogEntryRotated, RaftTypeOK
  <2> QED BY Zenon, <2>3, <2>4, <2>5
<1>4. ASSUME LogEntryFails(g) PROVE TypeOK'
  <2>1. last' \in Nat /\ lsn' \in Nat /\ lsn' >= lsn
    BY <1>4 DEF LogEntryFails, TakeEntry, LogTypeOK
  <2>2. LogTypeOK'
    BY Zenon, <1>4, <2>1, FreeType DEF LogEntryFails, SyncFails, LogTypeOK
  <2>3. ThreadTypeOK'
    BY <1>4, <2>1 DEF LogEntryFails, ThreadTypeOK, LogTypeOK, threadVars
  <2>4. RaftTypeOK'
    BY Zenon, <1>4, EntryDoneType DEF LogEntryFails, SyncFails, RaftTypeOK, hsVars
  <2> QED BY Zenon, <2>2, <2>3, <2>4
<1>5. ASSUME SkipEntry(g) PROVE TypeOK'
  <2>1. RaftTypeOK'
    BY Zenon, <1>5, EntryDoneType DEF SkipEntry, RaftTypeOK, hsVars
  <2> QED BY Zenon, <1>5, <2>1 DEF SkipEntry, LogTypeOK, ThreadTypeOK, logVars, threadVars
<1> QED BY Zenon, <1>1, <1>2, <1>3, <1>4, <1>5

LEMMA StageType ==
    ASSUME TypeOK, NEW g \in Groups, NEW k \in Nat, StageHardState(g, k) PROVE TypeOK'
<1>1. RaftTypeOK'
  BY Zenon, RaftLogType DEF TypeOK, StageHardState, RaftTypeOK
<1> QED BY Zenon, <1>1 DEF TypeOK, StageHardState, LogTypeOK, ThreadTypeOK, logVars, threadVars

\* What a snapshot of group g leaves: the floor does not fall, and the prune works
\* towards it or goes on with what it had.
LEMMA SnapshotFacts ==
    ASSUME RaftTypeOK, NEW g \in Groups, NEW f \in Nat, Snapshot(g, f)
    PROVE  /\ raftLog' \in [Groups -> RaftLogs]
           /\ floor' \in [Groups -> Nat] /\ \A h \in Groups : floor'[h] >= floor[h]
           /\ pruner' \in [Groups -> Pruners]
           /\ \A h \in Groups : \/ pruner'[h] = pruner[h]
                                \/ pruner'[h].target = floor'[h]
           /\ \A h \in Groups : raftLog'[h].index = raftLog[h].index
<1>1. floor' \in [Groups -> Nat] /\ \A h \in Groups : floor'[h] >= floor[h]
  BY DEF Snapshot, RaftTypeOK
<1>2. PICK p : p = [target |-> floor'[g], calls |-> 4, upto |-> 0]
  BY Zenon
<1>3. p \in Pruners /\ p.target = floor'[g]
  <2>1. floor'[g] \in Nat /\ 4 \in 0..4 /\ 0 \in Nat
    BY <1>1
  <2> QED BY Zenon, <1>2, <2>1, PrunerType
<1>4. \/ pruner' = [pruner EXCEPT ![g] = p]
      \/ pruner' = [pruner EXCEPT ![g] = pruner[g]]
  BY Zenon, <1>2 DEF Snapshot
<1>5. pruner[g] \in Pruners /\ raftLog[g].index \in Nat
  BY Zenon, RaftLogType
<1>6. pruner' \in [Groups -> Pruners]
  BY Zenon, <1>3, <1>4, <1>5, RaftLogType
<1>7. \A h \in Groups : pruner'[h] = pruner[h] \/ pruner'[h].target = floor'[h]
  BY Zenon, <1>3, <1>4 DEF RaftTypeOK
<1>8. raftLog' = [raftLog EXCEPT ![g].snap = raftLog[g].index]
  BY Zenon DEF Snapshot
<1>9. raftLog' \in [Groups -> RaftLogs] /\ \A h \in Groups : raftLog'[h].index = raftLog[h].index
  <2>1. raftLog' \in [Groups -> RaftLogs]
    BY Zenon, <1>5, <1>8, RaftLogType
  <2>2. \A h \in Groups : h # g => raftLog'[h] = raftLog[h]
    BY Zenon, <1>8 DEF RaftTypeOK
  <2>3. raftLog'[g] = [raftLog[g] EXCEPT !.snap = raftLog[g].index]
    BY Zenon, <1>8 DEF RaftTypeOK
  <2>4. raftLog'[g].index = raftLog[g].index
    BY Zenon, <2>3, RaftLogType DEF RaftLogs
  <2> QED BY Zenon, <2>1, <2>2, <2>4
<1> QED BY Zenon, <1>1, <1>6, <1>7, <1>9

\* A step of a prune of group g moves its own record, and not the index it prunes to.
LEMMA PrunerSteps ==
    ASSUME TypeOK, NEW g \in Groups, PruneList(g) \/ PruneRemove(g) \/ PruneFails(g)
    PROVE  /\ pruner' \in [Groups -> Pruners]
           /\ \A h \in Groups : h # g => pruner'[h] = pruner[h]
           /\ pruner'[g].target \in {pruner[g].target, 0}
<1> DEFINE p == pruner[g]
<1>0. p \in Pruners /\ seg \in Nat /\ p.calls > 0 /\ pruner \in [Groups -> Pruners]
  BY Zenon, RaftLogType DEF TypeOK, LogTypeOK, RaftTypeOK, PruneList, PruneRemove, PruneFails
<1>1. [p EXCEPT !.upto = seg] \in Pruners /\ [p EXCEPT !.upto = seg].target = p.target
  BY Zenon, <1>0 DEF Pruners
<1>2. Called(p) \in Pruners /\ Called(p).target \in {p.target, 0}
  <2>1. Called(p) \in Pruners
    BY Zenon, <1>0, CalledType
  <2> QED BY Zenon, <2>1 DEF Called, Resting
<1>3. Resting \in Pruners /\ Resting.target = 0
  BY Zenon, PrunerType DEF Resting
<1>4. PICK q \in {Called(p), Resting, [p EXCEPT !.upto = seg]} : pruner' = [pruner EXCEPT ![g] = q]
  BY Zenon DEF PruneList, PruneRemove, PruneFails
<1>5. q \in Pruners /\ q.target \in {p.target, 0}
  BY Zenon, <1>1, <1>2, <1>3, <1>4
<1> HIDE DEF p
<1> QED BY Zenon, <1>0, <1>4, <1>5 DEF p

LEMMA PruneType ==
    ASSUME TypeOK, NEW g \in Groups
    PROVE  /\ \A f \in Nat : Snapshot(g, f) => TypeOK'
           /\ PruneList(g) \/ PruneRemove(g) \/ PruneFails(g) => TypeOK'
<1> USE DEF TypeOK
<1>1. ASSUME NEW f \in Nat, Snapshot(g, f) PROVE TypeOK'
  <2>1. RaftTypeOK'
    BY Zenon, <1>1, SnapshotFacts DEF Snapshot, RaftTypeOK, hsVars
  <2> QED BY Zenon, <1>1, <2>1 DEF Snapshot, LogTypeOK, ThreadTypeOK, logVars, threadVars
<1>2. ASSUME PruneList(g) PROVE TypeOK'
  <2>1. LogTypeOK'
    BY Zenon, <1>2, PersistType DEF PruneList, LogTypeOK, logVars
  <2>2. RaftTypeOK'
    BY Zenon, <1>2, PrunerSteps, PersistType DEF PruneList, RaftTypeOK
  <2> QED BY Zenon, <1>2, <2>1, <2>2 DEF PruneList, ThreadTypeOK, threadVars, logVars
<1>3. ASSUME PruneRemove(g) PROVE TypeOK'
  <2>1. LogTypeOK'
    BY Zenon, <1>3 DEF PruneRemove, LogTypeOK
  <2>2. RaftTypeOK'
    BY Zenon, <1>3, PrunerSteps DEF PruneRemove, RaftTypeOK, hsVars
  <2> QED BY Zenon, <1>3, <2>1, <2>2 DEF PruneRemove, ThreadTypeOK, threadVars
<1>4. ASSUME PruneFails(g) PROVE TypeOK'
  <2>1. RaftTypeOK'
    BY Zenon, <1>4, PrunerSteps DEF PruneFails, SyncFails, RaftTypeOK, hsVars
  <2> QED BY Zenon, <1>4, <2>1, FreeType DEF PruneFails, SyncFails, LogTypeOK, ThreadTypeOK,
                                             logVars, threadVars
<1> QED BY Zenon, <1>1, <1>2, <1>3, <1>4

LEMMA CrashType == ASSUME TypeOK, Crash PROVE TypeOK'
<1> USE DEF TypeOK
<1>1. disk' \subseteq Records /\ synced' \subseteq disk'
  BY Zenon, RecordType DEF Crash, Survivors, LogTypeOK
<1>2. LogTypeOK'
  BY Zenon, <1>1, FreeType DEF Crash, LogTypeOK
<1>3. ThreadTypeOK'
  BY DEF Crash, ThreadTypeOK
<1>4. raftLog' \in [Groups -> RaftLogs]
  <2>1. \A g \in Groups : [raftLog[g] EXCEPT !.index = raftLog[g].snap] \in RaftLogs
    BY Zenon, RaftLogType
  <2> QED BY Zenon, <2>1 DEF Crash
<1>5. pruner' \in [Groups -> Pruners] /\ floor' \in [Groups -> Nat] /\ pendingHS' \in Nat
  BY PrunerType DEF Crash
<1>6. crashes' \in Nat
  BY DEF Crash, RaftTypeOK
<1>7. RaftTypeOK'
  BY Zenon, <1>4, <1>5, <1>6 DEF Crash, RaftTypeOK
<1> QED BY Zenon, <1>2, <1>3, <1>7

LEMMA StutterType == TypeOK /\ UNCHANGED vars => TypeOK'
BY Zenon DEF TypeOK, LogTypeOK, ThreadTypeOK, RaftTypeOK,
       vars, logVars, hsVars, threadVars, raftVars

\* The bounds of the raft steps of Next are natural numbers.
LEMMA Ranges ==
    ASSUME TypeOK
    PROVE  /\ \A k \in 1..setting.index : k \in Nat
           /\ \A g \in Groups : \A f \in 1..raftLog[g].index : f \in Nat
<1>1. setting.index \in Nat
  BY Zenon, ForgeAssumption DEF TypeOK, LogTypeOK
<1>2. \A g \in Groups : raftLog[g].index \in Nat
  BY Zenon, RaftLogType DEF TypeOK
<1>3. ASSUME NEW n \in Nat, NEW f \in 1..n PROVE f \in Nat
  OBVIOUS
<1> QED BY Zenon, <1>1, <1>2, <1>3

LEMMA NextType == ASSUME TypeOK, Next PROVE TypeOK'
BY Zenon, CommandType, SyncType, TickerType, EntryType, StageType, PruneType, CrashType, Ranges
   DEF Next, Release

\* Type correctness of the log: in particular no operation counts a record as fsynced
\* that is not in a file (PruneThrough takes both away), and durableLSN never runs
\* ahead of lsn (a restart resets both).
THEOREM ForgeTypeCorrect == Spec => []TypeOK
<1>1. TypeOK /\ [Next]_vars => TypeOK'
  <2> SUFFICES ASSUME TypeOK, Next PROVE TypeOK'
    BY Zenon, StutterType
  <2> QED BY Zenon, NextType
<1> QED BY <1>1, InitType, PTL DEF Spec

-----------------------------------------------------------------------------
(* Durable before OK.                                                      *)

\* The two circumstances in which the log loses an acknowledged command are left
\* out: raft prunes the segments that plain commands share, and a DURABLE SET is
\* answered although its append failed.
Apart == \A s \in Settings : ~(s.prune /\ s.commands) /\ ~(s.sets /\ s.appendFails)

\* Where no commands are logged no thread is in the log; where raft takes no
\* snapshots nothing prunes.
Quiet ==
    /\ setting.commands \/ (ok = {} /\ \A t \in Threads : pc[t] = "idle" /\ mu.by # t)
    /\ setting.prune \/ \A g \in Groups : pruner[g] = Resting

IInv == TypeOK /\ Frontier /\ AckedIsDurable /\ Quiet

\* The fsync of a sync covers every record there is, since the older segments were
\* synced when they were rotated out.
LEMMA FsyncStep ==
    ASSUME IInv, NEW h, NEW r, Fsync(h, r),
           UNCHANGED <<disk, seg, durableLSN, pc, mine, ok>>,
           lsn' \in Nat, lsn' >= lsn,
           h \in Threads /\ pc[h] = "idle" => r.at \in (durableLSN + 1)..lsn'
    PROVE  Frontier' /\ AckedIsDurable'
<1>1. synced \subseteq synced' /\ disk' \subseteq synced'
  BY Zenon DEF IInv, Frontier, TailUnsynced, Fsync, InSegment
<1>2. TailUnsynced'
  BY Zenon, <1>1 DEF TailUnsynced
<1>3. mu'.by = h /\ mu'.rec = r
  BY Zenon DEF Fsync
<1>4. \A q \in disk : q.at \in Nat
  BY Zenon, RecordType DEF IInv, TypeOK, LogTypeOK
<1>5. Waiting'
  BY <1>1, <1>3, <1>4 DEF IInv, TypeOK, LogTypeOK, Frontier, Waiting
<1>6. AckedIsDurable'
  BY Zenon, <1>1 DEF IInv, AckedIsDurable
<1> QED BY Zenon, <1>2, <1>5, <1>6 DEF Frontier

\* Releasing wl.mu disturbs nothing.
LEMMA FreeStep ==
    ASSUME IInv, mu' = Free, UNCHANGED <<disk, synced, seg, durableLSN, pc, mine, ok>>,
           lsn' \in Nat, lsn' >= lsn
    PROVE  Frontier' /\ AckedIsDurable'
<1>1. mu'.by = "none" /\ mu'.by \notin Threads
  BY Zenon, FreeType, ForgeAssumption
<1>2. TailUnsynced'
  BY Zenon, <1>1 DEF IInv, Frontier, TailUnsynced
<1>3. \A q \in disk : q.at \in Nat
  BY Zenon, RecordType DEF IInv, TypeOK, LogTypeOK
<1>4. Waiting'
  BY <1>1, <1>3 DEF IInv, TypeOK, LogTypeOK, Frontier, Waiting
<1>5. AckedIsDurable'
  BY Zenon DEF IInv, AckedIsDurable
<1> QED BY Zenon, <1>2, <1>4, <1>5 DEF Frontier

\* An append of n to the current segment, or to the next one after a sync; thread t,
\* if it logged n, may go on to Sync.
LEMMA AppendStep ==
    ASSUME IInv, NEW n \in Records, disk' = disk \cup {n}, mu' = Free, n.seg = seg',
           seg' = seg \/ mu.by # "none",
           UNCHANGED <<synced, durableLSN, ok>>, lsn' \in Nat, lsn' >= lsn,
           \A u \in Threads : \/ pc'[u] = pc[u] /\ mine'[u] = mine[u]
                              \/ mine'[u] = n.id /\ n.at \in (durableLSN + 1)..lsn'
    PROVE  Frontier' /\ AckedIsDurable'
<1>1. mu'.by = "none" /\ mu'.by \notin Threads
  BY Zenon, FreeType, ForgeAssumption
<1>2. TailUnsynced'
  BY Zenon, <1>1 DEF IInv, Frontier, TailUnsynced
<1>3. \A q \in disk' : q.at \in Nat
  BY Zenon, RecordType DEF IInv, TypeOK, LogTypeOK
<1>4. ASSUME NEW u \in Threads, pc'[u] # "idle"
      PROVE  \E r \in disk' : /\ r.id = mine'[u] /\ r.at <= lsn'
                              /\ r.at <= durableLSN' => r \in synced'
  <2>0. lsn \in Nat /\ durableLSN \in Nat
    BY DEF IInv, TypeOK, LogTypeOK, ThreadTypeOK
  <2>1. CASE pc'[u] = pc[u] /\ mine'[u] = mine[u]
    BY <1>3, <1>4, <2>0, <2>1 DEF IInv, Frontier, Waiting
  <2>2. CASE mine'[u] = n.id /\ n.at \in (durableLSN + 1)..lsn'
    BY <1>3, <2>0, <2>2
  <2> QED BY Zenon, <2>1, <2>2
<1>5. AckedIsDurable'
  BY Zenon DEF IInv, AckedIsDurable
<1> QED BY Zenon, <1>1, <1>2, <1>4, <1>5 DEF Frontier, Waiting

LEMMA CommandDurable ==
    ASSUME Apart, IInv, NEW t \in Threads
    PROVE  /\ LogCommand(t) => Frontier' /\ AckedIsDurable'
           /\ LogCommandRotates(t) => Frontier' /\ AckedIsDurable'
           /\ LogCommandRotated(t) => Frontier' /\ AckedIsDurable'
           /\ LogCommandFails(t) => Frontier' /\ AckedIsDurable'
<1>0. /\ lsn \in Nat /\ durableLSN \in 0..lsn /\ seg \in Nat
      /\ mine \in [Threads -> Nat] /\ DOMAIN pc = Threads
      /\ mu.rec \in Records
  BY Zenon DEF IInv, TypeOK, LogTypeOK, ThreadTypeOK
<1>c. Command \in Records /\ Command.id = last + 1 /\ Command.seg = seg /\ Command.at = lsn + 1
  BY Zenon, CommandRecord DEF IInv
<1>1. ASSUME LogCommand(t) PROVE Frontier' /\ AckedIsDurable'
  <2>1. /\ disk' = disk \cup {Command} /\ seg' = seg /\ mu' = Free /\ lsn' = lsn + 1
        /\ UNCHANGED <<synced, durableLSN, ok>>
    BY Zenon, <1>1 DEF LogCommand, TakeLSN, Write
  <2>2. \A u \in Threads : \/ pc'[u] = pc[u] /\ mine'[u] = mine[u]
                           \/ mine'[u] = Command.id
    BY Zenon, <1>0, <1>1 DEF LogCommand, Logged, Goto
  <2>3. Command.at \in (durableLSN + 1)..lsn'
    BY <1>0, <1>c, <2>1
  <2> QED BY <1>0, <1>c, <2>1, <2>2, <2>3, AppendStep
<1>2. ASSUME LogCommandRotates(t) PROVE Frontier' /\ AckedIsDurable'
  <2>1. /\ Fsync(t, Command) /\ lsn' = lsn + 1
        /\ UNCHANGED <<disk, seg, durableLSN, pc, mine, ok>>
    BY Zenon, <1>2 DEF LogCommandRotates, TakeLSN, threadVars
  <2>2. Command.at \in (durableLSN + 1)..lsn'
    BY <1>0, <1>c, <2>1
  <2> QED BY <1>0, <2>1, <2>2, FsyncStep
<1>3. ASSUME LogCommandRotated(t) PROVE Frontier' /\ AckedIsDurable'
  <2> DEFINE n == [mu.rec EXCEPT !.seg = seg + 1]
  <2>1. n \in Records /\ n.id = mu.rec.id /\ n.at = mu.rec.at /\ n.seg = seg + 1
    BY <1>0 DEF Records
  <2>2. /\ disk' = disk \cup {n} /\ seg' = seg + 1 /\ mu' = Free /\ lsn' = lsn
        /\ mu.by = t /\ UNCHANGED <<synced, durableLSN, ok>>
    BY Zenon, <1>3 DEF LogCommandRotated, PersistHS, WriteNext
  <2>3. n.at \in (durableLSN + 1)..lsn'
    BY Zenon, <1>3, <2>1, <2>2 DEF LogCommandRotated, IInv, Frontier, Waiting
  <2>4. \A u \in Threads : \/ pc'[u] = pc[u] /\ mine'[u] = mine[u]
                           \/ mine'[u] = n.id
    BY Zenon, <1>0, <1>3, <2>1 DEF LogCommandRotated, Logged, Goto
  <2>5. mu.by # "none"
    BY Zenon, <2>2, ForgeAssumption
  <2> HIDE DEF n
  <2> QED BY <1>0, <2>1, <2>2, <2>3, <2>4, <2>5, AppendStep
<1>4. ASSUME LogCommandFails(t) PROVE Frontier' /\ AckedIsDurable'
  <2>1. ok' = ok
    BY Zenon, <1>4 DEF LogCommandFails, Apart, IInv, TypeOK, LogTypeOK
  <2>2. lsn' \in Nat /\ lsn' >= lsn
    BY <1>0, <1>4 DEF LogCommandFails, TakeLSN
  <2> QED BY Zenon, <1>4, <2>1, <2>2, FreeStep DEF LogCommandFails, SyncFails
<1> QED BY Zenon, <1>1, <1>2, <1>3, <1>4

\* The steps of Sync: what a thread is told OK about is at or below durableLSN, or
\* was covered by its own fsync.
LEMMA SyncDurable ==
    ASSUME IInv, NEW t \in Threads, Sync(t) PROVE Frontier' /\ AckedIsDurable'
<1>0. /\ lsn \in Nat /\ durableLSN \in 0..lsn
      /\ mine \in [Threads -> Nat] /\ DOMAIN pc = Threads
      /\ "none" \notin Threads /\ Free.by = "none"
      /\ \A r \in disk : r.at \in Nat
  BY Zenon, RecordType, FreeType, ForgeAssumption DEF IInv, TypeOK, LogTypeOK, ThreadTypeOK
<1>1. CASE SyncFast(t)
  <2>1. /\ UNCHANGED <<disk, synced, seg, lsn, durableLSN, mu>> /\ mu = Free
        /\ ok' = ok \cup {mine[t]} /\ durableLSN >= lsn
    BY Zenon, <1>1 DEF SyncFast, logVars
  <2>2. \A u \in Threads : pc'[u] # "idle" => pc[u] # "idle" /\ mine'[u] = mine[u]
    BY Zenon, <1>0, <1>1 DEF SyncFast, Goto, Forget
  <2>3. \E r \in synced : r.id = mine[t]
    <3>1. PICK r \in disk : r.id = mine[t] /\ r.at <= lsn /\ (r.at <= durableLSN => r \in synced)
      BY Zenon, <1>1 DEF SyncFast, IInv, Frontier, Waiting
    <3> QED BY <1>0, <2>1, <3>1
  <2>4. AckedIsDurable'
    BY Zenon, <2>1, <2>3 DEF IInv, AckedIsDurable
  <2> QED BY Zenon, <1>0, <2>1, <2>2, <2>4 DEF IInv, Frontier, TailUnsynced, Waiting
<1>2. CASE SyncWait(t) \/ SyncLead(t)
  <2>1. UNCHANGED <<disk, synced, seg, lsn, durableLSN, mu, mine, ok>> /\ mu = Free
    BY Zenon, <1>2 DEF SyncWait, SyncLead, logVars
  <2>2. \A u \in Threads : pc'[u] # "idle" => pc[u] # "idle"
    BY Zenon, <1>0, <1>2 DEF SyncWait, SyncLead, Goto
  <2> QED BY Zenon, <1>0, <2>1, <2>2 DEF IInv, Frontier, TailUnsynced, Waiting, AckedIsDurable
<1>3. CASE LeadSync(t)
  BY <1>0, <1>3, FsyncStep DEF LeadSync, threadVars
<1>4. CASE LeadDone(t)
  <2>1. /\ UNCHANGED <<disk, synced, seg, lsn>> /\ mu' = Free /\ mu.by = t
        /\ ok' = ok \cup {mine[t]} /\ durableLSN' = lsn
    BY Zenon, <1>4 DEF LeadDone, PersistHS, logVars
  <2>2. \A u \in Threads : pc'[u] # "idle" => pc[u] # "idle" /\ mine'[u] = mine[u]
    BY Zenon, <1>0, <1>4 DEF LeadDone, Wake, Forget
  <2>3. disk \subseteq synced
    BY Zenon, <1>0, <2>1 DEF IInv, Frontier, TailUnsynced
  <2>4. AckedIsDurable'
    BY Zenon, <1>4, <2>1, <2>3 DEF LeadDone, IInv, Frontier, Waiting, AckedIsDurable
  <2> QED BY Zenon, <1>0, <2>1, <2>2, <2>3, <2>4 DEF IInv, Frontier, TailUnsynced, Waiting
<1>5. CASE LeadFails(t)
  <2>1. UNCHANGED <<disk, synced, seg, lsn, durableLSN, ok>> /\ mu' = Free
    BY Zenon, <1>5 DEF LeadFails, SyncFails, logVars
  <2>2. \A u \in Threads : pc'[u] # "idle" => pc[u] # "idle" /\ mine'[u] = mine[u]
    BY Zenon, <1>0, <1>5 DEF LeadFails, Wake, Forget
  <2> QED BY Zenon, <1>0, <2>1, <2>2 DEF IInv, Frontier, TailUnsynced, Waiting, AckedIsDurable
<1> QED BY Zenon, <1>1, <1>2, <1>3, <1>4, <1>5 DEF Sync

LEMMA TickerDurable ==
    ASSUME IInv
    PROVE  /\ TickSync \/ TimedRotation => Frontier' /\ AckedIsDurable'
           /\ TickDone \/ TickerFails => Frontier' /\ AckedIsDurable'
           /\ TimedRotated => Frontier' /\ AckedIsDurable'
<1>0. lsn \in Nat /\ {"ticker", "rotator", "none"} \cap Threads = {} /\ Free.by = "none"
  BY Zenon, ForgeAssumption, FreeType DEF IInv, TypeOK, LogTypeOK
<1>1. ASSUME TickSync \/ TimedRotation PROVE Frontier' /\ AckedIsDurable'
  BY <1>0, <1>1, FsyncStep DEF TickSync, TimedRotation, threadVars
<1>2. ASSUME TickDone \/ TickerFails PROVE Frontier' /\ AckedIsDurable'
  <2>1. mu' = Free /\ UNCHANGED <<disk, synced, seg, durableLSN, pc, mine, ok, lsn>>
    BY Zenon, <1>2 DEF TickDone, TickerFails, PersistHS, SyncFails,
                logVars, threadVars
  <2> QED BY <1>0, <2>1, FreeStep
<1>3. ASSUME TimedRotated PROVE Frontier' /\ AckedIsDurable'
  <2>1. mu.by = "rotator" /\ mu' = Free /\ UNCHANGED <<disk, synced, durableLSN, pc, mine, ok, lsn>>
    BY Zenon, <1>3 DEF TimedRotated, PersistHS, threadVars
  <2> QED BY Zenon, <1>0, <2>1 DEF IInv, Frontier, TailUnsynced, Waiting, AckedIsDurable
<1> QED BY Zenon, <1>1, <1>2, <1>3

LEMMA EntryDurable ==
    ASSUME IInv, NEW g \in Groups
    PROVE  /\ LogEntry(g) => Frontier' /\ AckedIsDurable'
           /\ LogEntryRotates(g) => Frontier' /\ AckedIsDurable'
           /\ LogEntryRotated(g) => Frontier' /\ AckedIsDurable'
           /\ LogEntryFails(g) => Frontier' /\ AckedIsDurable'
<1>0. lsn \in Nat /\ seg \in Nat /\ mu.rec \in Records /\ g \notin Threads /\ g # "none"
  BY Zenon, ForgeAssumption DEF IInv, TypeOK, LogTypeOK
<1>e. Entry(g) \in Records /\ Entry(g).seg = seg
  BY Zenon, EntryRecord DEF IInv
<1>1. ASSUME LogEntry(g) PROVE Frontier' /\ AckedIsDurable'
  <2>1. /\ disk' = disk \cup {Entry(g)} /\ seg' = seg /\ mu' = Free /\ lsn' = lsn + 1
        /\ UNCHANGED <<synced, durableLSN, ok>> /\ UNCHANGED <<pc, mine>>
    BY Zenon, <1>1 DEF LogEntry, TakeEntry, Write, threadVars
  <2>2. lsn' \in Nat /\ lsn' >= lsn
    BY <1>0, <2>1
  <2>3. \A u \in Threads : pc'[u] = pc[u] /\ mine'[u] = mine[u]
    BY Zenon, <2>1
  <2> QED BY Zenon, <1>e, <2>1, <2>2, <2>3, AppendStep
<1>2. ASSUME LogEntryRotates(g) PROVE Frontier' /\ AckedIsDurable'
  BY <1>0, <1>2, FsyncStep DEF LogEntryRotates, TakeEntry, threadVars
<1>3. ASSUME LogEntryRotated(g) PROVE Frontier' /\ AckedIsDurable'
  <2> DEFINE n == [mu.rec EXCEPT !.seg = seg + 1]
  <2>1. n \in Records /\ n.seg = seg + 1
    BY <1>0 DEF Records
  <2>2. /\ disk' = disk \cup {n} /\ seg' = seg + 1 /\ mu' = Free /\ lsn' = lsn
        /\ mu.by = g /\ UNCHANGED <<synced, durableLSN, ok>> /\ UNCHANGED <<pc, mine>>
    BY Zenon, <1>3 DEF LogEntryRotated, PersistHS, WriteNext, threadVars
  <2>3. lsn' \in Nat /\ lsn' >= lsn /\ mu.by # "none"
    BY <1>0, <2>2
  <2>4. \A u \in Threads : pc'[u] = pc[u] /\ mine'[u] = mine[u]
    BY Zenon, <2>2
  <2> HIDE DEF n
  <2> QED BY Zenon, <2>1, <2>2, <2>3, <2>4, AppendStep
<1>4. ASSUME LogEntryFails(g) PROVE Frontier' /\ AckedIsDurable'
  <2>1. lsn' \in Nat /\ lsn' >= lsn
    BY <1>0, <1>4 DEF LogEntryFails, TakeEntry
  <2> QED BY Zenon, <1>4, <2>1, FreeStep DEF LogEntryFails, SyncFails, threadVars
<1> QED BY Zenon, <1>1, <1>2, <1>3, <1>4

LEMMA PruneDurable ==
    ASSUME Apart, IInv, NEW g \in Groups
    PROVE  /\ \A k \in Nat : StageHardState(g, k) => Frontier' /\ AckedIsDurable'
           /\ \A f \in Nat : Snapshot(g, f) => Frontier' /\ AckedIsDurable'
           /\ SkipEntry(g) => Frontier' /\ AckedIsDurable'
           /\ PruneSync(g) => Frontier' /\ AckedIsDurable'
           /\ PruneList(g) \/ PruneFails(g) => Frontier' /\ AckedIsDurable'
           /\ PruneRemove(g) => Frontier' /\ AckedIsDurable'
<1>0. lsn \in Nat /\ g \notin Threads
  BY Zenon, ForgeAssumption DEF IInv, TypeOK, LogTypeOK
<1>1. ASSUME UNCHANGED <<disk, synced, seg, lsn>>, UNCHANGED <<durableLSN, pc, mine, ok>>, mu' = mu
      PROVE  Frontier' /\ AckedIsDurable'
  BY Zenon, <1>1 DEF IInv, Frontier, TailUnsynced, Waiting, AckedIsDurable
<1>2. ASSUME PruneRemove(g) PROVE Frontier' /\ AckedIsDurable'
  <2>1. setting.prune
    <3>1. Resting.calls = 0
      BY Zenon DEF Resting
    <3> QED BY <1>2, <3>1 DEF PruneRemove, IInv, Quiet
  <2>2. ok = {} /\ \A t \in Threads : pc[t] = "idle" /\ mu.by # t
    BY Zenon, <2>1 DEF Apart, IInv, Quiet, TypeOK, LogTypeOK
  <2>3. /\ \E gone : disk' = disk \ gone /\ synced' = synced \ gone
        /\ UNCHANGED <<seg, mu>> /\ UNCHANGED <<pc, ok>>
    BY Zenon, <1>2 DEF PruneRemove, threadVars
  <2>4. TailUnsynced'
    BY Zenon, <2>3 DEF IInv, Frontier, TailUnsynced
  <2> QED BY Zenon, <2>2, <2>3, <2>4 DEF Frontier, Waiting, AckedIsDurable
<1>3. ASSUME NEW k \in Nat, StageHardState(g, k) PROVE Frontier' /\ AckedIsDurable'
  BY Zenon, <1>1, <1>3 DEF StageHardState, logVars, threadVars
<1>4. ASSUME NEW f \in Nat, Snapshot(g, f) PROVE Frontier' /\ AckedIsDurable'
  BY Zenon, <1>1, <1>4 DEF Snapshot, logVars, threadVars
<1>5. ASSUME SkipEntry(g) PROVE Frontier' /\ AckedIsDurable'
  BY Zenon, <1>1, <1>5 DEF SkipEntry, logVars, threadVars
<1>6. ASSUME PruneSync(g) PROVE Frontier' /\ AckedIsDurable'
  BY <1>0, <1>6, FsyncStep DEF PruneSync, threadVars
<1>7. ASSUME PruneList(g) \/ PruneFails(g) PROVE Frontier' /\ AckedIsDurable'
  <2>1. mu' = Free /\ UNCHANGED <<disk, synced, seg, durableLSN, pc, mine, ok, lsn>>
    BY Zenon, <1>7 DEF PruneList, PruneFails, PersistHS, SyncFails, logVars, threadVars
  <2> QED BY <1>0, <2>1, FreeStep
<1> QED BY Zenon, <1>2, <1>3, <1>4, <1>5, <1>6, <1>7

\* A crash loses only records of the current segment that were not fsynced.
LEMMA CrashDurable == ASSUME IInv, Crash PROVE Frontier' /\ AckedIsDurable'
<1>1. PICK s \in Survivors :
        \/ disk' = s
        \/ \E r \in disk \ s : disk' = s \cup {[r EXCEPT !.kind = "torn"]}
  BY Zenon DEF Crash
<1>2. \A r \in disk : [r EXCEPT !.kind = "torn"].seg = r.seg
  BY Zenon DEF IInv, TypeOK, LogTypeOK, Records
<1>3. s \subseteq disk /\ synced \subseteq s
  BY Zenon DEF Survivors
<1>4. mu'.by = "none" /\ "none" \notin Threads
  BY Zenon, FreeType, ForgeAssumption DEF Crash
<1>5. UNCHANGED <<seg, synced>> /\ ok' = ok /\ \A t \in Threads : pc'[t] = "idle"
  BY Zenon DEF Crash
<1>6. TailUnsynced'
  BY Zenon, <1>1, <1>2, <1>3, <1>4, <1>5 DEF IInv, Frontier, TailUnsynced
<1> QED BY Zenon, <1>4, <1>5, <1>6 DEF IInv, Frontier, Waiting, AckedIsDurable

LEMMA QuietStep == ASSUME IInv, Next PROVE Quiet'
<1> USE DEF IInv, Quiet
<1>0. setting' = setting /\ Free.by \notin Threads
      /\ ({"ticker", "rotator"} \cup Groups) \cap Threads = {}
  BY Zenon, FreeType, ForgeAssumption
     DEF Next, Release, Sync, LogCommand, LogCommandRotates, LogCommandRotated, LogCommandFails,
         SyncFast, SyncWait, SyncLead, LeadSync, LeadDone, LeadFails, TickSync, TickDone,
         TimedRotation, TimedRotated, TickerFails, StageHardState, LogEntry, LogEntryRotates,
         LogEntryRotated, LogEntryFails, SkipEntry, Snapshot, PruneSync, PruneList, PruneRemove,
         PruneFails, Crash
<1>1. setting.prune \/ \A g \in Groups : pruner'[g] = Resting
  <2> SUFFICES ASSUME \A g \in Groups : pruner[g] = Resting, ~setting.prune
               PROVE  \A g \in Groups : pruner'[g] = Resting
    BY Zenon
  <2>1. ~(0 > 0) /\ Resting.calls = 0
    BY DEF Resting
  <2>2. \A g \in Groups : /\ ~PruneList(g) /\ ~PruneRemove(g) /\ ~PruneFails(g)
                          /\ \A f : ~Snapshot(g, f)
    BY Zenon, <2>1 DEF PruneList, PruneRemove, PruneFails, Snapshot
  <2>3. CASE Crash
    BY Zenon, <2>3 DEF Crash
  <2>4. CASE ~Crash
    <3>1. pruner' = pruner
      BY Zenon, <2>2, <2>4
         DEF Next, Release, Sync, LogCommand, LogCommandRotates, LogCommandRotated,
             LogCommandFails, SyncFast, SyncWait, SyncLead, LeadSync, LeadDone, LeadFails,
             TickSync, TickDone, TimedRotation, TimedRotated, TickerFails, StageHardState,
             LogEntry, LogEntryRotates, LogEntryRotated, LogEntryFails, SkipEntry, PruneSync,
             raftVars
    <3> QED BY Zenon, <3>1
  <2> QED BY Zenon, <2>3, <2>4
<1>2. setting.commands \/ (ok' = {} /\ \A t \in Threads : pc'[t] = "idle" /\ mu'.by # t)
  <2> SUFFICES ASSUME ok = {}, \A t \in Threads : pc[t] = "idle" /\ mu.by # t, ~setting.commands
               PROVE  ok' = {} /\ \A t \in Threads : pc'[t] = "idle" /\ mu'.by # t
    BY Zenon
  <2>1. ASSUME NEW t \in Threads, \/ LogCommand(t) \/ LogCommandRotates(t) \/ LogCommandRotated(t)
                                  \/ LogCommandFails(t) \/ Sync(t)
        PROVE  FALSE
    BY Zenon, <2>1 DEF LogCommand, LogCommandRotates, LogCommandRotated, LogCommandFails, TakeLSN, PersistHS,
                Sync, SyncFast, SyncWait, SyncLead, LeadSync, LeadDone, LeadFails
  <2>2. ASSUME \/ TickSync \/ TimedRotation
               \/ \E g \in Groups : PruneSync(g) \/ LogEntryRotates(g)
        PROVE  ok' = {} /\ \A t \in Threads : pc'[t] = "idle" /\ mu'.by # t
    <3>1. \A h, r : Fsync(h, r) => mu'.by = h
      BY Zenon, FsyncHolds
    <3>2. mu'.by \in {"ticker", "rotator"} \cup Groups
      BY Zenon, <2>2, <3>1 DEF TickSync, TimedRotation, PruneSync, LogEntryRotates
    <3>3. ok' = ok /\ pc' = pc
      BY Zenon, <2>2 DEF TickSync, TimedRotation, PruneSync, LogEntryRotates, threadVars
    <3> QED BY Zenon, <1>0, <3>2, <3>3
  <2>3. ASSUME \/ TickDone \/ TimedRotated \/ TickerFails
               \/ \E g \in Groups : \/ LogEntryRotated(g) \/ LogEntryFails(g)
                                    \/ PruneList(g) \/ PruneFails(g)
        PROVE  ok' = {} /\ \A t \in Threads : pc'[t] = "idle" /\ mu'.by # t
    BY Zenon, <1>0, <2>3 DEF TickDone, TimedRotated, TickerFails, LogEntryRotated, LogEntryFails,
                      PruneList, PruneFails, PersistHS, SyncFails, threadVars
  <2>4. ASSUME \E g \in Groups : \/ \E k \in 1..setting.index : StageHardState(g, k)
                                \/ LogEntry(g) \/ SkipEntry(g) \/ PruneRemove(g)
                                \/ \E f \in 1..raftLog[g].index : Snapshot(g, f)
        PROVE  ok' = {} /\ \A t \in Threads : pc'[t] = "idle" /\ mu'.by # t
    BY Zenon, <2>4 DEF StageHardState, LogEntry, SkipEntry, PruneRemove, Snapshot, threadVars
  <2>5. ASSUME Crash PROVE ok' = {} /\ \A t \in Threads : pc'[t] = "idle" /\ mu'.by # t
    BY Zenon, <1>0, <2>5 DEF Crash
  <2> QED BY Zenon, <2>1, <2>2, <2>3, <2>4, <2>5 DEF Next, Release
<1> QED BY Zenon, <1>0, <1>1, <1>2

\* Where raft does not prune what the commands share with it and a failed append is
\* reported, no interleaving of group commits, rotations, tickers, raft appends and
\* crashes makes Sync acknowledge a command that is not on disk, and none loses it
\* afterwards: durableLSN stands for exactly the records that were fsynced.
THEOREM DurableBeforeOK == Apart => (Spec => [](Frontier /\ AckedIsDurable))
<1> SUFFICES ASSUME Apart PROVE Spec => [](Frontier /\ AckedIsDurable)
  BY Zenon
<1>1. Init => IInv
  <2> SUFFICES ASSUME Init PROVE IInv
    BY Zenon
  <2>1. mu.by = "none" /\ "none" \notin Threads
    BY Zenon, FreeType, ForgeAssumption DEF Init
  <2> QED BY Zenon, <2>1, InitType DEF Init, IInv, Frontier, TailUnsynced, Waiting, AckedIsDurable, Quiet
<1>2. IInv /\ [Next]_vars => IInv'
  <2>1. ASSUME IInv, Next PROVE IInv'
    <3>1. TypeOK'
      BY Zenon, <2>1, NextType DEF IInv
    <3>2. /\ \A k \in 1..setting.index : k \in Nat
          /\ \A g \in Groups : \A f \in 1..raftLog[g].index : f \in Nat
      BY Zenon, <2>1, Ranges DEF IInv
    <3>4. Frontier' /\ AckedIsDurable'
      BY Zenon, <2>1, <3>2, CommandDurable, SyncDurable, TickerDurable, EntryDurable, PruneDurable,
         CrashDurable DEF Next, Release
    <3> QED BY Zenon, <2>1, <3>1, <3>4, QuietStep DEF IInv
  <2>2. ASSUME IInv, UNCHANGED vars PROVE IInv'
    BY Zenon, <2>2, StutterType DEF IInv, Frontier, TailUnsynced, Waiting, AckedIsDurable, Quiet,
                             vars, logVars, threadVars, raftVars
  <2> QED BY Zenon, <2>1, <2>2
<1>3. IInv => Frontier /\ AckedIsDurable
  BY Zenon DEF IInv
<1> QED BY <1>1, <1>2, <1>3, PTL DEF Spec

-----------------------------------------------------------------------------
(* Prunes.                                                                 *)

\* Records are told apart by their ids; entries have a group and commands none.
Named ==
    /\ \A r \in disk : r.id <= last /\ r.run <= crashes
    /\ \A r, q \in disk : r.id = q.id => r = q
    /\ \A r \in disk : /\ r.kind = "command" => r.group = "none"
                       /\ r.kind = "entry" => r.group \in Groups

\* The entries that a group logs in one run of the process ascend, and those of
\* this run are at or below the index its ready loop has come to.
Ascending ==
    \A r \in disk : r.kind = "entry" =>
        /\ r.run = crashes => r.at <= raftLog[r.group].index
        /\ \A q \in disk : /\ q.kind = "entry" /\ q.group = r.group /\ q.run = r.run
                           /\ r.id < q.id
                           => r.at <= q.at

\* A torn record is of an earlier run, and the last one of that run in its segment.
TornLast ==
    \A r \in disk : r.kind = "torn" =>
        /\ r.run < crashes
        /\ \A q \in disk : q.seg = r.seg /\ q.run = r.run => q.id <= r.id

\* The record on its way to the next segment has the newest id; an entry is the
\* next one of the group that holds wl.mu.
OnItsWay ==
    /\ mu.by \in Threads => mu.rec.kind # "entry"
    /\ mu.by \in Threads /\ pc[mu.by] = "idle" => mu.rec.kind = "command"
    /\ mu.rec.kind # "torn" => /\ mu.rec.id = last /\ mu.rec.run = crashes
                               /\ \A r \in disk : r.id < last
    /\ mu.rec.kind = "command" => mu.rec.group = "none"
    /\ mu.rec.kind = "entry" => /\ mu.by \in Groups /\ mu.rec.group = mu.by
                                /\ mu.rec.at = raftLog[mu.by].index + 1

PruneInv ==
    /\ \A g \in Groups : pruner[g].target <= floor[g]
    /\ Named /\ Ascending /\ TornLast /\ OnItsWay

LEMMA MinOf ==
    ASSUME NEW T \in SUBSET Nat, T # {}
    PROVE  Min(T) \in T /\ \A y \in T : Min(T) <= y
<1> DEFINE R == OpToRel(<, Nat)
<1>1. IsWellFoundedOn(R, Nat)
  BY Zenon, NatLessThanWellFounded
<1>2. PICK x \in T : \A y \in T : <<y, x>> \notin R
  BY Zenon, <1>1, WFMin
<1>3. R = {ss \in Nat \X Nat : ss[1] < ss[2]}
  BY Zenon DEF OpToRel
<1> HIDE DEF R
<1>4. ASSUME NEW y \in T PROVE x <= y
  <2>1. <<y, x>> \notin {ss \in Nat \X Nat : ss[1] < ss[2]}
    BY Zenon, <1>2, <1>3
  <2> QED BY <2>1
<1> QED BY Zenon, <1>4 DEF Min

LEMMA PruneTypes ==
    ASSUME TypeOK
    PROVE  /\ last \in Nat /\ lsn \in Nat /\ seg \in Nat /\ crashes \in Nat
           /\ mu.rec \in Records
           /\ \A g \in Groups : /\ raftLog[g].index \in Nat /\ floor[g] \in Nat
                                /\ pruner[g].target \in Nat /\ pruner[g].upto \in Nat
           /\ \A r \in disk : r \in Records
           /\ \A r \in Records : r.id \in Nat /\ r.at \in Nat /\ r.run \in Nat
<1>1. \A g \in Groups : pruner[g] \in Pruners /\ raftLog[g].index \in Nat /\ floor[g] \in Nat
  BY Zenon, RaftLogType DEF TypeOK
<1> QED BY Zenon, <1>1, RecordType, PrunerType DEF TypeOK, LogTypeOK, RaftTypeOK

\* A holder of wl.mu that appends nothing: nobody, or anyone with no record.
LEMMA IdleHolder ==
    /\ NoRecord.kind = "torn" /\ Free.rec = NoRecord /\ Free.by = "none"
    /\ "none" \notin Threads /\ "none" \notin Groups
BY Zenon, FreeType, ForgeAssumption DEF NoRecord, Free

\* Nothing of the log changes but what is removed from it, and the raft indices of
\* groups that append nothing may grow.
LEMMA PruneFrame ==
    ASSUME TypeOK, TypeOK', PruneInv, disk' \subseteq disk, crashes' = crashes, last' \in Nat,
           last' >= last,
           \A g \in Groups : /\ pruner'[g].target <= floor'[g]
                             /\ raftLog'[g].index >= raftLog[g].index
           , OnItsWay'
    PROVE  PruneInv'
<1> USE PruneTypes
<1>1. \A g \in Groups : raftLog'[g].index \in Nat
  BY Zenon DEF TypeOK, RaftTypeOK, RaftLogs
<1>2. Named'
  BY <1>1 DEF PruneInv, Named
<1>3. Ascending'
  <2>1. ASSUME NEW r \in disk', r.kind = "entry", r.run = crashes'
        PROVE  r.at <= raftLog'[r.group].index
    <3>1. r \in disk /\ r.group \in Groups /\ r.at <= raftLog[r.group].index
      BY Zenon, <2>1 DEF PruneInv, Named, Ascending
    <3>2. r.at \in Nat /\ raftLog[r.group].index \in Nat /\ raftLog'[r.group].index \in Nat
      BY Zenon, <1>1, <3>1
    <3> QED BY <3>1, <3>2
  <2> QED BY Zenon, <2>1 DEF PruneInv, Ascending
<1>4. TornLast'
  BY Zenon DEF PruneInv, TornLast
<1> QED BY Zenon, <1>2, <1>3, <1>4 DEF PruneInv

\* Where wl.mu is free afterwards, or held with no record by one who logs no
\* command, nothing is on its way.
LEMMA NothingOnItsWay ==
    ASSUME mu'.rec.kind = "torn", mu'.by \in Threads => pc'[mu'.by] # "idle" PROVE OnItsWay'
BY Zenon DEF OnItsWay

LEMMA FreeOnItsWay == ASSUME mu' = Free PROVE OnItsWay'
BY Zenon, IdleHolder, NothingOnItsWay

\* Record n is appended.
LEMMA PruneAppend ==
    ASSUME TypeOK, TypeOK', PruneInv, NEW n \in Records, disk' = disk \cup {n},
           crashes' = crashes, mu' = Free, n.id = last', \A r \in disk : r.id < last',
           n.run = crashes, UNCHANGED <<pruner, floor>>,
           \A g \in Groups : raftLog'[g].index >= raftLog[g].index,
           \/ n.kind = "command" /\ n.group = "none"
           \/ /\ n.kind = "entry" /\ n.group \in Groups
              /\ n.at = raftLog[n.group].index + 1 /\ n.at = raftLog'[n.group].index
    PROVE  PruneInv'
<1> USE PruneTypes
<1>1. last' \in Nat /\ n.at \in Nat /\ n.id \in Nat
  BY Zenon
<1>p. \A g \in Groups : raftLog'[g].index \in Nat
  BY Zenon DEF TypeOK, RaftTypeOK, RaftLogs
<1>2. Named'
  <2>1. \A r \in disk' : r.id <= last' /\ r.run <= crashes'
    BY <1>1 DEF PruneInv, Named
  <2>2. \A r, q \in disk' : r.id = q.id => r = q
    BY <1>1 DEF PruneInv, Named
  <2>3. \A r \in disk' : /\ r.kind = "command" => r.group = "none"
                         /\ r.kind = "entry" => r.group \in Groups
    BY Zenon DEF PruneInv, Named
  <2> QED BY Zenon, <2>1, <2>2, <2>3 DEF Named
<1>3. Ascending'
  <2>1. ASSUME NEW r \in disk', r.kind = "entry", r.run = crashes'
        PROVE  r.at <= raftLog'[r.group].index
    <3>1. CASE r \in disk
      <4>1. r.group \in Groups /\ r.at <= raftLog[r.group].index
        BY Zenon, <2>1, <3>1 DEF PruneInv, Named, Ascending
      <4>2. r.at \in Nat /\ raftLog[r.group].index \in Nat /\ raftLog'[r.group].index \in Nat
        BY Zenon, <1>p, <3>1, <4>1
      <4> QED BY <4>1, <4>2
    <3>2. CASE r = n
      <4>1. n.at = raftLog'[n.group].index
        BY Zenon, <2>1, <3>2
      <4> QED BY <1>1, <3>2, <4>1
    <3> QED BY Zenon, <3>1, <3>2
  <2>2. ASSUME NEW r \in disk', r.kind = "entry", NEW q \in disk', q.kind = "entry",
               q.group = r.group, q.run = r.run, r.id < q.id
        PROVE  r.at <= q.at
    <3>1. r \in disk
      <4>1. r.id \in Nat /\ q.id \in Nat /\ q.id <= last'
        BY Zenon, <1>2 DEF Named
      <4>2. r # n
        BY <1>1, <2>2, <4>1
      <4> QED BY Zenon, <4>2
    <3>2. CASE q \in disk
      BY Zenon, <2>2, <3>1, <3>2 DEF PruneInv, Ascending
    <3>3. CASE q = n
      <4>1. n.group \in Groups /\ n.at = raftLog[n.group].index + 1
        BY Zenon, <2>2, <3>3
      <4>2. r.at <= raftLog[n.group].index
        BY Zenon, <2>2, <3>1, <3>3 DEF PruneInv, Ascending
      <4>3. r.at \in Nat /\ raftLog[n.group].index \in Nat
        BY Zenon, <3>1, <4>1
      <4> QED BY <1>1, <3>3, <4>1, <4>2, <4>3
    <3> QED BY Zenon, <3>2, <3>3
  <2> QED BY Zenon, <2>1, <2>2 DEF Ascending
<1>4. TornLast'
  <2> SUFFICES ASSUME NEW r \in disk', r.kind = "torn"
               PROVE  /\ r.run < crashes'
                      /\ \A q \in disk' : q.seg = r.seg /\ q.run = r.run => q.id <= r.id
    BY Zenon DEF TornLast
  <2>1. r \in disk
    BY Zenon
  <2>2. /\ r.run < crashes
        /\ \A q \in disk : q.seg = r.seg /\ q.run = r.run => q.id <= r.id
    BY Zenon, <2>1 DEF PruneInv, TornLast
  <2>3. n.run # r.run
    BY <2>1, <2>2
  <2> QED BY Zenon, <2>2, <2>3
<1>5. OnItsWay'
  BY Zenon, FreeOnItsWay
<1> QED BY Zenon, <1>2, <1>3, <1>4, <1>5 DEF PruneInv

\* The ids on disk are below the next one.
LEMMA NextId == ASSUME TypeOK, PruneInv PROVE \A r \in disk : r.id < last + 1
BY PruneTypes DEF PruneInv, Named

\* The record on its way, in the segment it goes to.
LEMMA Moved ==
    ASSUME TypeOK
    PROVE  /\ [mu.rec EXCEPT !.seg = seg + 1] \in Records
           /\ \A n : n = [mu.rec EXCEPT !.seg = seg + 1] =>
                 /\ n.id = mu.rec.id /\ n.at = mu.rec.at /\ n.kind = mu.rec.kind
                 /\ n.group = mu.rec.group /\ n.run = mu.rec.run
<1>1. mu.rec \in Records /\ seg + 1 \in Nat
  BY PruneTypes
<1>2. [mu.rec EXCEPT !.seg = seg + 1] \in Records
  BY Zenon, <1>1, RecordType
<1> QED BY Zenon, <1>1, <1>2 DEF Records

LEMMA PruneCommand ==
    ASSUME TypeOK, TypeOK', PruneInv, NEW t \in Threads
    PROVE  /\ LogCommand(t) => PruneInv'
           /\ LogCommandRotates(t) => PruneInv'
           /\ LogCommandRotated(t) => PruneInv'
           /\ LogCommandFails(t) => PruneInv'
<1> USE PruneTypes
<1>0. \A g \in Groups : pruner[g].target <= floor[g]
  BY Zenon DEF PruneInv
<1>1. \A g \in Groups : raftLog[g].index >= raftLog[g].index
  <2>1. \A n \in Nat : n >= n
    OBVIOUS
  <2> QED BY Zenon, <2>1
<1>2. last + 1 \in Nat /\ last + 1 >= last /\ last >= last
  OBVIOUS
<1>c. /\ Command \in Records /\ Command.id = last + 1 /\ Command.run = crashes
      /\ Command.kind = "command" /\ Command.group = "none"
  BY Zenon, CommandRecord DEF Command, Record
<1>3. ASSUME LogCommand(t) PROVE PruneInv'
  <2>1. /\ disk' = disk \cup {Command} /\ mu' = Free /\ last' = last + 1
        /\ crashes' = crashes /\ UNCHANGED <<pruner, floor>> /\ raftLog' = raftLog
    BY Zenon, <1>3 DEF LogCommand, TakeLSN, Write, raftVars
  <2> QED BY Zenon, <1>1, <1>c, <2>1, NextId, PruneAppend
<1>4. ASSUME LogCommandRotates(t) PROVE PruneInv'
  <2>1. /\ disk' = disk /\ last' = last + 1 /\ Fsync(t, Command)
        /\ UNCHANGED <<crashes, raftLog, pruner, floor>>
    BY Zenon, <1>4 DEF LogCommandRotates, TakeLSN, threadVars, raftVars
  <2>2. mu'.by = t /\ mu'.rec = Command
    BY Zenon, <2>1, FsyncHolds
  <2>3. OnItsWay'
    BY Zenon, <1>c, <2>1, <2>2, NextId DEF OnItsWay
  <2> QED BY Zenon, <1>0, <1>1, <1>2, <2>1, <2>3, PruneFrame
<1>5. ASSUME LogCommandRotated(t) PROVE PruneInv'
  <2>1. PICK n \in Records : n = [mu.rec EXCEPT !.seg = seg + 1]
    BY Zenon, Moved
  <2>2. /\ disk' = disk \cup {n} /\ mu' = Free /\ last' = last /\ mu.by = t /\ pc[t] = "idle"
        /\ crashes' = crashes /\ UNCHANGED <<pruner, floor>> /\ raftLog' = raftLog
    BY Zenon, <1>5, <2>1 DEF LogCommandRotated, PersistHS, WriteNext, raftVars
  <2>3. /\ mu.rec.id = last /\ mu.rec.run = crashes /\ \A r \in disk : r.id < last
        /\ mu.rec.kind = "command" /\ mu.rec.group = "none"
    BY Zenon, <2>2 DEF PruneInv, OnItsWay
  <2>4. n.id = last /\ n.run = crashes /\ n.kind = "command" /\ n.group = "none"
    BY Zenon, <2>1, <2>3, Moved
  <2> QED BY Zenon, <1>1, <2>2, <2>3, <2>4, PruneAppend
<1>6. ASSUME LogCommandFails(t) PROVE PruneInv'
  <2>1. /\ disk' = disk /\ mu' = Free /\ last' \in {last, last + 1}
        /\ UNCHANGED <<crashes, raftLog, pruner, floor>>
    BY Zenon, <1>6 DEF LogCommandFails, SyncFails, TakeLSN, raftVars
  <2> QED BY Zenon, <1>0, <1>1, <1>2, <2>1, FreeOnItsWay, PruneFrame
<1> QED BY Zenon, <1>3, <1>4, <1>5, <1>6

LEMMA PruneEntry ==
    ASSUME TypeOK, TypeOK', PruneInv, NEW g \in Groups
    PROVE  /\ LogEntry(g) => PruneInv'
           /\ LogEntryRotates(g) => PruneInv'
           /\ LogEntryRotated(g) => PruneInv'
           /\ LogEntryFails(g) => PruneInv'
           /\ SkipEntry(g) => PruneInv'
<1> USE PruneTypes
<1>0. \A h \in Groups : pruner[h].target <= floor[h]
  BY Zenon DEF PruneInv
<1>g. g \notin Threads
  BY Zenon, ForgeAssumption
<1>1. \A h \in Groups : raftLog[h].index >= raftLog[h].index
  <2>1. \A n \in Nat : n >= n
    OBVIOUS
  <2> QED BY Zenon, <2>1
<1>2. last + 1 \in Nat /\ last + 1 >= last /\ last >= last
  OBVIOUS
<1>d. ASSUME EntryDone(g)
      PROVE  /\ raftLog'[g].index = raftLog[g].index + 1
             /\ \A h \in Groups : h # g => raftLog'[h] = raftLog[h]
             /\ \A h \in Groups : raftLog'[h].index >= raftLog[h].index
  <2>1. /\ raftLog'[g].index = raftLog[g].index + 1
        /\ \A h \in Groups : h # g => raftLog'[h] = raftLog[h]
    BY Zenon, <1>d, EntryDoneType DEF TypeOK
  <2>2. raftLog'[g].index >= raftLog[g].index
    BY <2>1
  <2> QED BY Zenon, <1>1, <2>1, <2>2
<1>3. ASSUME LogEntry(g) PROVE PruneInv'
  <2>1. /\ disk' = disk \cup {Entry(g)} /\ mu' = Free /\ last' = last + 1
        /\ crashes' = crashes /\ UNCHANGED <<pruner, floor>> /\ EntryDone(g)
    BY Zenon, <1>3 DEF LogEntry, TakeEntry, Write
  <2>2. PICK n \in Records : /\ n = Entry(g) /\ n.id = last + 1 /\ n.run = crashes
                             /\ n.kind = "entry" /\ n.group = g
                             /\ n.at = raftLog[g].index + 1
    BY Zenon, EntryRecord
  <2> QED BY Zenon, <1>d, <2>1, <2>2, NextId, PruneAppend
<1>4. ASSUME LogEntryRotates(g) PROVE PruneInv'
  <2>1. /\ disk' = disk /\ last' = last + 1 /\ Fsync(g, Entry(g))
        /\ UNCHANGED <<crashes, raftLog, pruner, floor>>
    BY Zenon, <1>4 DEF LogEntryRotates, TakeEntry, raftVars
  <2>2. mu'.by = g /\ mu'.rec = Entry(g)
    BY Zenon, <2>1, FsyncHolds
  <2>3. OnItsWay'
    BY Zenon, <1>g, <2>1, <2>2, EntryRecord, NextId DEF OnItsWay
  <2> QED BY Zenon, <1>0, <1>1, <1>2, <2>1, <2>3, PruneFrame
<1>5. ASSUME LogEntryRotated(g) PROVE PruneInv'
  <2>1. PICK n \in Records : n = [mu.rec EXCEPT !.seg = seg + 1]
    BY Zenon, Moved
  <2>2. /\ disk' = disk \cup {n} /\ mu' = Free /\ last' = last /\ mu.by = g
        /\ mu.rec.kind = "entry" /\ EntryDone(g)
        /\ crashes' = crashes /\ UNCHANGED <<pruner, floor>>
    BY Zenon, <1>5, <2>1 DEF LogEntryRotated, PersistHS, WriteNext
  <2>3. /\ mu.rec.id = last /\ mu.rec.run = crashes /\ \A r \in disk : r.id < last
        /\ mu.rec.group = g /\ mu.rec.at = raftLog[g].index + 1
    BY Zenon, <2>2 DEF PruneInv, OnItsWay
  <2>4. /\ n.id = last /\ n.run = crashes /\ n.kind = "entry" /\ n.group = g
        /\ n.at = raftLog[g].index + 1
    BY Zenon, <2>1, <2>2, <2>3, Moved
  <2> QED BY Zenon, <1>d, <2>2, <2>3, <2>4, PruneAppend
<1>6. ASSUME LogEntryFails(g) PROVE PruneInv'
  <2>1. /\ disk' = disk /\ mu' = Free /\ last' \in {last, last + 1} /\ EntryDone(g)
        /\ UNCHANGED <<crashes, pruner, floor>>
    BY Zenon, <1>6 DEF LogEntryFails, SyncFails, TakeEntry
  <2> QED BY Zenon, <1>0, <1>2, <1>d, <2>1, FreeOnItsWay, PruneFrame
<1>7. ASSUME SkipEntry(g) PROVE PruneInv'
  <2>1. /\ UNCHANGED <<disk, last, crashes, pruner, floor, mu, pc>> /\ mu.by # g /\ EntryDone(g)
    BY Zenon, <1>7 DEF SkipEntry, logVars, threadVars
  <2>2. OnItsWay'
    BY Zenon, <1>d, <2>1 DEF PruneInv, OnItsWay
  <2> QED BY Zenon, <1>0, <1>2, <1>d, <2>1, <2>2, PruneFrame
<1> QED BY Zenon, <1>3, <1>4, <1>5, <1>6, <1>7

\* The other steps under wl.mu.
LEMMA PruneOthers ==
    ASSUME TypeOK, TypeOK', PruneInv
    PROVE  /\ \A t \in Threads : Sync(t) => PruneInv'
           /\ TickSync \/ TickDone \/ TimedRotation \/ TimedRotated \/ TickerFails => PruneInv'
<1> USE PruneTypes
<1>0. \A h \in Groups : pruner[h].target <= floor[h]
  BY Zenon DEF PruneInv
<1>1. \A n \in Nat : n >= n
  OBVIOUS
<1>f. ASSUME UNCHANGED <<disk, last, crashes, raftLog, pruner, floor>>, OnItsWay' PROVE PruneInv'
  BY Zenon, <1>0, <1>1, <1>f, PruneFrame
<1>2. ASSUME NEW t \in Threads, Sync(t) PROVE PruneInv'
  <2>1. UNCHANGED <<disk, last, crashes, raftLog, pruner, floor>>
    BY Zenon, <1>2 DEF Sync, SyncFast, SyncWait, SyncLead, LeadSync, LeadDone, LeadFails,
                       logVars, raftVars
  <2>2. OnItsWay'
    <3>1. CASE LeadSync(t)
      <4>1. Fsync(t, NoRecord) /\ pc[t] = "lead" /\ pc' = pc
        BY Zenon, <3>1 DEF LeadSync, threadVars
      <4>2. mu'.by = t /\ mu'.rec.kind = "torn"
        BY Zenon, <4>1, FsyncHolds, IdleHolder
      <4> QED BY Zenon, <4>1, <4>2, NothingOnItsWay
    <3>2. CASE ~LeadSync(t)
      BY Zenon, <1>2, <3>2, FreeOnItsWay DEF Sync, SyncFast, SyncWait, SyncLead, LeadDone,
                                             LeadFails, PersistHS, SyncFails
    <3> QED BY Zenon, <3>1, <3>2
  <2> QED BY Zenon, <1>f, <2>1, <2>2
<1>3. ASSUME TickSync \/ TickDone \/ TimedRotation \/ TimedRotated \/ TickerFails PROVE PruneInv'
  <2>1. UNCHANGED <<disk, last, crashes, raftLog, pruner, floor>>
    BY Zenon, <1>3 DEF TickSync, TickDone, TimedRotation, TimedRotated, TickerFails, logVars, raftVars
  <2>2. OnItsWay'
    <3>1. CASE TickSync \/ TimedRotation
      <4>1. Fsync("ticker", NoRecord) \/ Fsync("rotator", NoRecord)
        BY Zenon, <3>1 DEF TickSync, TimedRotation
      <4>2. mu'.by \notin Threads /\ mu'.rec.kind = "torn"
        BY Zenon, <4>1, FsyncHolds, IdleHolder, ForgeAssumption
      <4> QED BY Zenon, <4>2, NothingOnItsWay
    <3>2. CASE TickDone \/ TimedRotated \/ TickerFails
      BY Zenon, <3>2, FreeOnItsWay DEF TickDone, TimedRotated, TickerFails, PersistHS, SyncFails
    <3> QED BY Zenon, <1>3, <3>1, <3>2
  <2> QED BY Zenon, <1>f, <2>1, <2>2
<1> QED BY Zenon, <1>2, <1>3

\* Raft's steps that append nothing, and the prune.
LEMMA PruneRaft ==
    ASSUME TypeOK, TypeOK', PruneInv, NEW g \in Groups
    PROVE  /\ \A k \in Nat : StageHardState(g, k) => PruneInv'
           /\ \A f \in Nat : Snapshot(g, f) => PruneInv'
           /\ PruneSync(g) \/ PruneList(g) \/ PruneRemove(g) \/ PruneFails(g) => PruneInv'
<1> USE PruneTypes
<1>0. \A h \in Groups : pruner[h].target <= floor[h]
  BY Zenon DEF PruneInv
<1>1. \A n \in Nat : n >= n
  OBVIOUS
<1>g. g \notin Threads
  BY Zenon, ForgeAssumption
<1>2. ASSUME NEW k \in Nat, StageHardState(g, k) PROVE PruneInv'
  <2>1. /\ UNCHANGED <<disk, last, crashes, pruner, floor>> /\ mu' = Free
        /\ raftLog' = [raftLog EXCEPT ![g].commit = k]
    BY Zenon, <1>2 DEF StageHardState, logVars
  <2>2. \A h \in Groups : raftLog'[h].index = raftLog[h].index
    <3>1. \A h \in Groups : h # g => raftLog'[h] = raftLog[h]
      BY Zenon, <2>1 DEF TypeOK, RaftTypeOK
    <3>2. raftLog'[g] = [raftLog[g] EXCEPT !.commit = k] /\ raftLog[g] \in RaftLogs
      BY Zenon, <2>1 DEF TypeOK, RaftTypeOK
    <3>3. raftLog'[g].index = raftLog[g].index
      BY Zenon, <3>2 DEF RaftLogs
    <3> QED BY Zenon, <3>1, <3>3
  <2> QED BY Zenon, <1>0, <1>1, <2>1, <2>2, FreeOnItsWay, PruneFrame
<1>3. ASSUME NEW f \in Nat, Snapshot(g, f) PROVE PruneInv'
  <2>1. UNCHANGED <<disk, last, crashes, mu, pc>>
    BY Zenon, <1>3 DEF Snapshot, logVars, threadVars
  <2>2. /\ \A h \in Groups : raftLog'[h].index = raftLog[h].index
        /\ \A h \in Groups : floor'[h] >= floor[h] /\ floor'[h] \in Nat
        /\ \A h \in Groups : pruner'[h] = pruner[h] \/ pruner'[h].target = floor'[h]
    BY Zenon, <1>3, SnapshotFacts DEF TypeOK
  <2>3. ASSUME NEW h \in Groups PROVE pruner'[h].target <= floor'[h]
    <3>1. CASE pruner'[h] = pruner[h]
      BY <1>0, <2>2, <2>3, <3>1
    <3>2. CASE pruner'[h].target = floor'[h]
      BY <2>2, <2>3, <3>2
    <3> QED BY Zenon, <2>2, <3>1, <3>2
  <2>4. OnItsWay'
    BY Zenon, <2>1, <2>2 DEF PruneInv, OnItsWay
  <2> QED BY Zenon, <1>1, <2>1, <2>2, <2>3, <2>4, PruneFrame
<1>4. ASSUME PruneSync(g) PROVE PruneInv'
  <2>1. UNCHANGED <<disk, last, crashes, raftLog, pruner, floor>> /\ Fsync(g, NoRecord)
    BY Zenon, <1>4 DEF PruneSync, raftVars
  <2>2. mu'.by \notin Threads /\ mu'.rec.kind = "torn"
    BY Zenon, <1>g, <2>1, FsyncHolds, IdleHolder
  <2> QED BY Zenon, <1>0, <1>1, <2>1, <2>2, NothingOnItsWay, PruneFrame
<1>5. ASSUME PruneList(g) \/ PruneRemove(g) \/ PruneFails(g) PROVE PruneInv'
  <2>1. UNCHANGED <<last, crashes, raftLog, floor>> /\ disk' \subseteq disk
    BY Zenon, <1>5 DEF PruneList, PruneRemove, PruneFails, logVars
  <2>2. ASSUME NEW h \in Groups PROVE pruner'[h].target <= floor'[h]
    <3>1. pruner'[h].target \in {pruner[h].target, 0}
      BY Zenon, <1>5, PrunerSteps
    <3> QED BY <1>0, <2>1, <2>2, <3>1
  <2>3. OnItsWay'
    <3>1. CASE PruneRemove(g)
      <4>1. UNCHANGED <<mu, pc, last, crashes, raftLog>> /\ disk' \subseteq disk
        BY Zenon, <3>1 DEF PruneRemove, threadVars
      <4> QED BY Zenon, <4>1 DEF PruneInv, OnItsWay
    <3>2. CASE PruneList(g) \/ PruneFails(g)
      BY Zenon, <3>2, FreeOnItsWay DEF PruneList, PruneFails, PersistHS, SyncFails
    <3> QED BY Zenon, <1>5, <3>1, <3>2
  <2> QED BY Zenon, <1>1, <2>1, <2>2, <2>3, PruneFrame
<1> QED BY Zenon, <1>2, <1>3, <1>4, <1>5

\* A crash leaves of the records some that were there, the first of the others
\* perhaps as a torn one, and starts a new run.
LEMMA PruneCrash == ASSUME TypeOK, TypeOK', PruneInv, Crash PROVE PruneInv'
<1> USE PruneTypes
<1>1. /\ mu' = Free /\ last' = last /\ crashes' = crashes + 1
      /\ pruner' = [g \in Groups |-> Resting] /\ floor' = [g \in Groups |-> 0]
  BY Zenon DEF Crash
<1>2. \A g \in Groups : pruner'[g].target <= floor'[g]
  <2>1. Resting.target = 0
    BY Zenon DEF Resting
  <2>2. \A g \in Groups : pruner'[g].target = 0 /\ floor'[g] = 0
    BY Zenon, <1>1, <2>1
  <2> QED BY <2>2
<1>3. PICK s \in Survivors :
        \/ disk' = s
        \/ \E r \in disk \ s : /\ \A q \in disk \ s : r.id <= q.id
                              /\ disk' = s \cup {[r EXCEPT !.kind = "torn"]}
  BY Zenon DEF Crash
<1>4. /\ s \subseteq disk
      /\ \A r \in s, q \in disk : q.seg = r.seg /\ q.id < r.id => q \in s
  BY Zenon DEF Survivors
<1>5. \A r \in disk : LET x == [r EXCEPT !.kind = "torn"]
                      IN  /\ x.id = r.id /\ x.kind = "torn" /\ x.run = r.run
                          /\ x.seg = r.seg /\ x.group = r.group
  BY Zenon DEF Records
\* What a record that is there afterwards was before.
<1>6. \A r \in disk' : /\ r \in s \/ r.kind = "torn"
                       /\ \E q \in disk : r.id = q.id /\ r.run = q.run
  BY Zenon, <1>3, <1>4, <1>5
<1>7. ASSUME NEW r \in disk' PROVE r.id <= last /\ r.run < crashes'
  <2>1. PICK q \in disk : r.id = q.id /\ r.run = q.run
    BY Zenon, <1>6
  <2>2. q.id <= last /\ q.run <= crashes
    BY Zenon, <2>1 DEF PruneInv, Named
  <2> QED BY <1>1, <2>1, <2>2
<1>8. \A r, q \in disk' : r.id = q.id => r = q
  <2>1. CASE disk' = s
    BY Zenon, <1>4, <2>1 DEF PruneInv, Named
  <2>2. ASSUME NEW x \in disk \ s, disk' = s \cup {[x EXCEPT !.kind = "torn"]}
        PROVE  \A r, q \in disk' : r.id = q.id => r = q
    <3>1. \A r \in s : r.id # x.id
      BY Zenon, <1>4 DEF PruneInv, Named
    <3> QED BY Zenon, <1>4, <1>5, <2>2, <3>1 DEF PruneInv, Named
  <2> QED BY Zenon, <1>3, <2>1, <2>2
<1>9. Named'
  <2>1. ASSUME NEW r \in disk' PROVE r.id <= last' /\ r.run <= crashes'
    <3>1. r.run \in Nat /\ crashes' \in Nat
      BY Zenon, <2>1, RecordType DEF TypeOK, LogTypeOK, RaftTypeOK
    <3> QED BY <1>1, <1>7, <2>1, <3>1
  <2>2. \A r \in disk' : /\ r.kind = "command" => r.group = "none"
                         /\ r.kind = "entry" => r.group \in Groups
    BY Zenon, <1>4, <1>6 DEF PruneInv, Named
  <2> QED BY Zenon, <1>8, <2>1, <2>2 DEF Named
<1>10. Ascending'
  <2>1. ASSUME NEW r \in disk' PROVE r.run # crashes'
    <3>1. r.run \in Nat /\ crashes' \in Nat
      BY Zenon, <2>1, RecordType DEF TypeOK, LogTypeOK, RaftTypeOK
    <3> QED BY <1>7, <2>1, <3>1
  <2>2. \A r, q \in s : /\ r.kind = "entry" /\ q.kind = "entry" /\ q.group = r.group
                        /\ q.run = r.run /\ r.id < q.id
                        => r.at <= q.at
    BY Zenon, <1>4 DEF PruneInv, Ascending
  <2>3. \A r \in disk' : r.kind = "entry" => r \in s
    BY Zenon, <1>6
  <2> QED BY Zenon, <2>1, <2>2, <2>3 DEF Ascending
<1>11. TornLast'
  <2>1. ASSUME NEW r \in s, r.kind = "torn", NEW q \in s, q.seg = r.seg, q.run = r.run
        PROVE  q.id <= r.id
    BY Zenon, <1>4, <2>1 DEF PruneInv, TornLast
  <2>2. ASSUME NEW x \in disk \ s, NEW q \in s, q.seg = x.seg PROVE q.id <= x.id
    <3>1. ~(x.id < q.id)
      BY Zenon, <1>4, <2>2
    <3>2. x.id \in Nat /\ q.id \in Nat
      BY Zenon, <1>4, <2>2
    <3> QED BY <3>1, <3>2
  <2>3. CASE disk' = s
    BY Zenon, <1>7, <2>1, <2>3 DEF TornLast
  <2>4. ASSUME NEW x \in disk \ s, disk' = s \cup {[x EXCEPT !.kind = "torn"]}
        PROVE  TornLast'
    <3>1. PICK y : y = [x EXCEPT !.kind = "torn"]
      BY Zenon
    <3>2. y.id = x.id /\ y.run = x.run /\ y.seg = x.seg /\ y.kind = "torn"
      BY Zenon, <1>5, <3>1
    <3>3. disk' = s \cup {y} /\ y.id <= y.id
      <4>1. x.id \in Nat
        BY Zenon
      <4>2. y.id <= y.id
        BY <3>2, <4>1
      <4> QED BY Zenon, <2>4, <3>1, <4>2
    \* An older torn record of the segment is behind x, or of another run.
    <3>4. ASSUME NEW r \in s, r.kind = "torn", r.seg = y.seg, r.run = y.run PROVE y.id <= r.id
      BY Zenon, <1>4, <3>2, <3>4 DEF PruneInv, TornLast
    <3> QED BY Zenon, <1>7, <2>1, <2>2, <3>2, <3>3, <3>4 DEF TornLast
  <2> QED BY Zenon, <1>3, <2>3, <2>4
<1> QED BY Zenon, <1>1, <1>2, <1>9, <1>10, <1>11, FreeOnItsWay DEF PruneInv

\* Where a group filled a segment alone in one run, lastIndexOfSegment is at or above
\* every entry in it, with a torn record at its end or without.
LEMMA LastIndexBounds ==
    ASSUME TypeOK, PruneInv, NEW g \in Groups, NEW s, FilledAlone(g, s),
           NEW r \in InSegment(s), r.kind = "entry"
    PROVE  r.at <= LastIndex(s)
<1> USE PruneTypes
<1> DEFINE S == InSegment(s)
           W == {x \in S : \A q \in S : q.kind = "torn" => x.id < q.id}
           T == {last - q.id : q \in W}
<1>1. /\ S \subseteq disk /\ \A q \in S : q.seg = s /\ q.id <= last
      /\ \A q \in S : q.group = g /\ q.run = r.run
  BY Zenon DEF InSegment, PruneInv, Named, FilledAlone
<1>2. \A q \in S : q.id \in Nat /\ q.at \in Nat
  BY Zenon, <1>1
<1>3. r \in W
  <2> SUFFICES ASSUME NEW q \in S, q.kind = "torn" PROVE r.id < q.id
    BY Zenon
  <2>1. r.id <= q.id
    BY Zenon, <1>1 DEF PruneInv, TornLast
  <2>2. r.id # q.id
    BY Zenon, <1>1 DEF PruneInv, Named
  <2> QED BY <1>2, <2>1, <2>2
<1>4. PICK x \in W : \A q \in W : q.id <= x.id
  <2>1. T \in SUBSET Nat /\ T # {}
    <3>1. \A q \in W : last - q.id \in Nat
      BY <1>1, <1>2
    <3> QED BY Zenon, <1>3, <3>1
  <2>2. PICK x \in W : Min(T) = last - x.id
    BY Zenon, <2>1, MinOf
  <2>3. \A q \in W : last - x.id <= last - q.id
    <3>1. \A q \in W : last - q.id \in T
      BY Zenon
    <3>2. \A q \in W : Min(T) <= last - q.id
      <4> HIDE DEF T
      <4> QED BY Zenon, <2>1, <3>1, MinOf
    <3> HIDE DEF T, W
    <3> QED BY <2>2, <3>2
  <2>4. \A q \in W : q.id \in Nat
    BY Zenon, <1>2
  <2> HIDE DEF W
  <2> QED BY <2>3, <2>4
<1>5. PICK m : m = CHOOSE y \in W : \A q \in W : q.id <= y.id
  BY Zenon
<1>6. m \in W /\ \A q \in W : q.id <= m.id
  BY Zenon, <1>4, <1>5
<1>7. LastIndex(s) = m.at
  BY Zenon, <1>3, <1>5 DEF LastIndex
<1>8. m \in S /\ m.kind = "entry"
  <2>1. m \in S /\ m.id \in Nat /\ (m.kind = "torn" => m.id < m.id)
    BY Zenon, <1>2, <1>6
  <2>2. m.kind # "torn"
    BY <2>1
  <2>3. m.kind # "command"
    BY Zenon, <1>1, <2>1, IdleHolder DEF PruneInv, Named
  <2>4. m.kind \in Kinds
    BY Zenon, <1>1, <2>1 DEF Records
  <2> QED BY Zenon, <2>1, <2>2, <2>3, <2>4 DEF Kinds
<1>9. CASE r.id = m.id
  <2>1. r = m
    BY Zenon, <1>1, <1>8, <1>9 DEF PruneInv, Named
  <2> QED BY <1>2, <1>7, <2>1
<1>10. CASE r.id < m.id
  BY Zenon, <1>1, <1>7, <1>8, <1>10 DEF PruneInv, Ascending
<1>11. r.id <= m.id /\ r.id \in Nat /\ m.id \in Nat
  BY Zenon, <1>2, <1>3, <1>6, <1>8
<1> HIDE DEF S, W
<1> QED BY <1>9, <1>10, <1>11

\* Only a prune and a crash take records away.
LEMMA OnlyPruneRemoves ==
    ASSUME [Next]_vars PROVE disk \subseteq disk' \/ Crash \/ \E g \in Groups : PruneRemove(g)
<1>1. ASSUME NEW t \in Threads, \/ LogCommand(t) \/ LogCommandRotates(t) \/ LogCommandRotated(t)
                                \/ LogCommandFails(t) \/ Sync(t)
      PROVE  disk \subseteq disk'
  BY Zenon, <1>1 DEF LogCommand, LogCommandRotates, LogCommandRotated, LogCommandFails, Write, WriteNext,
              Sync, SyncFast, SyncWait, SyncLead, LeadSync, LeadDone, LeadFails, logVars
<1>2. ASSUME \/ TickSync \/ TickDone \/ TimedRotation \/ TimedRotated \/ TickerFails
             \/ UNCHANGED vars
      PROVE  disk \subseteq disk'
  BY Zenon, <1>2 DEF TickSync, TickDone, TimedRotation, TimedRotated, TickerFails, logVars, vars
<1>3. ASSUME NEW g \in Groups,
             \/ \E k \in 1..setting.index : StageHardState(g, k)
             \/ \E f \in 1..raftLog[g].index : Snapshot(g, f)
             \/ LogEntry(g) \/ LogEntryRotates(g) \/ LogEntryRotated(g) \/ LogEntryFails(g)
             \/ SkipEntry(g) \/ PruneSync(g) \/ PruneList(g) \/ PruneFails(g)
      PROVE  disk \subseteq disk'
  BY Zenon, <1>3 DEF StageHardState, Snapshot, LogEntry, Write, WriteNext, LogEntryRotates,
              LogEntryRotated, LogEntryFails, SkipEntry, PruneSync, PruneList, PruneFails, logVars
<1> QED BY Zenon, <1>1, <1>2, <1>3 DEF Next, Release

\* For any number of raft groups that log and prune in the same files, of IO threads,
\* of rotations and of crashes with torn records: where PruneThrough, called for a
\* group, removes a segment that this group filled alone in one run of the process,
\* it removes no entry above the group's prune floor.
THEOREM PruneSparesEntries == Spec => PruneSparesOwn
<1>1. Init => PruneInv
  <2> SUFFICES ASSUME Init PROVE PruneInv
    BY Zenon
  <2>1. mu.by = "none" /\ mu.by \notin Threads /\ mu.rec.kind = "torn"
    BY Zenon, IdleHolder DEF Init
  <2>2. OnItsWay
    BY Zenon, <2>1 DEF OnItsWay
  <2>3. Named /\ Ascending /\ TornLast
    BY Zenon DEF Init, Named, Ascending, TornLast
  <2>4. \A g \in Groups : pruner[g].target <= floor[g]
    BY DEF Init, Resting
  <2> QED BY Zenon, <2>2, <2>3, <2>4 DEF PruneInv
<1>2. TypeOK /\ TypeOK' /\ PruneInv /\ [Next]_vars => PruneInv'
  <2> SUFFICES ASSUME TypeOK, TypeOK', PruneInv, [Next]_vars PROVE PruneInv'
    BY Zenon
  <2>1. CASE Next
    BY Zenon, <2>1, Ranges, PruneCommand, PruneEntry, PruneOthers, PruneRaft, PruneCrash
       DEF Next, Release
  <2>2. CASE UNCHANGED vars
    BY Zenon, <2>2 DEF PruneInv, OnItsWay, Named, Ascending, TornLast,
                vars, logVars, threadVars, raftVars
  <2> QED BY Zenon, <2>1, <2>2
<1>3. TypeOK /\ PruneInv /\ [Next]_vars
        => [\A g \in Groups : pruner'[g] # pruner[g] /\ crashes' = crashes =>
              \A r \in disk \ disk' : r.kind = "entry" /\ FilledAlone(g, r.seg) => r.at <= floor[g]]_vars
  <2> SUFFICES ASSUME TypeOK, PruneInv, [Next]_vars, NEW g \in Groups, pruner'[g] # pruner[g],
                      crashes' = crashes, NEW r \in disk \ disk', r.kind = "entry", FilledAlone(g, r.seg)
               PROVE  r.at <= floor[g]
    BY Zenon
  <2> USE PruneTypes
  <2>1. PruneRemove(g)
    <3>1. ~Crash
      <4>1. Crash => crashes' = crashes + 1
        BY Zenon DEF Crash
      <4> QED BY <4>1
    <3>2. PICK h \in Groups : PruneRemove(h)
      BY Zenon, <3>1, OnlyPruneRemoves
    <3>3. h = g
      BY Zenon, <3>2, PrunerSteps
    <3> QED BY Zenon, <3>2, <3>3
  <2> DEFINE old == {s \in 0..(pruner[g].upto - 1) : LastIndex(s) \in 1..pruner[g].target}
  <2>2. old # {} /\ r \in InSegment(Min(old))
    BY Zenon, <2>1 DEF PruneRemove
  <2>3. Min(old) \in old /\ r.seg = Min(old)
    <3>1. old \in SUBSET Nat
      OBVIOUS
    <3>2. r.seg = Min(old)
      BY Zenon, <2>2 DEF InSegment
    <3> HIDE DEF old
    <3> QED BY Zenon, <2>2, <3>1, <3>2, MinOf
  <2>4. r.at <= LastIndex(Min(old))
    BY Zenon, <2>2, <2>3, LastIndexBounds
  <2>5. LastIndex(Min(old)) \in 1..pruner[g].target
    BY Zenon, <2>3
  <2>6. pruner[g].target <= floor[g] /\ r.at \in Nat /\ pruner[g].target \in Nat /\ floor[g] \in Nat
    BY Zenon DEF PruneInv
  <2> HIDE DEF old
  <2> QED BY <2>4, <2>5, <2>6
<1> QED BY <1>1, <1>2, <1>3, ForgeTypeCorrect, PTL DEF Spec, PruneSparesOwn
=============================================================================
