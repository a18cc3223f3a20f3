---------------------------- MODULE PlacementProofs ----------------------------
(***************************************************************************)
(* The choice of GPUs, for every set of candidates and every constraint.    *)
(***************************************************************************)
EXTENDS Placement, FiniteSetTheorems, WellFoundedInduction, TLAPS

\* Induction over finite sets: where some set fails, a smallest one does.
LEMMA Smallest ==
  ASSUME NEW S, IsFiniteSet(S), NEW B, B \subseteq SUBSET S, B # {}
  PROVE  \E t \in B : \A u \in B : u \subseteq t => u = t
<1>1. IsWellFoundedOn(StrictSubsetOrdering(S), SUBSET S)
  BY FS_StrictSubsetOrderingWellFounded, FS_FiniteSubsetsOfFinite
<1>2. PICK t \in B : \A u \in B : ~ (<<u, t>> \in StrictSubsetOrdering(S))
  BY <1>1, WFMin
<1> QED
  BY <1>2 DEF StrictSubsetOrdering

-----------------------------------------------------------------------------
(* The first of a set, in some order *)

\* Q is a set of pairs that orders S.
Ordered(S, Q) ==
    /\ \A x \in S : <<x, x>> \notin Q
    /\ \A x, y, z \in S : <<x, y>> \in Q /\ <<y, z>> \in Q => <<x, z>> \in Q
    /\ \A x, y \in S : x # y => <<x, y>> \in Q \/ <<y, x>> \in Q

Below(S, Q, x) == {y \in S : <<y, x>> \in Q}

Firsts(S, Q, n) == {x \in S : Cardinality(Below(S, Q, x)) < n}

LEMMA SubsetSizes ==
  ASSUME NEW S, IsFiniteSet(S), NEW T \in SUBSET S
  PROVE  /\ IsFiniteSet(T) /\ Cardinality(T) \in Nat /\ Cardinality(S) \in Nat
         /\ Cardinality(T) <= Cardinality(S)
         /\ T # S => Cardinality(T) < Cardinality(S)
<1>1. IsFiniteSet(T) /\ Cardinality(T) <= Cardinality(S) /\ (Cardinality(S) = Cardinality(T) => S = T)
  BY FS_Subset
<1>2. Cardinality(T) \in Nat /\ Cardinality(S) \in Nat
  BY <1>1, FS_CardinalityType
<1> QED
  BY <1>1, <1>2

\* What is further up in the order has more below it.
LEMMA Ranked ==
  ASSUME NEW S, IsFiniteSet(S), NEW Q, Ordered(S, Q)
  PROVE  /\ \A x \in S : /\ Cardinality(Below(S, Q, x)) \in Nat
                         /\ Cardinality(Below(S, Q, x)) < Cardinality(S)
         /\ \A x, y \in S : <<x, y>> \in Q
               => Cardinality(Below(S, Q, x)) < Cardinality(Below(S, Q, y))
<1>1. ASSUME NEW x \in S
      PROVE  Cardinality(Below(S, Q, x)) \in Nat /\ Cardinality(Below(S, Q, x)) < Cardinality(S)
  <2>1. Below(S, Q, x) \in SUBSET S /\ Below(S, Q, x) # S
    BY DEF Below, Ordered
  <2> QED
    BY <2>1, SubsetSizes
<1>2. ASSUME NEW x \in S, NEW y \in S, <<x, y>> \in Q
      PROVE  Cardinality(Below(S, Q, x)) < Cardinality(Below(S, Q, y))
  <2>1. Below(S, Q, x) \in SUBSET Below(S, Q, y) /\ x \in Below(S, Q, y) /\ x \notin Below(S, Q, x)
    BY <1>2 DEF Below, Ordered
  <2>2. Below(S, Q, y) \in SUBSET S
    BY DEF Below
  <2>3. IsFiniteSet(Below(S, Q, y))
    BY <2>2, SubsetSizes
  <2> QED
    BY <2>1, <2>3, SubsetSizes
<1> QED
  BY <1>1, <1>2

\* The first n of a set are n, or all of it.
LEMMA CountFirsts ==
  ASSUME NEW S, IsFiniteSet(S), NEW Q, Ordered(S, Q), NEW n \in Nat
  PROVE  /\ Firsts(S, Q, n) \in SUBSET S /\ IsFiniteSet(Firsts(S, Q, n))
         /\ Cardinality(Firsts(S, Q, n)) = IF n <= Cardinality(S) THEN n ELSE Cardinality(S)
<1> DEFINE c == Cardinality(S)  F == Firsts(S, Q, n)
           r == [x \in S |-> Cardinality(Below(S, Q, x)) + 1]
<1>1. c \in Nat /\ F \in SUBSET S /\ IsFiniteSet(F)
  <2>1. F \in SUBSET S
    BY DEF Firsts
  <2> QED
    BY <2>1, FS_Subset, FS_CardinalityType
<1>2. \A x \in S : r[x] \in 1 .. c /\ (x \in F <=> r[x] <= n)
  BY <1>1, Ranked DEF Firsts
<1>3. \A x, y \in S : r[x] = r[y] => x = y
  <2> SUFFICES ASSUME NEW x \in S, NEW y \in S, x # y PROVE r[x] # r[y]
    OBVIOUS
  <2>1. <<x, y>> \in Q \/ <<y, x>> \in Q
    BY DEF Ordered
  <2>2. Cardinality(Below(S, Q, x)) \in Nat /\ Cardinality(Below(S, Q, y)) \in Nat
    BY Ranked
  <2>3. Cardinality(Below(S, Q, x)) # Cardinality(Below(S, Q, y))
    BY <2>1, <2>2, Ranked
  <2> QED
    BY <2>2, <2>3
<1>4. r \in Injection(S, 1 .. c)
  BY <1>2, <1>3 DEF Injection, IsInjective
<1>5. IsFiniteSet(1 .. c) /\ Cardinality(1 .. c) = c
  BY <1>1, FS_Interval
<1>6. r \in Surjection(S, 1 .. c)
  BY <1>4, <1>5, FS_Injection
<1>7. \A k \in 1 .. c : \E x \in S : r[x] = k
  BY <1>6 DEF Surjection
<1> HIDE DEF c, F, r
<1> DEFINE m == IF n <= c THEN n ELSE c
           s == [x \in F |-> r[x]]
<1>8. m \in Nat /\ m <= n /\ m <= c /\ \A k \in 1 .. c : k <= n => k <= m
  BY <1>1
<1>9. \A x \in F : s[x] \in 1 .. m
  BY <1>1, <1>2, <1>8
<1>10. s \in Bijection(F, 1 .. m)
  <2>1. s \in Injection(F, 1 .. m)
    BY <1>1, <1>3, <1>9 DEF Injection, IsInjective
  <2>2. s \in Surjection(F, 1 .. m)
    <3> SUFFICES ASSUME NEW k \in 1 .. m PROVE \E x \in F : s[x] = k
      BY <1>9 DEF Surjection
    <3>1. PICK x \in S : r[x] = k
      BY <1>1, <1>7, <1>8
    <3> QED
      BY <1>2, <1>8, <3>1
  <2> QED
    BY <2>1, <2>2 DEF Bijection
<1>11. Cardinality(F) = Cardinality(1 .. m)
  BY <1>1, <1>10, FS_Bijection DEF ExistsBijection
<1>12. Cardinality(1 .. m) = m
  BY <1>8, FS_Interval
<1> QED
  BY <1>1, <1>11, <1>12 DEF F, c

\* The first n stay the first where others are taken away.
LEMMA FirstsStay ==
  ASSUME NEW S, IsFiniteSet(S), NEW Q, Ordered(S, Q), NEW n \in Nat,
         NEW T \in SUBSET S, Firsts(S, Q, n) \subseteq T
  PROVE  Firsts(T, Q, n) = Firsts(S, Q, n)
<1> DEFINE F == Firsts(S, Q, n)
<1>1. ASSUME NEW x \in F PROVE x \in Firsts(T, Q, n)
  <2>1. Below(T, Q, x) \in SUBSET Below(S, Q, x) /\ Below(S, Q, x) \in SUBSET S
    BY DEF Below
  <2>2. IsFiniteSet(Below(S, Q, x))
    BY <2>1, SubsetSizes
  <2>3. /\ Cardinality(Below(T, Q, x)) \in Nat /\ Cardinality(Below(S, Q, x)) \in Nat
        /\ Cardinality(Below(T, Q, x)) <= Cardinality(Below(S, Q, x))
    BY <2>1, <2>2, SubsetSizes
  <2> QED
    BY <2>3 DEF Firsts
<1>2. ASSUME NEW x \in T, x \notin F PROVE x \notin Firsts(T, Q, n)
  <2>1. Cardinality(Below(S, Q, x)) \in Nat /\ Cardinality(Below(S, Q, x)) >= n
        /\ Cardinality(Below(S, Q, x)) < Cardinality(S)
    BY <1>2, Ranked DEF Firsts
  <2>2. ASSUME NEW y \in F PROVE <<y, x>> \in Q
    <3>1. y \in S /\ Cardinality(Below(S, Q, y)) < n /\ Cardinality(Below(S, Q, y)) \in Nat
      BY Ranked DEF Firsts
    <3>2. CASE <<x, y>> \in Q
      BY <2>1, <3>1, <3>2, Ranked
    <3> QED
      BY <1>2, <3>1, <3>2 DEF Ordered
  <2>3. F \in SUBSET Below(T, Q, x) /\ Below(T, Q, x) \in SUBSET S
    BY <2>2 DEF Below
  <2>4. Cardinality(F) = n
    <3>1. Cardinality(S) \in Nat
      BY FS_CardinalityType
    <3> QED
      BY <2>1, <3>1, CountFirsts
  <2>5. IsFiniteSet(Below(T, Q, x))
    BY <2>3, SubsetSizes
  <2>6. Cardinality(Below(T, Q, x)) \in Nat /\ n <= Cardinality(Below(T, Q, x))
    BY <2>3, <2>4, <2>5, SubsetSizes
  <2> QED
    BY <2>6 DEF Firsts
<1> QED
  BY <1>1, <1>2 DEF Firsts

-----------------------------------------------------------------------------
(* GPUs and servers *)

\* As many disjoint sets of n elements as H has elements.
LEMMA UnionSize ==
  ASSUME NEW H, IsFiniteSet(H), NEW f, NEW n \in Nat,
         \A h \in H : IsFiniteSet(f[h]) /\ Cardinality(f[h]) = n,
         \A g, h \in H : g # h => f[g] \cap f[h] = {}
  PROVE  LET U == UNION {f[h] : h \in H}
         IN  IsFiniteSet(U) /\ Cardinality(U) = Cardinality(H) * n
<1> DEFINE W(t) == UNION {f[h] : h \in t}
           B == {t \in SUBSET H : ~ (IsFiniteSet(W(t)) /\ Cardinality(W(t)) = Cardinality(t) * n)}
<1>1. SUFFICES ASSUME B # {} PROVE FALSE
  OBVIOUS
<1>2. PICK t \in B : \A u \in B : u \subseteq t => u = t
  <2>1. B \subseteq SUBSET H
    OBVIOUS
  <2> HIDE DEF B
  <2> QED
    BY <1>1, <2>1, Smallest
<1>3. t # {}
  <2> SUFFICES ASSUME t = {} PROVE FALSE
    OBVIOUS
  <2>1. W(t) = {}
    OBVIOUS
  <2>2. Cardinality({}) = 0 /\ IsFiniteSet({}) /\ 0 * n = 0
    BY FS_EmptySet
  <2> QED
    BY <1>2, <2>1, <2>2
<1>4. PICK h \in t : TRUE
  BY <1>3
<1> DEFINE u == t \ {h}
<1>5. h \in H /\ t \in SUBSET H /\ u \in SUBSET H /\ u # t /\ u \subseteq t
  BY <1>2, <1>4
<1>6. IsFiniteSet(W(u)) /\ Cardinality(W(u)) = Cardinality(u) * n
  BY <1>2, <1>5
<1>7. W(t) = W(u) \cup f[h] /\ W(u) \cap f[h] = {}
  BY <1>4, <1>5
<1>8. IsFiniteSet(f[h]) /\ Cardinality(f[h]) = n
  BY <1>5
<1> HIDE DEF W, B
<1>9. IsFiniteSet(W(t)) /\ Cardinality(W(t)) = Cardinality(W(u)) + n
  <2>1. Cardinality({}) = 0 /\ Cardinality(W(u)) \in Nat
    BY <1>6, FS_EmptySet, FS_CardinalityType
  <2>2. /\ IsFiniteSet(W(u) \cup f[h])
        /\ Cardinality(W(u) \cup f[h]) = Cardinality(W(u)) + Cardinality(f[h]) - Cardinality(W(u) \cap f[h])
    BY <1>6, <1>8, FS_Union
  <2>3. Cardinality(W(u) \cap f[h]) = 0
    BY <1>7, <2>1
  <2>4. Cardinality(W(u) \cup f[h]) = Cardinality(W(u)) + n - 0
    BY <1>8, <2>2, <2>3
  <2>5. Cardinality(W(u) \cup f[h]) = Cardinality(W(u)) + n
    BY <2>1, <2>4
  <2> QED
    BY <1>7, <2>2, <2>5
<1>10. IsFiniteSet(t) /\ Cardinality(t) \in Nat /\ Cardinality(u) \in Nat
       /\ Cardinality(t) = Cardinality(u) + 1
  <2>1. IsFiniteSet(t) /\ IsFiniteSet(u) /\ Cardinality(t) \in Nat /\ Cardinality(u) \in Nat
    BY <1>5, SubsetSizes
  <2>2. Cardinality(u) = Cardinality(t) - 1
    BY <1>4, <2>1, FS_RemoveElement
  <2> QED
    BY <2>1, <2>2
<1>11. Cardinality(u) * n + n = (Cardinality(u) + 1) * n
  <2> DEFINE m == Cardinality(u)
  <2>1. m \in Nat
    BY <1>10
  <2> HIDE DEF m
  <2>2. m * n + n = (m + 1) * n
    BY <2>1
  <2> QED
    BY <2>2 DEF m
<1> QED
  BY <1>2, <1>6, <1>9, <1>10, <1>11 DEF B

LEMMA GpusAre ==
  ASSUME NEW C \in SUBSET Gpu
  PROVE  /\ IsFiniteSet(C) /\ Cardinality(C) \in Nat
         /\ Hosts(C) \in SUBSET Host /\ IsFiniteSet(Hosts(C)) /\ Cardinality(Hosts(C)) \in Nat
         /\ \A h : On(C, h) \in SUBSET C /\ IsFiniteSet(On(C, h)) /\ Cardinality(On(C, h)) \in Nat
         /\ \A h : h \in Hosts(C) <=> On(C, h) # {}
         /\ \A h \in Hosts(C) : Cardinality(On(C, h)) > 0
<1>1. IsFiniteSet(Gpu)
  BY PlacementAssumption, FS_Product DEF Gpu
<1>2. IsFiniteSet(C) /\ Cardinality(C) \in Nat
  BY <1>1, SubsetSizes
<1>3. Hosts(C) \in SUBSET Host
  BY DEF Hosts, Gpu
<1>4. IsFiniteSet(Hosts(C)) /\ Cardinality(Hosts(C)) \in Nat
  BY <1>3, PlacementAssumption, SubsetSizes
<1>5. \A h : On(C, h) \in SUBSET C
  BY DEF On
<1>6. \A h : IsFiniteSet(On(C, h)) /\ Cardinality(On(C, h)) \in Nat
  BY <1>2, <1>5, SubsetSizes
<1>7. \A h : h \in Hosts(C) <=> On(C, h) # {}
  BY DEF On, Hosts
<1>8. \A h \in Hosts(C) : Cardinality(On(C, h)) > 0
  BY <1>6, <1>7, FS_EmptySet
<1> QED
  BY <1>2, <1>3, <1>4, <1>5, <1>6, <1>7, <1>8

\* A set with n GPUs on each of its servers.
LEMMA EvenlyLoaded ==
  ASSUME NEW C \in SUBSET Gpu, NEW n \in Nat, \A h \in Hosts(C) : Cardinality(On(C, h)) = n
  PROVE  Cardinality(C) = Cardinality(Hosts(C)) * n
<1> DEFINE f == [h \in Hosts(C) |-> On(C, h)]
<1>1. \A h \in Hosts(C) : IsFiniteSet(f[h]) /\ Cardinality(f[h]) = n
  BY GpusAre
<1>2. \A g, h \in Hosts(C) : g # h => f[g] \cap f[h] = {}
  BY DEF On
<1>3. C = UNION {f[h] : h \in Hosts(C)}
  <2>1. ASSUME NEW g \in C PROVE g[1] \in Hosts(C) /\ g \in f[g[1]]
    BY DEF On, Hosts
  <2>2. \A h \in Hosts(C) : f[h] \subseteq C
    BY DEF On
  <2> HIDE DEF f
  <2> QED
    BY <2>1, <2>2
<1>4. IsFiniteSet(Hosts(C))
  BY GpusAre
<1> HIDE DEF f
<1>5. Cardinality(UNION {f[h] : h \in Hosts(C)}) = Cardinality(Hosts(C)) * n
  BY <1>1, <1>2, <1>4, UnionSize
<1> QED
  BY <1>3, <1>5

\* The GPUs of one server are known by their indices.
LEMMA SameIndices ==
  ASSUME NEW C \in SUBSET Gpu, NEW h, \A g \in C : g[1] = h
  PROVE  LET X == {g[2] : g \in C}
         IN  X \in SUBSET Index /\ IsFiniteSet(X) /\ Cardinality(X) = Cardinality(C)
<1> DEFINE X == {g[2] : g \in C}  f == [g \in C |-> g[2]]
<1>1. X \in SUBSET Index
  BY DEF Gpu
<1>2. \A g \in C : g \in Host \X Index /\ g = <<h, g[2]>>
  BY DEF Gpu
<1>3. f \in Bijection(C, X)
  <2>1. f \in Injection(C, X)
    BY <1>2 DEF Injection, IsInjective
  <2>2. f \in Surjection(C, X)
    BY DEF Surjection
  <2> QED
    BY <2>1, <2>2 DEF Bijection
<1>4. IsFiniteSet(C)
  BY GpusAre
<1> QED
  BY <1>1, <1>3, <1>4, FS_Bijection DEF ExistsBijection

-----------------------------------------------------------------------------
(* The orders of _select_resources *)

Smaller == {p \in Nat \X Nat : p[1] < p[2]}

Places == {p \in Gpu \X Gpu : Earlier(p[1], p[2])}

Trials(C, c) == {p \in Host \X Host : Before(C, c, p[1], p[2])}

LEMMA NumbersInOrder ==
  ASSUME NEW S \in SUBSET Nat, NEW n
  PROVE  Ordered(S, Smaller) /\ FirstOf(S, n) = Firsts(S, Smaller, n)
<1>1. Ordered(S, Smaller)
  BY DEF Ordered, Smaller
<1>2. \A x \in S : {y \in S : y < x} = Below(S, Smaller, x)
  BY DEF Below, Smaller
<1> QED
  BY <1>1, <1>2 DEF FirstOf, Firsts

LEMMA PlacesInOrder ==
  ASSUME NEW C \in SUBSET Gpu, NEW n
  PROVE  /\ Ordered(C, Places)
         /\ {g \in C : Cardinality({h \in C : Earlier(h, g)}) < n} = Firsts(C, Places, n)
<1>1. \A g \in C : g[1] \in Nat /\ g[2] \in Nat /\ g = <<g[1], g[2]>>
  <2>1. Host \subseteq Nat /\ Index \subseteq Nat
    BY PlacementAssumption
  <2>2. \A g \in Host \X Index : g[1] \in Host /\ g[2] \in Index /\ g = <<g[1], g[2]>>
    OBVIOUS
  <2> QED
    BY <2>1, <2>2 DEF Gpu
<1>2. \A g, h \in C : <<g, h>> \in Places <=> g[1] < h[1] \/ (g[1] = h[1] /\ g[2] < h[2])
  BY DEF Places, Earlier
<1>3. Ordered(C, Places)
  <2>1. \A g \in C : <<g, g>> \notin Places
    BY <1>1, <1>2
  <2>2. \A g, h, k \in C : <<g, h>> \in Places /\ <<h, k>> \in Places => <<g, k>> \in Places
    BY <1>1, <1>2
  <2>3. \A g, h \in C : g # h => <<g, h>> \in Places \/ <<h, g>> \in Places
    <3> SUFFICES ASSUME NEW g \in C, NEW h \in C, g[1] = h[1], g[2] = h[2] PROVE g = h
      BY <1>1, <1>2
    <3> QED
      BY <1>1
  <2> QED
    BY <2>1, <2>2, <2>3 DEF Ordered
<1>4. \A g \in C : {h \in C : Earlier(h, g)} = Below(C, Places, g)
  BY DEF Below, Places
<1> QED
  BY <1>3, <1>4 DEF Firsts

LEMMA TrialsInOrder ==
  ASSUME NEW C \in SUBSET Gpu, NEW c, NEW H \in SUBSET Host, NEW n
  PROVE  /\ Ordered(H, Trials(C, c))
         /\ {h \in H : Cardinality({g \in H : Before(C, c, g, h)}) < n} = Firsts(H, Trials(C, c), n)
<1>1. \A h \in H : h \in Host /\ h \in Nat /\ Cardinality(On(C, h)) \in Nat
  BY GpusAre, PlacementAssumption
<1>2. \A g, h \in H : <<g, h>> \in Trials(C, c) <=> Before(C, c, g, h)
  BY DEF Trials
<1>3. Ordered(H, Trials(C, c))
  <2>1. CASE c.placement = "spread"
    BY <1>1, <1>2, <2>1 DEF Ordered, Before
  <2>2. CASE c.placement # "spread"
    BY <1>1, <1>2, <2>2 DEF Ordered, Before
  <2> QED
    BY <2>1, <2>2
<1>4. \A h \in H : {g \in H : Before(C, c, g, h)} = Below(H, Trials(C, c), h)
  BY <1>2 DEF Below
<1> QED
  BY <1>3, <1>4 DEF Firsts

Indices(C, h) == {g[2] : g \in On(C, h)}

LEMMA IndicesAre ==
  ASSUME NEW C \in SUBSET Gpu, NEW h
  PROVE  /\ Indices(C, h) \in SUBSET Nat /\ IsFiniteSet(Indices(C, h))
         /\ Cardinality(Indices(C, h)) = Cardinality(On(C, h))
<1>1. On(C, h) \in SUBSET Gpu /\ \A g \in On(C, h) : g[1] = h
  BY DEF On
<1> QED
  BY <1>1, SameIndices, PlacementAssumption DEF Indices

LEMMA LowestAre ==
  ASSUME NEW C \in SUBSET Gpu, NEW h, NEW n \in Nat, n <= Cardinality(On(C, h))
  PROVE  /\ Lowest(C, h, n) \in SUBSET On(C, h)
         /\ Cardinality(Lowest(C, h, n)) = n
<1> DEFINE N == Lowest(C, h, n)  X == Indices(C, h)
<1>1. N \in SUBSET On(C, h) /\ N \in SUBSET Gpu /\ \A g \in N : g[1] = h
  BY DEF Lowest, On
<1>2. N = {g \in On(C, h) : g[2] \in Firsts(X, Smaller, n)}
  BY IndicesAre, NumbersInOrder DEF Lowest, On, Indices
<1>3. Firsts(X, Smaller, n) \subseteq X /\ Cardinality(Firsts(X, Smaller, n)) = n
  BY IndicesAre, NumbersInOrder, CountFirsts
<1>4. {g[2] : g \in N} = Firsts(X, Smaller, n)
  BY <1>2, <1>3 DEF Indices
<1>5. Cardinality({g[2] : g \in N}) = Cardinality(N)
  BY <1>1, SameIndices
<1> QED
  BY <1>1, <1>3, <1>4, <1>5

LEMMA LowestStay ==
  ASSUME NEW C \in SUBSET Gpu, NEW h, NEW n \in Nat, NEW D \in SUBSET C, Lowest(C, h, n) \subseteq D
  PROVE  Lowest(D, h, n) = Lowest(C, h, n)
<1> DEFINE X == Indices(C, h)  Y == Indices(D, h)
<1>1. D \in SUBSET Gpu /\ On(D, h) \subseteq On(C, h) /\ Y \in SUBSET X
  BY DEF On, Indices
<1>2. Lowest(C, h, n) = {g \in On(C, h) : g[2] \in Firsts(X, Smaller, n)}
  BY IndicesAre, NumbersInOrder DEF Lowest, On, Indices
<1>3. Lowest(D, h, n) = {g \in On(D, h) : g[2] \in Firsts(Y, Smaller, n)}
  BY <1>1, IndicesAre, NumbersInOrder DEF Lowest, On, Indices
<1>4. Firsts(X, Smaller, n) \subseteq Y
  <2> SUFFICES ASSUME NEW i \in Firsts(X, Smaller, n) PROVE i \in Y
    OBVIOUS
  <2>1. PICK g \in On(C, h) : g[2] = i
    BY DEF Firsts, Indices
  <2>2. g \in Lowest(C, h, n)
    BY <1>2, <2>1
  <2>3. g \in On(D, h)
    BY <2>1, <2>2 DEF On
  <2> QED
    BY <2>1, <2>3 DEF Indices
<1>5. Firsts(Y, Smaller, n) = Firsts(X, Smaller, n)
  BY <1>1, <1>4, IndicesAre, NumbersInOrder, FirstsStay
<1>6. Lowest(C, h, n) \subseteq On(D, h)
  BY <1>2 DEF On
<1> QED
  BY <1>1, <1>2, <1>3, <1>5, <1>6

-----------------------------------------------------------------------------
(* n GPUs on each of m servers *)

Taken(C, c, m, n) == Firsts(LargeEnough(C, n), Trials(C, c), m)

\* The servers that have n candidates, and the first m of them.
LEMMA TakenAre ==
  ASSUME NEW C \in SUBSET Gpu, NEW c, NEW m \in Nat, NEW n \in Nat \ {0}
  PROVE  /\ LargeEnough(C, n) \in SUBSET Host /\ IsFiniteSet(LargeEnough(C, n))
         /\ Cardinality(LargeEnough(C, n)) \in Nat
         /\ \A h : h \in LargeEnough(C, n) <=> h \in Host /\ Cardinality(On(C, h)) >= n
         /\ Ordered(LargeEnough(C, n), Trials(C, c))
         /\ Taken(C, c, m, n) \subseteq LargeEnough(C, n)
         /\ FromHosts(C, c, m, n) =
              IF Cardinality(LargeEnough(C, n)) < m THEN None
              ELSE UNION {Lowest(C, h, n) : h \in Taken(C, c, m, n)}
<1>1. LargeEnough(C, n) \in SUBSET Host
  BY GpusAre DEF LargeEnough
<1>2. IsFiniteSet(LargeEnough(C, n)) /\ Cardinality(LargeEnough(C, n)) \in Nat
  BY <1>1, PlacementAssumption, SubsetSizes
<1>3. ASSUME NEW h PROVE h \in LargeEnough(C, n) <=> h \in Host /\ Cardinality(On(C, h)) >= n
  <2>1. h \in Host /\ Cardinality(On(C, h)) >= n => h \in Hosts(C)
    <3> SUFFICES ASSUME Cardinality(On(C, h)) >= n, On(C, h) = {} PROVE FALSE
      BY GpusAre
    <3>1. Cardinality(On(C, h)) = 0
      BY FS_EmptySet
    <3> QED
      BY <3>1
  <2> QED
    BY <1>1, <2>1 DEF LargeEnough
<1>4. Ordered(LargeEnough(C, n), Trials(C, c))
      /\ {h \in LargeEnough(C, n) :
             Cardinality({g \in LargeEnough(C, n) : Before(C, c, g, h)}) < m} = Taken(C, c, m, n)
  BY <1>1, TrialsInOrder DEF Taken
<1>5. Taken(C, c, m, n) \subseteq LargeEnough(C, n)
  BY DEF Taken, Firsts
<1>6. FromHosts(C, c, m, n) =
        IF Cardinality(LargeEnough(C, n)) < m THEN None
        ELSE UNION {Lowest(C, h, n) : h \in Taken(C, c, m, n)}
  BY <1>4 DEF FromHosts
<1> QED
  BY <1>1, <1>2, <1>3, <1>4, <1>5, <1>6

LEMMA FromHostsGives ==
  ASSUME NEW C \in SUBSET Gpu, NEW c, NEW m \in Nat, NEW n \in Nat \ {0},
         Cardinality(LargeEnough(C, n)) >= m,
         NEW S, S = FromHosts(C, c, m, n)
  PROVE  /\ S \in SUBSET C
         /\ Hosts(S) = Taken(C, c, m, n) /\ Cardinality(Hosts(S)) = m
         /\ \A h \in Hosts(S) : On(S, h) = Lowest(C, h, n) /\ Cardinality(On(S, h)) = n
         /\ Cardinality(S) = m * n
<1> DEFINE T == Taken(C, c, m, n)
<1>1. S = UNION {Lowest(C, h, n) : h \in T}
  BY TakenAre
<1>2. \A h \in T : Lowest(C, h, n) \in SUBSET On(C, h) /\ Cardinality(Lowest(C, h, n)) = n
  <2> SUFFICES ASSUME NEW h \in T
               PROVE  Lowest(C, h, n) \in SUBSET On(C, h) /\ Cardinality(Lowest(C, h, n)) = n
    OBVIOUS
  <2>1. n <= Cardinality(On(C, h))
    BY TakenAre, GpusAre
  <2> QED
    BY <2>1, LowestAre
<1>3. S \in SUBSET C
  BY <1>1, <1>2 DEF On
<1>4. \A h \in T : On(S, h) = Lowest(C, h, n)
  BY <1>1, <1>2 DEF On
<1>5. Hosts(S) = T
  <2>1. \A h \in T : Lowest(C, h, n) # {}
    BY <1>2, FS_EmptySet
  <2>2. \A h : h \in Hosts(S) <=> On(S, h) # {}
    BY <1>3, GpusAre
  <2>3. \A h : On(S, h) # {} => h \in T
    BY <1>1, <1>2 DEF On
  <2> QED
    BY <1>4, <2>1, <2>2, <2>3
<1>6. Cardinality(T) = m
  BY TakenAre, CountFirsts DEF Taken
<1>7. \A h \in Hosts(S) : Cardinality(On(S, h)) = n
  BY <1>2, <1>4, <1>5
<1>8. Cardinality(S) = m * n
  BY <1>3, <1>5, <1>6, <1>7, EvenlyLoaded
<1> QED
  BY <1>3, <1>4, <1>5, <1>6, <1>7, <1>8

\* The same GPUs are taken where others are not offered, if the servers are tried
\* as they are.
LEMMA FromHostsStays ==
  ASSUME NEW C \in SUBSET Gpu, NEW c, c.placement # "spread", NEW m \in Nat, NEW n \in Nat \ {0},
         Cardinality(LargeEnough(C, n)) >= m,
         NEW D \in SUBSET C, FromHosts(C, c, m, n) \subseteq D
  PROVE  FromHosts(D, c, m, n) = FromHosts(C, c, m, n)
<1> DEFINE S == FromHosts(C, c, m, n)  T == Taken(C, c, m, n)
<1>1. /\ S \in SUBSET C /\ Hosts(S) = T /\ Cardinality(T) = m
      /\ \A h \in T : On(S, h) = Lowest(C, h, n) /\ Cardinality(On(S, h)) = n
  BY FromHostsGives
<1>2. S = UNION {Lowest(C, h, n) : h \in T}
  BY TakenAre
<1>3. D \in SUBSET Gpu
  OBVIOUS
<1>4. \A h : /\ Cardinality(On(D, h)) \in Nat /\ Cardinality(On(C, h)) \in Nat
             /\ Cardinality(On(D, h)) <= Cardinality(On(C, h))
  <2> SUFFICES ASSUME NEW h
               PROVE  /\ Cardinality(On(D, h)) \in Nat /\ Cardinality(On(C, h)) \in Nat
                      /\ Cardinality(On(D, h)) <= Cardinality(On(C, h))
    OBVIOUS
  <2>1. On(D, h) \in SUBSET On(C, h) /\ IsFiniteSet(On(C, h))
    BY GpusAre DEF On
  <2> QED
    BY <2>1, SubsetSizes
<1>5. LargeEnough(D, n) \in SUBSET LargeEnough(C, n)
  BY <1>3, <1>4, TakenAre
<1>6. T \subseteq LargeEnough(D, n)
  <2> SUFFICES ASSUME NEW h \in T PROVE h \in LargeEnough(D, n)
    OBVIOUS
  <2>1. On(S, h) \in SUBSET On(D, h) /\ IsFiniteSet(On(D, h))
    BY <1>3, GpusAre DEF On
  <2>2. Cardinality(On(S, h)) <= Cardinality(On(D, h))
    BY <2>1, SubsetSizes
  <2>3. h \in Host
    BY TakenAre
  <2> QED
    BY <1>1, <1>3, <2>2, <2>3, TakenAre
<1>7. Trials(D, c) = Trials(C, c)
  BY DEF Trials, Before
<1>8. Firsts(LargeEnough(D, n), Trials(C, c), m) = T
  BY <1>5, <1>6, TakenAre, FirstsStay DEF Taken
<1>9. Taken(D, c, m, n) = T
  BY <1>7, <1>8 DEF Taken
<1>10. \A h \in T : Lowest(D, h, n) = Lowest(C, h, n)
  BY <1>2, LowestStay
<1>11. ~ (Cardinality(LargeEnough(D, n)) < m)
  <2>1. IsFiniteSet(LargeEnough(D, n)) /\ T \in SUBSET LargeEnough(D, n)
        /\ Cardinality(LargeEnough(D, n)) \in Nat
    BY <1>3, <1>6, TakenAre
  <2> QED
    BY <1>1, <2>1, SubsetSizes
<1>12. FromHosts(D, c, m, n) = UNION {Lowest(D, h, n) : h \in T}
  BY <1>3, <1>9, <1>11, TakenAre
<1> QED
  BY <1>2, <1>10, <1>12

-----------------------------------------------------------------------------
(* One GPU of every server in turn *)

LEMMA HeadsAre ==
  ASSUME NEW D \in SUBSET Gpu
  PROVE  /\ Heads(D) \in SUBSET D
         /\ \A g, h \in Heads(D) : g[1] = h[1] => g = h
         /\ \A h \in Hosts(D) : \E g \in Heads(D) : g[1] = h
<1>1. \A g \in D : g[1] \in Nat /\ g[2] \in Nat /\ g = <<g[1], g[2]>>
  <2>1. Host \subseteq Nat /\ Index \subseteq Nat
    BY PlacementAssumption
  <2>2. \A g \in Host \X Index : g[1] \in Host /\ g[2] \in Index /\ g = <<g[1], g[2]>>
    OBVIOUS
  <2> QED
    BY <2>1, <2>2 DEF Gpu
<1>2. Heads(D) \in SUBSET D
  BY DEF Heads
<1>3. ASSUME NEW g \in Heads(D), NEW h \in Heads(D), g[1] = h[1] PROVE g = h
  <2>1. g[2] <= h[2] /\ h[2] <= g[2]
    BY <1>3 DEF Heads, On
  <2>2. g[2] = h[2]
    BY <1>1, <1>2, <2>1
  <2> QED
    BY <1>1, <1>2, <1>3, <2>2
<1>4. ASSUME NEW h \in Hosts(D) PROVE \E g \in Heads(D) : g[1] = h
  <2> DEFINE O == On(D, h)
  <2>1. O \in SUBSET Gpu /\ O \subseteq D /\ IsFiniteSet(O) /\ Cardinality(O) \in Nat /\ Cardinality(O) > 0
    BY GpusAre
  <2>2. Cardinality(Firsts(O, Places, 1)) = 1 /\ Firsts(O, Places, 1) \subseteq O
        /\ IsFiniteSet(Firsts(O, Places, 1))
    <3>1. Ordered(O, Places)
      BY <2>1, PlacesInOrder
    <3>2. /\ Firsts(O, Places, 1) \in SUBSET O /\ IsFiniteSet(Firsts(O, Places, 1))
          /\ Cardinality(Firsts(O, Places, 1)) = IF 1 <= Cardinality(O) THEN 1 ELSE Cardinality(O)
      BY <2>1, <3>1, CountFirsts
    <3> QED
      BY <2>1, <3>2
  <2>3. PICK g \in O : g \in Firsts(O, Places, 1)
    BY <2>2, FS_EmptySet
  <2>4. Below(O, Places, g) = {}
    <3>1. Below(O, Places, g) \in SUBSET O
      BY DEF Below
    <3>2. IsFiniteSet(Below(O, Places, g)) /\ Cardinality(Below(O, Places, g)) \in Nat
      BY <2>1, <3>1, SubsetSizes
    <3>3. Cardinality(Below(O, Places, g)) < 1
      BY <2>3 DEF Firsts
    <3> QED
      BY <3>2, <3>3, FS_EmptySet
  <2>5. g[1] = h /\ \A x \in O : x[1] = h
    BY DEF On
  <2>6. \A x \in O : g[2] <= x[2]
    <3> SUFFICES ASSUME NEW x \in O, ~ (g[2] <= x[2]) PROVE FALSE
      OBVIOUS
    <3>1. x[2] < g[2] /\ x[1] = g[1]
      BY <1>1, <2>1, <2>5
    <3>2. x \in Gpu /\ g \in Gpu
      BY <2>1
    <3>3. x \in Below(O, Places, g)
      BY <3>1, <3>2 DEF Below, Places, Earlier
    <3> QED
      BY <2>4, <3>3
  <2>7. g \in Heads(D)
    BY <2>1, <2>5, <2>6 DEF Heads
  <2> QED
    BY <2>5, <2>7
<1> QED
  BY <1>2, <1>3, <1>4

LEMMA HeadsOn ==
  ASSUME NEW D \in SUBSET Gpu, NEW X \in SUBSET Heads(D), NEW h
  PROVE  /\ Cardinality(On(X, h)) \in Nat /\ Cardinality(On(X, h)) <= 1
         /\ h \in Hosts(D) => Cardinality(On(Heads(D), h)) = 1
<1>1. X \in SUBSET Gpu
  BY HeadsAre
<1>2. IsFiniteSet(On(X, h)) /\ Cardinality(On(X, h)) \in Nat
  BY <1>1, GpusAre
<1>3. Cardinality(On(X, h)) <= 1
  <2>1. CASE On(X, h) = {}
    BY <2>1, FS_EmptySet
  <2>2. CASE On(X, h) # {}
    <3>1. PICK g \in On(X, h) : TRUE
      BY <2>2
    <3>2. On(X, h) = {g}
      BY <3>1, HeadsAre DEF On
    <3>3. Cardinality({g}) = 1
      BY FS_Singleton
    <3> QED
      BY <3>2, <3>3
  <2> QED
    BY <2>1, <2>2
<1>4. ASSUME h \in Hosts(D) PROVE Cardinality(On(Heads(D), h)) = 1
  <2>1. PICK g \in Heads(D) : g[1] = h
    BY <1>4, HeadsAre
  <2>2. On(Heads(D), h) = {g}
    BY <2>1, HeadsAre DEF On
  <2>3. Cardinality({g}) = 1
    BY FS_Singleton
  <2> QED
    BY <2>2, <2>3
<1> QED
  BY <1>2, <1>3, <1>4

LEMMA RoundIs ==
  ASSUME NEW D \in SUBSET Gpu, NEW m \in Nat
  PROVE  /\ Round(D, m) \in SUBSET Heads(D) /\ Round(D, m) \in SUBSET D
         /\ Cardinality(Round(D, m)) \in Nat /\ Cardinality(Round(D, m)) <= m
         /\ Cardinality(Round(D, m)) < m => Round(D, m) = Heads(D)
         /\ D # {} /\ m # 0 => Round(D, m) # {}
<1> DEFINE H == Heads(D)
<1>1. H \in SUBSET D /\ H \in SUBSET Gpu
  BY HeadsAre
<1>2. IsFiniteSet(H) /\ Cardinality(H) \in Nat /\ Ordered(H, Places)
  BY <1>1, GpusAre, PlacesInOrder
<1>3. Round(D, m) = Firsts(H, Places, m)
  <2>1. ASSUME NEW g \in H, NEW h \in H PROVE Earlier(h, g) <=> h[1] < g[1]
    <3>1. g[1] \in Nat /\ g[2] \in Nat
      BY <1>1, PlacementAssumption DEF Gpu
    <3>2. h[1] = g[1] => h = g
      BY HeadsAre
    <3> QED
      BY <3>1, <3>2 DEF Earlier
  <2>2. \A g \in H : {h \in H : h[1] < g[1]} = {h \in H : Earlier(h, g)}
    BY <2>1
  <2>3. Round(D, m) = {g \in H : Cardinality({h \in H : Earlier(h, g)}) < m}
    BY <2>2 DEF Round
  <2> QED
    BY <1>1, <2>3, PlacesInOrder
<1>4. /\ Round(D, m) \in SUBSET H
      /\ Cardinality(Round(D, m)) = IF m <= Cardinality(H) THEN m ELSE Cardinality(H)
  BY <1>2, <1>3, CountFirsts
<1>5. Cardinality(Round(D, m)) < m => Round(D, m) = H
  <2> SUFFICES ASSUME Cardinality(Round(D, m)) < m, Round(D, m) # H PROVE FALSE
    OBVIOUS
  <2>1. Cardinality(Round(D, m)) = Cardinality(H)
    BY <1>2, <1>4
  <2>2. Cardinality(Round(D, m)) < Cardinality(H)
    BY <1>2, <1>4, SubsetSizes
  <2> QED
    BY <1>2, <2>1, <2>2
<1>6. D # {} /\ m # 0 => Round(D, m) # {}
  <2> SUFFICES ASSUME D # {}, m # 0, Round(D, m) = {} PROVE FALSE
    OBVIOUS
  <2>1. Cardinality(Round(D, m)) = 0
    BY FS_EmptySet
  <2>2. H # {}
    BY HeadsAre DEF Hosts
  <2>3. Round(D, m) = H
    BY <1>5, <2>1
  <2> QED
    BY <2>2, <2>3
<1> QED
  BY <1>1, <1>2, <1>4, <1>5, <1>6

\* What is left to do after a turn, and what to choose from.
Left(D, m) == m - Cardinality(Round(D, m))
Others(D, m) == D \ Round(D, m)

\* t takes m GPUs of every set D of the candidates in C, in turns.
Turn(t, D, m) ==
    IF D = {} \/ m = 0 THEN {} ELSE Round(D, m) \cup t[Others(D, m)][Left(D, m)]

Turns(t, C, n) == t = [D \in SUBSET C |-> [m \in 0 .. n |-> Turn(t, D, m)]]

LEMMA RoundsIs == ASSUME NEW C, NEW n PROVE Rounds(C, n) = (CHOOSE t : Turns(t, C, n))[C][n]
  BY DEF Rounds, Turns, Turn, Left, Others

LEMMA TurnsAt ==
  ASSUME NEW C \in SUBSET Gpu, NEW n \in Nat, NEW t, Turns(t, C, n), NEW m \in 0 .. n, NEW D \in SUBSET C
  PROVE  t[D][m] = Turn(t, D, m)
<1>1. t[D] = [k \in 0 .. n |-> Turn(t, D, k)]
  BY DEF Turns
<1> QED
  BY <1>1

\* What is left for the turns after the first.
LEMMA LaterTurns ==
  ASSUME NEW n \in Nat, NEW m \in 0 .. n, m # 0, NEW D \in SUBSET Gpu, D # {}
  PROVE  /\ Left(D, m) \in 0 .. n
         /\ Others(D, m) \in SUBSET D /\ Others(D, m) # D
  BY RoundIs DEF Left, Others

LEMMA TurnsDetermined ==
  ASSUME NEW C \in SUBSET Gpu, NEW n \in Nat, NEW t, Turns(t, C, n),
         NEW D \in SUBSET C, NEW u, Turns(u, D, n), NEW E \in SUBSET D, NEW m \in 0 .. n
  PROVE  u[E][m] = t[E][m]
<1> DEFINE B == {X \in SUBSET D : \E i \in 0 .. n : u[X][i] # t[X][i]}
<1>1. SUFFICES ASSUME B # {} PROVE FALSE
  OBVIOUS
<1>2. PICK X \in B : \A Y \in B : Y \subseteq X => Y = X
  <2>1. IsFiniteSet(D) /\ B \subseteq SUBSET D
    BY GpusAre
  <2> HIDE DEF B
  <2> QED
    BY <1>1, <2>1, Smallest
<1>3. PICK i \in 0 .. n : u[X][i] # t[X][i]
  BY <1>2
<1> DEFINE j == Left(X, i)  Y == Others(X, i)
<1>4. X \in SUBSET D /\ X \in SUBSET C /\ X \in SUBSET Gpu
  BY <1>2
<1>5. u[X][i] = Turn(u, X, i) /\ t[X][i] = Turn(t, X, i)
  <2>1. D \in SUBSET Gpu
    OBVIOUS
  <2>2. u[X][i] = Turn(u, X, i)
    BY <1>4, <2>1, TurnsAt
  <2>3. t[X][i] = Turn(t, X, i)
    BY <1>4, TurnsAt
  <2> QED
    BY <2>2, <2>3
<1>6. X # {} /\ i # 0
  BY <1>3, <1>5 DEF Turn
<1>7. j \in 0 .. n /\ Y \in SUBSET X /\ Y # X
  BY <1>4, <1>6, LaterTurns
<1>8. u[Y][j] = t[Y][j]
  <2>1. Y \notin B
    BY <1>2, <1>7
  <2>2. Y \in SUBSET D
    BY <1>4, <1>7
  <2> HIDE DEF j, Y
  <2> QED
    BY <1>7, <2>1, <2>2
<1> QED
  BY <1>3, <1>5, <1>8 DEF Turn

LEMMA TurnsExist ==
  ASSUME NEW C \in SUBSET Gpu, NEW n \in Nat
  PROVE  \E t : Turns(t, C, n)
<1> DEFINE B == {X \in SUBSET C : ~ \E t : Turns(t, X, n)}
<1>1. SUFFICES ASSUME B # {} PROVE FALSE
  OBVIOUS
<1>2. PICK D \in B : \A X \in B : X \subseteq D => X = D
  <2>1. IsFiniteSet(C) /\ B \subseteq SUBSET C
    BY GpusAre
  <2> HIDE DEF B
  <2> QED
    BY <1>1, <2>1, Smallest
<1> DEFINE G == [X \in SUBSET D |-> CHOOSE t : Turns(t, X, n)]
           N == [X \in SUBSET D |-> [m \in 0 .. n |->
                   IF X = {} \/ m = 0 THEN {}
                   ELSE Round(X, m) \cup G[Others(X, m)][Others(X, m)][Left(X, m)]]]
<1>3. D \in SUBSET C /\ D \in SUBSET Gpu
  BY <1>2
<1>4. \A X \in SUBSET D : X # D => Turns(G[X], X, n)
  <2> SUFFICES ASSUME NEW X \in SUBSET D, X # D PROVE Turns(G[X], X, n)
    OBVIOUS
  <2>1. \E t : Turns(t, X, n)
    BY <1>2
  <2> QED
    BY <2>1
<1>5. ASSUME NEW m \in 0 .. n, NEW X \in SUBSET D
      PROVE  N[X][m] = IF X = {} \/ m = 0 THEN {}
                       ELSE Round(X, m) \cup G[Others(X, m)][Others(X, m)][Left(X, m)]
  <2> HIDE DEF G
  <2> QED
    OBVIOUS
<1>6. ASSUME NEW m \in 0 .. n, NEW X \in SUBSET D, m # 0, X # {}
      PROVE  /\ Left(X, m) \in 0 .. n /\ Others(X, m) \in SUBSET X /\ Others(X, m) # X
             /\ Others(X, m) \in SUBSET D /\ Others(X, m) # D
  <2>1. Left(X, m) \in 0 .. n /\ Others(X, m) \in SUBSET X /\ Others(X, m) # X
    BY <1>3, <1>6, LaterTurns
  <2> QED
    BY <2>1
<1> HIDE DEF N, G
<1>7. ASSUME NEW m \in 0 .. n, NEW X \in SUBSET D, X # D PROVE N[X][m] = G[X][X][m]
  <2>1. Turns(G[X], X, n) /\ X \in SUBSET Gpu /\ X \in SUBSET X
    BY <1>3, <1>4, <1>7
  <2>2. G[X][X][m] = Turn(G[X], X, m)
    <3> DEFINE h == G[X]
    <3>1. Turns(h, X, n)
      BY <2>1
    <3> HIDE DEF h
    <3>2. h[X][m] = Turn(h, X, m)
      BY <2>1, <3>1, TurnsAt
    <3> QED
      BY <3>2 DEF h
  <2>3. CASE X = {} \/ m = 0
    BY <1>5, <2>2, <2>3 DEF Turn
  <2>4. CASE X # {} /\ m # 0
    <3>1. /\ Left(X, m) \in 0 .. n /\ Others(X, m) \in SUBSET X
          /\ Others(X, m) \in SUBSET D /\ Others(X, m) # D
      BY <1>6, <2>4
    <3>2. Turns(G[Others(X, m)], Others(X, m), n)
      BY <1>4, <3>1
    <3>3. G[Others(X, m)][Others(X, m)][Left(X, m)] = G[X][Others(X, m)][Left(X, m)]
      <4> DEFINE h == G[X]  Y == Others(X, m)  k == G[Y]  i == Left(X, m)
      <4>1. /\ X \in SUBSET Gpu /\ Turns(h, X, n)
            /\ Y \in SUBSET X /\ Turns(k, Y, n) /\ Y \in SUBSET Y /\ i \in 0 .. n
        BY <2>1, <3>1, <3>2
      <4> HIDE DEF h, k, Y, i
      <4>2. k[Y][i] = h[Y][i]
        BY ONLY <4>1, n \in Nat, TurnsDetermined
      <4> QED
        BY <4>2 DEF h, k, Y, i
    <3> QED
      BY <1>5, <2>2, <2>4, <3>3 DEF Turn
  <2> QED
    BY <2>3, <2>4
<1>8. ASSUME NEW m \in 0 .. n, NEW X \in SUBSET D
      PROVE  N[X][m] = Turn(N, X, m)
  <2>1. CASE X = {} \/ m = 0
    BY <1>5, <2>1 DEF Turn
  <2>2. CASE X # {} /\ m # 0
    <3>1. N[Others(X, m)][Left(X, m)] = G[Others(X, m)][Others(X, m)][Left(X, m)]
      BY <1>6, <1>7, <2>2
    <3>2. N[X][m] = Round(X, m) \cup N[Others(X, m)][Left(X, m)]
      BY <1>5, <2>2, <3>1
    <3> QED
      BY <2>2, <3>2 DEF Turn
  <2> QED
    BY <2>1, <2>2
<1>9. Turns(N, D, n)
  <2>1. N = [X \in SUBSET D |-> N[X]] /\ \A X \in SUBSET D : N[X] = [m \in 0 .. n |-> N[X][m]]
    BY DEF N
  <2>2. \A X \in SUBSET D : N[X] = [m \in 0 .. n |-> Turn(N, X, m)]
    BY <1>8, <2>1
  <2> QED
    BY <2>1, <2>2 DEF Turns
<1> QED
  BY <1>2, <1>9

\* X takes from D in turns: a server gives a second GPU only after all others that
\* have one have given theirs.
Even(X, D) ==
    \A g \in X, h \in Hosts(D) :
       On(D, h) \subseteq X \/ Cardinality(On(X, g[1])) <= Cardinality(On(X, h)) + 1

\* X is m of the GPUs in D, taken in turns.
InTurns(X, D, m) ==
    /\ X \in SUBSET D
    /\ Cardinality(X) = IF m <= Cardinality(D) THEN m ELSE Cardinality(D)
    /\ Even(X, D)

\* The last turn takes some of the heads.
LEMMA LastTurn ==
  ASSUME NEW D \in SUBSET Gpu, NEW m \in Nat, Cardinality(Round(D, m)) = m
  PROVE  InTurns(Round(D, m), D, m)
<1> DEFINE R == Round(D, m)
<1>1. R \in SUBSET Heads(D) /\ R \in SUBSET D
  BY RoundIs
<1>2. \A h : Cardinality(On(R, h)) \in Nat /\ Cardinality(On(R, h)) <= 1
  BY <1>1, HeadsOn
<1>3. Even(R, D)
  <2> HIDE DEF R
  <2> QED
    BY <1>2 DEF Even
<1>4. m <= Cardinality(D)
  <2>1. IsFiniteSet(D)
    BY GpusAre
  <2> QED
    BY <1>1, <2>1, SubsetSizes
<1> QED
  BY <1>1, <1>3, <1>4 DEF InTurns

\* A turn over all servers, and turns over what is left.
LEMMA FirstTurn ==
  ASSUME NEW D \in SUBSET Gpu, NEW m \in Nat, Cardinality(Round(D, m)) < m,
         NEW Y, InTurns(Y, Others(D, m), Left(D, m))
  PROVE  InTurns(Round(D, m) \cup Y, D, m)
<1> DEFINE R == Round(D, m)  E == Others(D, m)  X == R \cup Y  k == Cardinality(R)
<1>1. R = Heads(D) /\ R \in SUBSET D /\ k \in Nat /\ k < m
  BY RoundIs
<1>2. E = D \ R /\ E \in SUBSET D /\ E \in SUBSET Gpu /\ Left(D, m) = m - k
  BY DEF Others, Left
<1>3. /\ Y \in SUBSET E /\ Even(Y, E)
      /\ Cardinality(Y) = IF m - k <= Cardinality(E) THEN m - k ELSE Cardinality(E)
  BY <1>2 DEF InTurns
<1>4. X \in SUBSET D /\ R \cap Y = {} /\ R \in SUBSET Gpu /\ Y \in SUBSET Gpu /\ X \in SUBSET Gpu
  BY <1>1, <1>2, <1>3
<1> HIDE DEF R, E
<1>5. Cardinality(X) = IF m <= Cardinality(D) THEN m ELSE Cardinality(D)
  <2>1. IsFiniteSet(R) /\ IsFiniteSet(Y) /\ IsFiniteSet(E) /\ IsFiniteSet(D)
        /\ Cardinality(E) \in Nat /\ Cardinality(D) \in Nat /\ Cardinality(Y) \in Nat
    BY <1>2, <1>4, GpusAre
  <2>2. Cardinality(R \cup Y) = Cardinality(R) + Cardinality(Y) - Cardinality(R \cap Y)
    BY <2>1, FS_Union
  <2>3. Cardinality(R \cap Y) = 0
    BY <1>4, FS_EmptySet
  <2>4. Cardinality(D \ R) = Cardinality(D) - Cardinality(D \cap R) /\ D \cap R = R
    BY <1>1, <2>1, FS_Difference
  <2>5. Cardinality(E) = Cardinality(D) - k
    BY <1>2, <2>4
  <2>6. Cardinality(X) = k + Cardinality(Y) - 0
    BY <2>2, <2>3
  <2> HIDE DEF X, k
  <2> QED
    BY <1>1, <1>3, <2>1, <2>5, <2>6
<1>6. ASSUME NEW h \in Hosts(D)
      PROVE  /\ Cardinality(On(X, h)) = Cardinality(On(Y, h)) + 1
             /\ Cardinality(On(Y, h)) \in Nat
  <2>1. On(X, h) = On(R, h) \cup On(Y, h) /\ On(R, h) \cap On(Y, h) = {}
    BY <1>4 DEF On
  <2>2. IsFiniteSet(On(R, h)) /\ IsFiniteSet(On(Y, h)) /\ Cardinality(On(Y, h)) \in Nat
    BY <1>4, GpusAre
  <2>3. Cardinality(On(R, h)) = 1
    BY <1>1, HeadsOn
  <2>4. Cardinality(On(R, h) \cup On(Y, h))
          = Cardinality(On(R, h)) + Cardinality(On(Y, h)) - Cardinality(On(R, h) \cap On(Y, h))
    BY <2>2, FS_Union
  <2>5. Cardinality(On(R, h) \cap On(Y, h)) = 0
    BY <2>1, FS_EmptySet
  <2>6. Cardinality(On(X, h)) = 1 + Cardinality(On(Y, h)) - 0
    BY <2>1, <2>3, <2>4, <2>5
  <2> QED
    BY <2>2, <2>6
<1>7. ASSUME NEW g \in X, NEW h \in Hosts(D)
      PROVE  On(D, h) \subseteq X \/ Cardinality(On(X, g[1])) <= Cardinality(On(X, h)) + 1
  <2>1. g[1] \in Hosts(D)
    BY <1>4 DEF Hosts
  <2>2. /\ Cardinality(On(X, g[1])) = Cardinality(On(Y, g[1])) + 1 /\ Cardinality(On(Y, g[1])) \in Nat
        /\ Cardinality(On(X, h)) = Cardinality(On(Y, h)) + 1 /\ Cardinality(On(Y, h)) \in Nat
    BY <1>6, <2>1
  <2>3. CASE h \notin Hosts(E)
    <3>1. On(E, h) = {}
      BY <1>2, <2>3, GpusAre
    <3>2. On(D, h) \subseteq R
      BY <1>2, <3>1 DEF On
    <3> QED
      BY <3>2
  <2>4. CASE On(Y, g[1]) = {}
    <3>1. Cardinality(On(Y, g[1])) = 0
      BY <2>4, FS_EmptySet
    <3> HIDE DEF X
    <3> QED
      BY <2>2, <3>1
  <2>5. CASE h \in Hosts(E) /\ On(Y, g[1]) # {}
    <3>1. PICK f \in Y : f[1] = g[1]
      BY <2>5 DEF On
    <3>2. On(E, h) \subseteq Y \/ Cardinality(On(Y, g[1])) <= Cardinality(On(Y, h)) + 1
      BY <1>3, <2>5, <3>1 DEF Even
    <3>3. On(E, h) \subseteq Y => On(D, h) \subseteq X
      BY <1>2 DEF On
    <3> HIDE DEF X
    <3> QED
      BY <2>2, <3>2, <3>3
  <2> QED
    BY <2>3, <2>4, <2>5
<1> QED
  BY <1>4, <1>5, <1>7 DEF InTurns, Even, R

LEMMA TurnsGive ==
  ASSUME NEW C \in SUBSET Gpu, NEW n \in Nat, NEW t, Turns(t, C, n), NEW D \in SUBSET C, NEW m \in 0 .. n
  PROVE  InTurns(t[D][m], D, m)
<1> DEFINE B == {X \in SUBSET C : \E i \in 0 .. n : ~ InTurns(t[X][i], X, i)}
<1>1. SUFFICES ASSUME B # {} PROVE FALSE
  OBVIOUS
<1>2. PICK X \in B : \A Y \in B : Y \subseteq X => Y = X
  <2>1. IsFiniteSet(C) /\ B \subseteq SUBSET C
    BY GpusAre
  <2> HIDE DEF B
  <2> QED
    BY <1>1, <2>1, Smallest
<1>3. PICK i \in 0 .. n : ~ InTurns(t[X][i], X, i)
  BY <1>2
<1>4. X \in SUBSET C /\ X \in SUBSET Gpu /\ i \in Nat /\ Cardinality(X) \in Nat
  <2>1. X \in SUBSET C /\ X \in SUBSET Gpu
    BY <1>2
  <2> QED
    BY <2>1, GpusAre
<1>5. t[X][i] = Turn(t, X, i)
  BY <1>4, TurnsAt
<1>6. CASE X = {} \/ i = 0
  <2>1. t[X][i] = {} /\ Cardinality({}) = 0
    BY <1>5, <1>6, FS_EmptySet DEF Turn
  <2>2. InTurns({}, X, i)
    BY <1>4, <1>6, <2>1 DEF InTurns, Even
  <2> QED
    BY <1>3, <2>1, <2>2
<1>7. CASE X # {} /\ i # 0
  <2> DEFINE R == Round(X, i)  Y == Others(X, i)  j == Left(X, i)
  <2>1. t[X][i] = R \cup t[Y][j]
    BY <1>5, <1>7 DEF Turn
  <2>2. j \in 0 .. n /\ Y \in SUBSET X /\ Y # X
    BY <1>4, <1>7, LaterTurns
  <2>3. Y \in SUBSET C /\ Y \notin B
    BY <1>2, <1>4, <2>2
  <2>4. InTurns(t[Y][j], Y, j)
    <3> HIDE DEF Y, j
    <3> QED
      BY <2>2, <2>3
  <2>5. Cardinality(R) \in Nat /\ Cardinality(R) <= i
    BY <1>4, RoundIs
  <2>6. CASE Cardinality(R) < i
    BY <1>3, <1>4, <2>1, <2>4, <2>6, FirstTurn
  <2>7. CASE Cardinality(R) = i
    <3>1. j = 0
      BY <1>4, <2>7 DEF Left
    <3>2. t[Y][j] = Turn(t, Y, j)
      BY <2>2, <2>3, TurnsAt
    <3>3. t[Y][j] = {}
      BY <3>1, <3>2 DEF Turn
    <3> QED
      BY <1>3, <1>4, <2>1, <2>7, <3>3, LastTurn
  <2> QED
    BY <2>5, <2>6, <2>7
<1> QED
  BY <1>6, <1>7

LEMMA RoundsGive ==
  ASSUME NEW C \in SUBSET Gpu, NEW n \in Nat
  PROVE  InTurns(Rounds(C, n), C, n)
<1> DEFINE t == CHOOSE u : Turns(u, C, n)
<1>1. Turns(t, C, n)
  BY TurnsExist
<1>2. Rounds(C, n) = t[C][n]
  BY RoundsIs
<1> HIDE DEF t
<1>3. C \in SUBSET C /\ n \in 0 .. n
  OBVIOUS
<1> QED
  BY <1>1, <1>2, <1>3, TurnsGive

-----------------------------------------------------------------------------
(* _select_resources as a whole *)

LEMMA WishesAre ==
  ASSUME NEW c \in Constraints
  PROVE  /\ c.count \in Nat \ {0} /\ c.nodes \in Nat \ {0} /\ c.perNode \in Nat
         /\ c.placement \in {"pack", "spread", "exact"} /\ c.sameHost \in BOOLEAN
         /\ c.gpus \in SUBSET Gpu
         /\ c.perNode # 0 => c.nodes * c.perNode = c.count
         /\ c.sameHost => c.nodes = 1
         /\ c.placement = "exact" => Cardinality(c.gpus) = c.count
<1>1. MaxCount \in Nat
  BY PlacementAssumption
<1> QED
  BY <1>1 DEF Constraints

LEMMA SelectIs ==
  ASSUME NEW C \in SUBSET Gpu, NEW c \in Constraints, NEW S, S = SelectResources(C, c)
  PROVE  /\ Cardinality(C) < c.count => S = None
         /\ Cardinality(C) >= c.count =>
              /\ c.placement = "exact" => S = IF c.gpus \subseteq C THEN c.gpus ELSE None
              /\ c.placement # "exact" /\ c.perNode # 0 => S = FromHosts(C, c, c.nodes, c.perNode)
              /\ c.placement # "exact" /\ c.perNode = 0 /\ c.sameHost =>
                    S = FromHosts(C, c, 1, c.count)
              /\ c.placement = "pack" /\ c.perNode = 0 /\ ~c.sameHost => S = Firsts(C, Places, c.count)
              /\ c.placement = "spread" /\ c.perNode = 0 /\ ~c.sameHost => S = Rounds(C, c.count)
<1>1. Cardinality(C) \in Nat /\ c.count \in Nat
  BY GpusAre, WishesAre
<1>2. Cardinality(C) < c.count => S = None
  BY DEF SelectResources
<1>3. ASSUME Cardinality(C) >= c.count
      PROVE  /\ c.placement = "exact" => S = IF c.gpus \subseteq C THEN c.gpus ELSE None
             /\ c.placement # "exact" /\ c.perNode # 0 => S = FromHosts(C, c, c.nodes, c.perNode)
             /\ c.placement # "exact" /\ c.perNode = 0 /\ c.sameHost =>
                    S = FromHosts(C, c, 1, c.count)
             /\ c.placement = "pack" /\ c.perNode = 0 /\ ~c.sameHost => S = Firsts(C, Places, c.count)
             /\ c.placement = "spread" /\ c.perNode = 0 /\ ~c.sameHost => S = Rounds(C, c.count)
  <2>1. ~ (Cardinality(C) < c.count)
    BY <1>1, <1>3
  <2>2. {g \in C : Cardinality({h \in C : Earlier(h, g)}) < c.count} = Firsts(C, Places, c.count)
    BY PlacesInOrder
  <2>3. CASE c.placement = "exact"
    BY <2>1, <2>3 DEF SelectResources
  <2>4. CASE c.placement # "exact" /\ c.perNode # 0
    BY <2>1, <2>4 DEF SelectResources
  <2>5. CASE c.placement # "exact" /\ c.perNode = 0 /\ c.sameHost
    BY <2>1, <2>5 DEF SelectResources
  <2>6. CASE c.placement = "pack" /\ c.perNode = 0 /\ ~c.sameHost
    BY <2>1, <2>2, <2>6 DEF SelectResources
  <2>7. CASE c.placement = "spread" /\ c.perNode = 0 /\ ~c.sameHost
    BY <2>1, <2>7 DEF SelectResources
  <2> QED
    BY <2>3, <2>4, <2>5, <2>6, <2>7, WishesAre
<1> QED
  BY <1>2, <1>3

LEMMA NotNone == ASSUME NEW S \in SUBSET Gpu PROVE S # None
  BY PlacementAssumption

\* S is n of the GPUs in C on each of m servers.
Shaped(S, C, m, n) ==
    /\ S \in SUBSET C /\ Cardinality(Hosts(S)) = m
    /\ \A h \in Hosts(S) : Cardinality(On(S, h)) = n
    /\ Cardinality(S) = m * n

\* What the choice of servers gives, where it gives anything.
LEMMA FromHostsIs ==
  ASSUME NEW C \in SUBSET Gpu, NEW c, NEW m \in Nat, NEW n \in Nat \ {0}
  PROVE  /\ Cardinality(LargeEnough(C, n)) >= m => FromHosts(C, c, m, n) # None
         /\ FromHosts(C, c, m, n) # None =>
              Cardinality(LargeEnough(C, n)) >= m /\ Shaped(FromHosts(C, c, m, n), C, m, n)
<1> DEFINE S == FromHosts(C, c, m, n)
<1>1. Cardinality(LargeEnough(C, n)) \in Nat
  BY TakenAre
<1>2. CASE Cardinality(LargeEnough(C, n)) < m
  <2>1. S = None
    BY <1>2, TakenAre
  <2> QED
    BY <1>1, <1>2, <2>1
<1>3. CASE Cardinality(LargeEnough(C, n)) >= m
  <2>1. /\ S \in SUBSET C /\ Cardinality(Hosts(S)) = m
        /\ \A h \in Hosts(S) : Cardinality(On(S, h)) = n
        /\ Cardinality(S) = m * n
    BY <1>3, FromHostsGives
  <2>2. Shaped(S, C, m, n) /\ S # None
    BY <2>1, NotNone DEF Shaped
  <2> QED
    BY <1>1, <1>3, <2>2
<1> QED
  BY <1>1, <1>2, <1>3

LEMMA SelectFits ==
  ASSUME NEW C \in SUBSET Gpu, NEW c \in Constraints, NEW S, S = SelectResources(C, c), S # None
  PROVE  /\ S \in SUBSET C /\ Fits(S, c)
         /\ c.placement = "spread" /\ c.perNode = 0 /\ ~c.sameHost => Even(S, C)
<1>1. Cardinality(C) \in Nat /\ c.count \in Nat \ {0} /\ c.nodes \in Nat \ {0} /\ c.perNode \in Nat
      /\ c.placement \in {"pack", "spread", "exact"} /\ c.sameHost \in BOOLEAN
  BY GpusAre, WishesAre
<1>2. Cardinality(C) >= c.count
  BY <1>1, SelectIs
<1>3. CASE c.placement = "exact"
  BY <1>2, <1>3, SelectIs, WishesAre DEF Fits
<1>4. CASE c.placement # "exact" /\ c.perNode # 0
  <2> PICK m \in Nat, n \in Nat \ {0} : m = c.nodes /\ n = c.perNode
    BY <1>1, <1>4
  <2>1. S = FromHosts(C, c, m, n)
    BY <1>2, <1>4, SelectIs
  <2>2. Shaped(S, C, m, n)
    BY <2>1, FromHostsIs
  <2>3. m * n = c.count /\ (c.sameHost => m = 1)
    BY <1>4, WishesAre
  <2> QED
    BY <1>4, <2>2, <2>3 DEF Fits, Shaped
<1>5. CASE c.placement # "exact" /\ c.perNode = 0 /\ c.sameHost
  <2> PICK m \in Nat, n \in Nat \ {0} : m = 1 /\ n = c.count
    BY <1>1
  <2>1. S = FromHosts(C, c, m, n)
    BY <1>2, <1>5, SelectIs
  <2>2. Shaped(S, C, m, n)
    BY <2>1, FromHostsIs
  <2>3. m * n = n
    OBVIOUS
  <2> QED
    BY <1>5, <2>2, <2>3 DEF Fits, Shaped
<1>6. CASE c.placement = "pack" /\ c.perNode = 0 /\ ~c.sameHost
  <2>1. S = Firsts(C, Places, c.count)
    BY <1>2, <1>6, SelectIs
  <2>2. IsFiniteSet(C) /\ Ordered(C, Places)
    BY GpusAre, PlacesInOrder
  <2>3. S \in SUBSET C /\ Cardinality(S) = c.count
    BY <1>1, <1>2, <2>1, <2>2, CountFirsts
  <2> QED
    BY <1>6, <2>3 DEF Fits
<1>7. CASE c.placement = "spread" /\ c.perNode = 0 /\ ~c.sameHost
  <2>1. S = Rounds(C, c.count)
    BY <1>2, <1>7, SelectIs
  <2>2. InTurns(S, C, c.count)
    BY <1>1, <2>1, RoundsGive
  <2> QED
    BY <1>1, <1>2, <1>7, <2>2 DEF Fits, InTurns
<1> QED
  BY <1>1, <1>3, <1>4, <1>5, <1>6, <1>7

LEMMA Cancel == ASSUME NEW a \in Nat, NEW b \in Nat, NEW n \in Nat \ {0}, a * n = b * n PROVE a = b
<1>1. \A x, y \in Nat : x < y => x * n < y * n
  OBVIOUS
<1> QED
  BY <1>1

\* Servers with as many GPUs of T as are asked for have as many candidates.
LEMMA HostsSuffice ==
  ASSUME NEW C \in SUBSET Gpu, NEW c, NEW n \in Nat \ {0}, NEW T \in SUBSET C,
         \A h \in Hosts(T) : Cardinality(On(T, h)) >= n
  PROVE  Cardinality(Hosts(T)) \in Nat /\ Cardinality(Hosts(T)) <= Cardinality(LargeEnough(C, n))
<1>1. T \in SUBSET Gpu
  OBVIOUS
<1>2. ASSUME NEW h \in Hosts(T) PROVE h \in LargeEnough(C, n)
  <2>1. On(T, h) \in SUBSET On(C, h) /\ IsFiniteSet(On(C, h))
    BY GpusAre DEF On
  <2>2. Cardinality(On(T, h)) <= Cardinality(On(C, h)) /\ Cardinality(On(T, h)) \in Nat
        /\ Cardinality(On(C, h)) \in Nat
    BY <2>1, SubsetSizes
  <2>3. h \in Host
    BY <1>1, GpusAre
  <2>4. Cardinality(On(C, h)) >= n
    BY <2>2
  <2> QED
    BY <2>3, <2>4, TakenAre
<1>3. Hosts(T) \in SUBSET LargeEnough(C, n) /\ IsFiniteSet(LargeEnough(C, n))
  BY <1>2, TakenAre
<1> QED
  BY <1>3, SubsetSizes

LEMMA SelectRefuses ==
  ASSUME NEW C \in SUBSET Gpu, NEW c \in Constraints, SelectResources(C, c) = None,
         NEW T \in SUBSET C, Fits(T, c)
  PROVE  FALSE
<1>1. Cardinality(C) \in Nat /\ c.count \in Nat \ {0} /\ c.nodes \in Nat \ {0} /\ c.perNode \in Nat
      /\ c.placement \in {"pack", "spread", "exact"} /\ c.sameHost \in BOOLEAN
  BY GpusAre, WishesAre
<1>2. T \in SUBSET Gpu /\ IsFiniteSet(T) /\ Cardinality(T) = c.count
  BY GpusAre DEF Fits
<1>3. Cardinality(C) >= c.count
  <2>1. IsFiniteSet(C)
    BY GpusAre
  <2> QED
    BY <1>2, <2>1, SubsetSizes
<1>4. CASE c.placement = "exact"
  <2>1. T = c.gpus
    BY <1>4 DEF Fits
  <2>2. c.gpus = None
    BY <1>3, <1>4, <2>1, SelectIs
  <2> QED
    BY <1>2, <2>1, <2>2, NotNone
<1>5. CASE c.placement # "exact" /\ c.perNode # 0
  <2> PICK m \in Nat, n \in Nat \ {0} : m = c.nodes /\ n = c.perNode
    BY <1>1, <1>5
  <2>1. FromHosts(C, c, m, n) = None
    BY <1>3, <1>5, SelectIs
  <2>2. \A h \in Hosts(T) : Cardinality(On(T, h)) = n
    BY <1>5 DEF Fits
  <2> DEFINE k == Cardinality(Hosts(T))
  <2>3. k \in Nat /\ k <= Cardinality(LargeEnough(C, n))
    BY <2>2, HostsSuffice
  <2>4. Cardinality(T) = k * n
    BY <1>2, <2>2, EvenlyLoaded
  <2>5. m * n = c.count
    BY <1>5, WishesAre
  <2>6. k = m
    <3> HIDE DEF k
    <3> QED
      BY <1>2, <2>3, <2>4, <2>5, Cancel
  <2>7. Cardinality(LargeEnough(C, n)) >= m
    BY <2>3, <2>6, TakenAre
  <2> QED
    BY <2>1, <2>7, FromHostsIs
<1>6. CASE c.placement # "exact" /\ c.perNode = 0 /\ c.sameHost
  <2> PICK m \in Nat, n \in Nat \ {0} : m = 1 /\ n = c.count
    BY <1>1
  <2>1. FromHosts(C, c, m, n) = None
    BY <1>3, <1>6, SelectIs
  <2>2. Cardinality(Hosts(T)) = 1
    BY <1>6 DEF Fits
  <2>3. \A h \in Hosts(T) : On(T, h) = T
    <3>1. IsFiniteSet(Hosts(T))
      BY <1>2, GpusAre
    <3>2. PICK k : Hosts(T) = {k}
      BY <2>2, <3>1, FS_Singleton
    <3> QED
      BY <3>2 DEF On, Hosts
  <2>4. \A h \in Hosts(T) : Cardinality(On(T, h)) >= n
    BY <1>1, <1>2, <2>3
  <2>5. m <= Cardinality(LargeEnough(C, n))
    BY <2>2, <2>4, HostsSuffice
  <2>6. Cardinality(LargeEnough(C, n)) >= m
    BY <2>5, TakenAre
  <2> QED
    BY <2>1, <2>6, FromHostsIs
<1>7. CASE c.placement = "pack" /\ c.perNode = 0 /\ ~c.sameHost
  <2>1. Firsts(C, Places, c.count) = None /\ Firsts(C, Places, c.count) \in SUBSET Gpu
    BY <1>3, <1>7, SelectIs DEF Firsts
  <2> QED
    BY <2>1, NotNone
<1>8. CASE c.placement = "spread" /\ c.perNode = 0 /\ ~c.sameHost
  <2>1. Rounds(C, c.count) = None
    BY <1>3, <1>8, SelectIs
  <2>2. Rounds(C, c.count) \in SUBSET Gpu
    BY <1>1, RoundsGive DEF InTurns
  <2> QED
    BY <2>1, <2>2, NotNone
<1> QED
  BY <1>1, <1>4, <1>5, <1>6, <1>7, <1>8

\* What was chosen, other than spread, is chosen again among fewer candidates.
LEMMA SelectStays ==
  ASSUME NEW C \in SUBSET Gpu, NEW c \in Constraints, NEW S, S = SelectResources(C, c), S # None,
         c.placement # "spread", NEW D \in SUBSET C, S \subseteq D
  PROVE  SelectResources(D, c) = S
<1>1. /\ Cardinality(C) \in Nat /\ c.count \in Nat \ {0} /\ c.nodes \in Nat \ {0} /\ c.perNode \in Nat
      /\ c.placement \in {"pack", "exact"} /\ c.sameHost \in BOOLEAN
      /\ D \in SUBSET Gpu /\ IsFiniteSet(D) /\ Cardinality(D) \in Nat
  BY GpusAre, WishesAre
<1>2. Cardinality(C) >= c.count
  BY <1>1, SelectIs
<1>3. Cardinality(D) >= c.count
  <2>1. S \in SUBSET D /\ Cardinality(S) = c.count
    BY SelectFits DEF Fits
  <2> QED
    BY <1>1, <2>1, SubsetSizes
<1>4. CASE c.placement = "exact"
  <2>1. S = c.gpus
    BY <1>2, <1>4, SelectIs
  <2> QED
    BY <1>1, <1>3, <1>4, <2>1, SelectIs
<1>5. CASE c.placement # "exact" /\ c.perNode # 0
  <2> PICK m \in Nat, n \in Nat \ {0} : m = c.nodes /\ n = c.perNode
    BY <1>1, <1>5
  <2>1. S = FromHosts(C, c, m, n)
    BY <1>2, <1>5, SelectIs
  <2>2. Cardinality(LargeEnough(C, n)) >= m
    BY <2>1, FromHostsIs
  <2>3. FromHosts(D, c, m, n) = S
    BY <2>1, <2>2, FromHostsStays
  <2> QED
    BY <1>1, <1>3, <1>5, <2>3, SelectIs
<1>6. CASE c.placement # "exact" /\ c.perNode = 0 /\ c.sameHost
  <2> PICK m \in Nat, n \in Nat \ {0} : m = 1 /\ n = c.count
    BY <1>1
  <2>1. S = FromHosts(C, c, m, n)
    BY <1>2, <1>6, SelectIs
  <2>2. Cardinality(LargeEnough(C, n)) >= m
    BY <2>1, FromHostsIs
  <2>3. FromHosts(D, c, m, n) = S
    BY <2>1, <2>2, FromHostsStays
  <2> QED
    BY <1>1, <1>3, <1>6, <2>3, SelectIs
<1>7. CASE c.placement = "pack" /\ c.perNode = 0 /\ ~c.sameHost
  <2>1. S = Firsts(C, Places, c.count)
    BY <1>2, <1>7, SelectIs
  <2>2. IsFiniteSet(C) /\ Ordered(C, Places)
    BY GpusAre, PlacesInOrder
  <2>3. Firsts(D, Places, c.count) = S
    BY <1>1, <2>1, <2>2, FirstsStay
  <2> QED
    BY <1>1, <1>3, <1>7, <2>3, SelectIs
<1> QED
  BY <1>1, <1>4, <1>5, <1>6, <1>7

-----------------------------------------------------------------------------
(* claim_request_now *)

\* What was chosen is what the candidates a claim looked at give, and what a plan
\* chose is what those of the plan give.
Choosing ==
    /\ phase # "idle" => wish \in Constraints
    /\ phase \in {"idle", "claim", "plan"} => yielded = {}
    /\ phase \in {"plan", "reclaim", "again", "done"} => chosen = SelectResources(met, wish)
    /\ phase \in {"plan", "reclaim", "again"} => chosen = None
    /\ phase = "done" /\ chosen # None => met \subseteq free
    /\ phase \in {"reclaim", "again"} \/ yielded # {} =>
          plan # None /\ plan = SelectResources(offered, wish)

PlacementInv == TypeOK /\ Choosing

LEMMA Selected ==
  ASSUME NEW C \in SUBSET Gpu, NEW c \in Constraints
  PROVE  SelectResources(C, c) \in (SUBSET Gpu) \cup {None}
<1>1. CASE SelectResources(C, c) = None
  BY <1>1
<1>2. CASE SelectResources(C, c) # None
  <2>1. SelectResources(C, c) \in SUBSET C
    BY <1>2, SelectFits
  <2> QED
    BY <2>1
<1> QED
  BY <1>1, <1>2

LEMMA PlacementInit == ASSUME Init PROVE PlacementInv
  BY DEF Init, PlacementInv, TypeOK, Choosing

\* A claim, whatever it leads to.
LEMMA CreateGives ==
  ASSUME PlacementInv, phase \in {"claim", "again"}, Create,
         phase' \in {"plan", "done"}, phase' = "plan" => chosen' = None,
         phase' = "plan" => yielded = {}
  PROVE  PlacementInv'
<1>1. TypeOK /\ Choosing
  BY DEF PlacementInv
<1>2. wish \in Constraints /\ met' \subseteq free /\ met' \in SUBSET Gpu
  BY <1>1 DEF Create, TypeOK, Choosing
<1>3. /\ chosen' = SelectResources(met', wish)
      /\ UNCHANGED <<free, kept, wish, offered, plan, yielded>>
  BY DEF Create
<1>4. chosen' \in (SUBSET Gpu) \cup {None}
  BY <1>2, <1>3, Selected
<1>5. TypeOK'
  BY <1>1, <1>2, <1>3, <1>4 DEF TypeOK
<1>6. Choosing'
  BY <1>1, <1>2, <1>3 DEF Choosing
<1> QED
  BY <1>5, <1>6 DEF PlacementInv

\* A worker goes while those of a plan yield.
LEMMA ReleaseKeeps ==
  ASSUME PlacementInv, phase = "reclaim", NEW g \in kept, Release(g),
         phase' \in {"reclaim", "again", "done"}
  PROVE  PlacementInv'
<1>1. TypeOK /\ Choosing
  BY DEF PlacementInv
<1>2. /\ kept' = kept \ {g} /\ yielded' = yielded \cup {g} /\ free' \in {free, free \cup {g}}
      /\ UNCHANGED <<wish, met, offered, plan, chosen>>
  BY DEF Release
<1>3. TypeOK'
  BY <1>1, <1>2 DEF TypeOK
<1>4. Choosing'
  BY <1>1, <1>2 DEF Choosing
<1> QED
  BY <1>3, <1>4 DEF PlacementInv

LEMMA PlacementStep == ASSUME PlacementInv, [Next]_vars PROVE PlacementInv'
<1>1. TypeOK /\ Choosing
  BY DEF PlacementInv
<1>2. CASE Ask
  <2>1. PICK F \in SUBSET Gpu, c \in Constraints : \E E \in SUBSET (Gpu \ F) :
          free' = F /\ kept' = E /\ wish' = c
    BY <1>2 DEF Ask
  <2>2. phase = "idle" /\ phase' = "claim" /\ UNCHANGED <<met, offered, plan, yielded, chosen>>
    BY <1>2 DEF Ask
  <2>3. yielded = {}
    BY <1>1, <2>2 DEF Choosing
  <2>4. TypeOK'
    BY <1>1, <2>1, <2>2, <2>3 DEF TypeOK
  <2>5. Choosing'
    BY <2>1, <2>2, <2>3 DEF Choosing
  <2> QED
    BY <2>4, <2>5 DEF PlacementInv
<1>3. CASE Claim
  <2>1. phase = "claim" /\ Create /\ phase' = (IF chosen' = None THEN "plan" ELSE "done")
    BY <1>3 DEF Claim
  <2>2. yielded = {}
    BY <1>1, <2>1 DEF Choosing
  <2> QED
    BY <2>1, <2>2, CreateGives
<1>4. CASE Plan
  <2>1. /\ wish \in Constraints /\ free \cup kept \in SUBSET Gpu /\ yielded = {}
        /\ chosen = SelectResources(met, wish) /\ chosen = None
    BY <1>1, <1>4 DEF Plan, TypeOK, Choosing
  <2>2. /\ offered' = free \cup kept /\ plan' = SelectResources(offered', wish)
        /\ phase' = (IF plan' = None \/ plan' \cap kept = {} THEN "done" ELSE "reclaim")
        /\ UNCHANGED <<free, kept, wish, met, yielded, chosen>>
    BY <1>4 DEF Plan
  <2>3. plan' \in (SUBSET Gpu) \cup {None}
    BY <2>1, <2>2, Selected
  <2>4. TypeOK'
    BY <1>1, <2>1, <2>2, <2>3 DEF TypeOK
  <2>5. Choosing'
    BY <2>1, <2>2 DEF Choosing
  <2> QED
    BY <2>4, <2>5 DEF PlacementInv
<1>5. ASSUME NEW g \in Gpu, Yield(g) PROVE PlacementInv'
  BY <1>5, ReleaseKeeps DEF Yield
<1>6. ASSUME NEW g \in Gpu, StopFails(g) PROVE PlacementInv'
  <2>1. CASE Release(g)
    BY <1>6, <2>1, ReleaseKeeps DEF StopFails
  <2>2. CASE UNCHANGED <<free, kept, wish, met, offered, plan, yielded, chosen>>
    <3>1. phase = "reclaim" /\ phase' = "done"
      BY <1>6 DEF StopFails
    <3>2. TypeOK'
      BY <1>1, <2>2, <3>1 DEF TypeOK
    <3>3. Choosing'
      BY <1>1, <2>2, <3>1 DEF Choosing
    <3> QED
      BY <3>2, <3>3 DEF PlacementInv
  <2> QED
    BY <1>6, <2>1, <2>2 DEF StopFails
<1>7. ASSUME NEW g \in Gpu, OthersAct(g) PROVE PlacementInv'
  <2>1. /\ phase \in {"plan", "reclaim", "again"} /\ g \notin kept
        /\ free' \subseteq free \cup {g}
        /\ UNCHANGED <<kept, wish, met, offered, plan, yielded, chosen, phase>>
    BY <1>7 DEF OthersAct
  <2>2. TypeOK'
    BY <1>1, <2>1 DEF TypeOK
  <2>3. Choosing'
    BY <1>1, <2>1 DEF Choosing
  <2> QED
    BY <2>2, <2>3 DEF PlacementInv
<1>8. CASE ClaimAgain
  <2>1. phase = "again" /\ Create /\ phase' = "done"
    BY <1>8 DEF ClaimAgain
  <2> QED
    BY <2>1, CreateGives
<1>9. CASE UNCHANGED vars
  BY <1>1, <1>9 DEF vars, PlacementInv, TypeOK, Choosing
<1> QED
  BY <1>2, <1>3, <1>4, <1>5, <1>6, <1>7, <1>8, <1>9 DEF Next

\* What a claim is given is what the candidates it looks at give, and what a plan
\* chooses what it was offered, whatever others do meanwhile.
THEOREM PlacementInvariant == Spec => []PlacementInv
  BY PlacementInit, PlacementStep, PTL DEF Spec

\* What a claim gets meets its constraints (_select_resources).
THEOREM ChoiceFits == Spec => []ChosenFits
<1>1. PlacementInv => ChosenFits
  <2> SUFFICES ASSUME PlacementInv, phase = "done", chosen # None
               PROVE  chosen \subseteq free /\ Fits(chosen, wish)
    BY DEF ChosenFits
  <2>1. /\ met \in SUBSET Gpu /\ wish \in Constraints /\ chosen = SelectResources(met, wish)
        /\ met \subseteq free
    BY DEF PlacementInv, TypeOK, Choosing
  <2>2. chosen \in SUBSET met /\ Fits(chosen, wish)
    BY <2>1, SelectFits
  <2> QED
    BY <2>1, <2>2
<1> QED
  BY <1>1, PlacementInvariant, PTL

\* A claim is refused only if no set of the candidates it looked at meets its
\* constraints: the order in which servers are tried never misses one
\* (_select_resources).
THEOREM RefusalIsRight == Spec => []RefusedOnlyIfImpossible
<1>1. PlacementInv => RefusedOnlyIfImpossible
  <2> SUFFICES ASSUME PlacementInv, phase = "done", chosen = None, NEW T \in SUBSET met, Fits(T, wish)
               PROVE  FALSE
    BY DEF RefusedOnlyIfImpossible
  <2>1. met \in SUBSET Gpu /\ wish \in Constraints /\ SelectResources(met, wish) = None
    BY DEF PlacementInv, TypeOK, Choosing
  <2> QED
    BY <2>1, SelectRefuses
<1> QED
  BY <1>1, PlacementInvariant, PTL

\* A spread is as even as the candidates allow (_select_resources).
THEOREM SpreadingIsEven == Spec => []SpreadIsEven
<1>1. PlacementInv => SpreadIsEven
  <2> SUFFICES ASSUME PlacementInv, phase = "done", chosen # None, wish.placement = "spread",
                      wish.perNode = 0, ~wish.sameHost
               PROVE  Even(chosen, met)
    BY DEF SpreadIsEven, Even
  <2>1. met \in SUBSET Gpu /\ wish \in Constraints /\ chosen = SelectResources(met, wish)
    BY DEF PlacementInv, TypeOK, Choosing
  <2> QED
    BY <2>1, SelectFits
<1> QED
  BY <1>1, PlacementInvariant, PTL

\* Where workers have yielded and the claim then meets all GPUs of the plan, it
\* succeeds, and unless it spreads or meets more than the plan did it gets those of
\* the plan (plan_keepalive_reclaim).
THEOREM PlansAreEnough == Spec => []PlanIsEnough
<1>1. PlacementInv => PlanIsEnough
  <2> SUFFICES ASSUME PlacementInv, phase = "done", yielded # {}, plan \subseteq met
               PROVE  /\ chosen # None
                      /\ wish.placement # "spread" /\ met \subseteq offered => chosen = plan
    BY DEF PlanIsEnough
  <2>1. /\ offered \in SUBSET Gpu /\ met \in SUBSET Gpu /\ wish \in Constraints
        /\ chosen = SelectResources(met, wish)
        /\ plan # None /\ plan = SelectResources(offered, wish) /\ plan \in SUBSET met
    BY DEF PlacementInv, TypeOK, Choosing
  <2>2. Fits(plan, wish)
    BY <2>1, SelectFits
  <2>3. chosen # None
    BY <2>1, <2>2, SelectRefuses
  <2>4. wish.placement # "spread" /\ met \in SUBSET offered => chosen = plan
    BY <2>1, SelectStays
  <2> QED
    BY <2>3, <2>4
<1> QED
  BY <1>1, PlacementInvariant, PTL
=============================================================================
