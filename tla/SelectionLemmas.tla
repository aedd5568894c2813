--------------------------- MODULE SelectionLemmas ---------------------------
(*****************************************************************************)
(* What a selection holds, and where: lemmas on Selection and on places in   *)
(* an order that the proofs about the log of calls, the analyses, the        *)
(* advice on the policy and the grouping of alerts rest on.                  *)
(*****************************************************************************)
EXTENDS Selection, FiniteSetTheorems, SequenceTheorems, WellFoundedInduction, TLAPS

\* Of some numbers one is the least.
LEMMA LeastOf ==
    ASSUME NEW T \in SUBSET Nat, T # {}
    PROVE  \E n \in T : \A m \in T : ~(m < n)
<1>1. \E n \in T : \A m \in T : ~(<<m, n>> \in OpToRel(<, Nat))
  BY NatLessThanWellFounded, WFMin
<1> QED BY <1>1 DEF OpToRel

\* A finite set and one it is mapped onto one to one are as large.
LEMMA SameSize ==
    ASSUME NEW S, IsFiniteSet(S), NEW T, NEW f \in [S -> T],
           \A x, y \in S : f[x] = f[y] => x = y,
           \A t \in T : \E x \in S : f[x] = t
    PROVE  IsFiniteSet(T) /\ Cardinality(T) = Cardinality(S)
<1>1. f \in Bijection(S, T)
  BY DEF Bijection, Injection, Surjection, IsInjective
<1> QED BY <1>1, FS_Bijection DEF ExistsBijection

\* A function of the first n indexes is a sequence of length n.
LEMMA FunctionIsSeq ==
    ASSUME NEW X, NEW n \in Nat, NEW f \in [1 .. n -> X]
    PROVE  f \in Seq(X) /\ Len(f) = n /\ DOMAIN f = 1 .. n
<1>1. f \in Seq(X)
  BY SeqDef
<1> QED BY <1>1, LenProperties

\* Indexes are finite in number, and so are those up to one of them.
LEMMA IndexesAreFinite ==
    ASSUME NEW n \in Nat, NEW I \in SUBSET (1 .. n)
    PROVE  /\ IsFiniteSet(I) /\ Cardinality(I) \in Nat /\ Cardinality(I) <= n
           /\ \A i : /\ IsFiniteSet({j \in I : j <= i})
                     /\ Rank(I, i) \in 0 .. Cardinality(I)
<1>1. IsFiniteSet(1 .. n) /\ Cardinality(1 .. n) = n
  BY FS_Interval
<1>2. IsFiniteSet(I) /\ Cardinality(I) \in Nat /\ Cardinality(I) <= n
  BY <1>1, FS_Subset, FS_CardinalityType
<1>3. ASSUME NEW i
      PROVE  /\ IsFiniteSet({j \in I : j <= i})
             /\ Rank(I, i) \in 0 .. Cardinality(I)
  <2>1. {j \in I : j <= i} \in SUBSET I
    OBVIOUS
  <2>2. IsFiniteSet({j \in I : j <= i})
        /\ Cardinality({j \in I : j <= i}) <= Cardinality(I)
    BY <1>2, <2>1, FS_Subset
  <2>3. Cardinality({j \in I : j <= i}) \in Nat
    BY <2>2, FS_CardinalityType
  <2> QED BY <1>2, <2>2, <2>3 DEF Rank
<1> QED BY <1>2, <1>3

\* A later index has a higher rank.
LEMMA RanksRise ==
    ASSUME NEW n \in Nat, NEW I \in SUBSET (1 .. n), NEW i \in I, NEW j \in I, i < j
    PROVE  Rank(I, i) < Rank(I, j)
<1> DEFINE A == {k \in I : k <= i}
           B == {k \in I : k <= j}
<1>1. IsFiniteSet(A) /\ IsFiniteSet(B)
  BY IndexesAreFinite
<1>2. A \in SUBSET B /\ j \in B \ A
  <2>1. \A k \in I : k \in Int
    OBVIOUS
  <2>2. \A k \in I : k <= i => k <= j
    BY <2>1
  <2>3. j <= j /\ ~(j <= i)
    BY <2>1
  <2> QED BY <2>2, <2>3
<1>3. A # B
  <2> HIDE DEF A, B
  <2> QED BY <1>2
<1>4. Cardinality(A) <= Cardinality(B) /\ Cardinality(A) # Cardinality(B)
  <2> HIDE DEF A, B
  <2> QED BY <1>1, <1>2, <1>3, FS_Subset
<1>5. Cardinality(A) \in Nat /\ Cardinality(B) \in Nat
  BY <1>1, FS_CardinalityType
<1> QED BY <1>4, <1>5 DEF Rank

\* Each rank is that of one index, which is where Nth finds it.
LEMMA RanksAreIndexes ==
    ASSUME NEW n \in Nat, NEW I \in SUBSET (1 .. n)
    PROVE  /\ \A i \in I : Rank(I, i) \in 1 .. Cardinality(I) /\ Nth(I, Rank(I, i)) = i
           /\ \A k \in 1 .. Cardinality(I) : Nth(I, k) \in I /\ Rank(I, Nth(I, k)) = k
           /\ \A i, j \in I : i < j <=> Rank(I, i) < Rank(I, j)
<1> DEFINE f == [i \in I |-> Rank(I, i)]
           K == 1 .. Cardinality(I)
<1>1. IsFiniteSet(I) /\ Cardinality(I) \in Nat
  BY IndexesAreFinite
<1>2. \A i \in I : Rank(I, i) \in K
  <2> SUFFICES ASSUME NEW i \in I PROVE Rank(I, i) \in K
    OBVIOUS
  <2>1. IsFiniteSet({j \in I : j <= i}) /\ Rank(I, i) \in 0 .. Cardinality(I)
    BY IndexesAreFinite
  <2>2. i \in {j \in I : j <= i}
    OBVIOUS
  <2>3. Rank(I, i) # 0
    BY <2>1, <2>2, FS_EmptySet DEF Rank
  <2> QED BY <1>1, <2>1, <2>3
<1>3. \A i, j \in I : i < j => Rank(I, i) < Rank(I, j)
  BY RanksRise
<1>4. \A i, j \in I : Rank(I, i) = Rank(I, j) => i = j
  <2> SUFFICES ASSUME NEW i \in I, NEW j \in I, i # j PROVE Rank(I, i) # Rank(I, j)
    OBVIOUS
  <2>1. i \in Int /\ j \in Int /\ Rank(I, i) \in Int /\ Rank(I, j) \in Int
    BY <1>1, <1>2
  <2> QED BY <1>3, <2>1
<1>5. f \in Injection(I, K)
  BY <1>2, <1>4 DEF Injection, IsInjective
<1>6. IsFiniteSet(K) /\ Cardinality(K) = Cardinality(I)
  BY <1>1, FS_Interval
<1>7. f \in Surjection(I, K)
  <2> HIDE DEF f, K
  <2> QED BY <1>5, <1>6, FS_Injection
<1>8. \A k \in K : \E i \in I : Rank(I, i) = k
  BY <1>7 DEF Surjection
<1>9. \A k \in K : Nth(I, k) \in I /\ Rank(I, Nth(I, k)) = k
  BY <1>8 DEF Nth
<1>10. \A i \in I : Nth(I, Rank(I, i)) = i
  BY <1>2, <1>4, <1>9
<1>11. \A i, j \in I : Rank(I, i) < Rank(I, j) => i < j
  <2> SUFFICES ASSUME NEW i \in I, NEW j \in I, Rank(I, i) < Rank(I, j), ~(i < j)
               PROVE  FALSE
    OBVIOUS
  <2>1. i \in Int /\ j \in Int /\ Rank(I, i) \in Int /\ Rank(I, j) \in Int
    BY <1>1, <1>2
  <2>2. i = j \/ j < i
    BY <2>1
  <2> QED BY <1>3, <2>1, <2>2
<1> QED BY <1>2, <1>3, <1>9, <1>10, <1>11

\* What is picked is what is at the indexes, each at its rank.
LEMMA PickedElements ==
    ASSUME NEW X, NEW s \in Seq(X), NEW I \in SUBSET (1 .. Len(s))
    PROVE  /\ Picked(s, I) \in Seq(X)
           /\ Len(Picked(s, I)) = Cardinality(I) /\ Cardinality(I) \in 0 .. Len(s)
           /\ DOMAIN Picked(s, I) = 1 .. Cardinality(I)
           /\ \A i \in I : Rank(I, i) \in DOMAIN Picked(s, I) /\ Picked(s, I)[Rank(I, i)] = s[i]
           /\ \A k \in DOMAIN Picked(s, I) :
                Nth(I, k) \in I /\ Rank(I, Nth(I, k)) = k /\ Picked(s, I)[k] = s[Nth(I, k)]
<1>1. Len(s) \in Nat /\ DOMAIN s = 1 .. Len(s) /\ \A i \in 1 .. Len(s) : s[i] \in X
  BY LenProperties, ElementOfSeq
<1>2. Cardinality(I) \in Nat /\ Cardinality(I) <= Len(s)
  BY <1>1, IndexesAreFinite
<1>3. /\ \A i \in I : Rank(I, i) \in 1 .. Cardinality(I) /\ Nth(I, Rank(I, i)) = i
      /\ \A k \in 1 .. Cardinality(I) : Nth(I, k) \in I /\ Rank(I, Nth(I, k)) = k
  BY <1>1, RanksAreIndexes
<1>4. \A k \in 1 .. Cardinality(I) : s[Nth(I, k)] \in X
  BY <1>1, <1>3
<1>5. Picked(s, I) \in [1 .. Cardinality(I) -> X]
  BY <1>4 DEF Picked
<1>6. Picked(s, I) \in Seq(X)
  BY <1>2, <1>5, SeqDef
<1>7. Len(Picked(s, I)) = Cardinality(I)
  BY <1>2, <1>5, <1>6, LenProperties
<1> QED BY <1>2, <1>3, <1>5, <1>6, <1>7 DEF Picked

\* Picking from what was picked is picking at once.
LEMMA PickedTwice ==
    ASSUME NEW X, NEW s \in Seq(X), NEW I \in SUBSET (1 .. Len(s)), NEW J \in SUBSET I
    PROVE  /\ {Rank(I, j) : j \in J} \subseteq DOMAIN Picked(s, I)
           /\ Picked(Picked(s, I), {Rank(I, j) : j \in J}) = Picked(s, J)
<1> DEFINE p == Picked(s, I)
           R == {Rank(I, j) : j \in J}
<1>1. Len(s) \in Nat /\ I \subseteq 1 .. Len(s) /\ J \subseteq 1 .. Len(s)
  BY LenProperties
<1>2. /\ p \in Seq(X) /\ Len(p) = Cardinality(I) /\ Len(p) \in Nat
      /\ DOMAIN p = 1 .. Cardinality(I)
      /\ \A i \in I : Rank(I, i) \in DOMAIN p /\ p[Rank(I, i)] = s[i]
  BY <1>1, PickedElements
<1> HIDE DEF p
<1>3. R \subseteq 1 .. Len(p)
  BY <1>2
<1>4. /\ \A i, j \in I : i < j <=> Rank(I, i) < Rank(I, j)
      /\ \A i \in I : Rank(I, i) \in Nat /\ i \in Nat
  <2>1. \A i, j \in I : i < j <=> Rank(I, i) < Rank(I, j)
    BY <1>1, RanksAreIndexes
  <2>2. \A i \in I : Rank(I, i) \in 1 .. Cardinality(I) /\ Cardinality(I) \in Nat
    BY <1>2
  <2> QED BY <1>1, <2>1, <2>2
<1>5. \A j \in J : \A k \in J : (Rank(I, k) <= Rank(I, j) <=> k <= j) /\ (Rank(I, k) = Rank(I, j) => k = j)
  BY <1>4
<1>6. \A S \in SUBSET J :
         IsFiniteSet(S) /\ Cardinality({Rank(I, k) : k \in S}) = Cardinality(S)
  <2> SUFFICES ASSUME NEW S \in SUBSET J
               PROVE  IsFiniteSet(S) /\ Cardinality({Rank(I, k) : k \in S}) = Cardinality(S)
    OBVIOUS
  <2> DEFINE f == [k \in S |-> Rank(I, k)]
             T == {Rank(I, k) : k \in S}
  <2>1. S \in SUBSET (1 .. Len(s))
    BY <1>1
  <2>2. IsFiniteSet(S)
    BY <1>1, <2>1, IndexesAreFinite
  <2>3. /\ f \in [S -> T] /\ \A t \in T : \E k \in S : f[k] = t
        /\ \A k, m \in S : f[k] = f[m] => k = m
    BY <1>5
  <2> HIDE DEF f, T
  <2>4. Cardinality(T) = Cardinality(S)
    BY <2>2, <2>3, SameSize
  <2> QED BY <2>2, <2>4 DEF T
<1>7. Cardinality(R) = Cardinality(J)
  BY <1>6
<1>8. \A j \in J : Rank(R, Rank(I, j)) = Rank(J, j)
  <2> SUFFICES ASSUME NEW j \in J PROVE Rank(R, Rank(I, j)) = Rank(J, j)
    OBVIOUS
  <2> DEFINE S == {k \in J : k <= j}
  <2>1. {r \in R : r <= Rank(I, j)} = {Rank(I, k) : k \in S}
    BY <1>5
  <2>2. Cardinality({Rank(I, k) : k \in S}) = Cardinality(S)
    BY <1>6
  <2> QED BY <2>1, <2>2 DEF Rank
<1>9. ASSUME NEW k \in 1 .. Cardinality(J)
      PROVE  p[Nth(R, k)] = s[Nth(J, k)]
  <2> DEFINE j == Nth(J, k)
  <2>1. j \in J /\ Rank(J, j) = k
    BY <1>1, RanksAreIndexes
  <2> HIDE DEF j
  <2>2. Rank(I, j) \in R /\ Rank(R, Rank(I, j)) = k
    BY <1>8, <2>1
  <2>3. Nth(R, k) = Rank(I, j)
    <3> HIDE DEF R
    <3> QED BY <1>2, <1>3, <2>2, RanksAreIndexes
  <2> QED BY <1>2, <2>1, <2>3 DEF j
<1>10. Picked(p, R) = Picked(s, J)
  <2> HIDE DEF R
  <2> QED BY <1>7, <1>9 DEF Picked
<1> QED BY <1>2, <1>3, <1>10 DEF p

\* In a finite set that is strictly ordered (before[t]: what comes before t),
\* every place is taken by one element, and places follow the order.
LEMMA PlacesAreTaken ==
    ASSUME NEW S, IsFiniteSet(S), NEW before \in [S -> SUBSET S],
           \A t \in S : t \notin before[t],
           \A t, u \in S : t \in before[u] => before[t] \subseteq before[u],
           \A t, u \in S : t # u => t \in before[u] \/ u \in before[t]
    PROVE  /\ Cardinality(S) \in Nat
           /\ \A t \in S : Cardinality(before[t]) \in 0 .. Cardinality(S) - 1
           /\ \A k \in 0 .. Cardinality(S) - 1 : \E t \in S : Cardinality(before[t]) = k
           /\ \A t, u \in S : t \in before[u] <=> Cardinality(before[t]) < Cardinality(before[u])
           /\ \A t, u \in S : Cardinality(before[t]) = Cardinality(before[u]) => t = u
<1> DEFINE place(t) == Cardinality(before[t])
           n == Cardinality(S)
           P == 0 .. n - 1
<1>1. n \in Nat
  BY FS_CardinalityType
<1>2. ASSUME NEW t \in S PROVE IsFiniteSet(before[t]) /\ place(t) \in P
  <2>1. before[t] \in SUBSET S
    OBVIOUS
  <2>2. IsFiniteSet(before[t]) /\ place(t) <= n /\ (place(t) = n => before[t] = S)
    BY <2>1, FS_Subset
  <2>3. place(t) \in Nat
    BY <2>2, FS_CardinalityType
  <2>4. place(t) # n
    BY <2>2
  <2> HIDE DEF place, n
  <2> QED BY <1>1, <2>2, <2>3, <2>4
<1>3. ASSUME NEW t \in S, NEW u \in S, t \in before[u] PROVE place(t) < place(u)
  <2>1. before[t] \in SUBSET before[u] /\ before[t] # before[u]
    BY <1>3
  <2>2. IsFiniteSet(before[u]) /\ place(t) \in P /\ place(u) \in P
    BY <1>2
  <2>3. place(t) <= place(u) /\ place(u) # place(t)
    BY <2>1, <2>2, FS_Subset
  <2>4. place(t) \in Int /\ place(u) \in Int
    BY <2>2
  <2> HIDE DEF place
  <2> QED BY <2>3, <2>4
<1>4. \A t, u \in S : place(t) = place(u) => t = u
  <2> SUFFICES ASSUME NEW t \in S, NEW u \in S, t # u PROVE place(t) # place(u)
    OBVIOUS
  <2>1. place(t) < place(u) \/ place(u) < place(t)
    BY <1>3
  <2>2. place(t) \in Int /\ place(u) \in Int
    BY <1>2
  <2> HIDE DEF place
  <2> QED BY <2>1, <2>2
<1>5. ASSUME NEW t \in S, NEW u \in S, place(t) < place(u) PROVE t \in before[u]
  <2>1. place(t) \in Int /\ place(u) \in Int
    BY <1>2
  <2>2. ~(place(u) < place(t)) /\ place(t) # place(u)
    <3> HIDE DEF place
    <3> QED BY <1>5, <2>1
  <2>3. t # u /\ u \notin before[t]
    BY <1>3, <2>2
  <2> QED BY <2>3
<1> DEFINE f == [t \in S |-> place(t)]
<1>6. f \in Injection(S, P)
  <2> HIDE DEF place, P
  <2> QED BY <1>2, <1>4 DEF Injection, IsInjective
<1>7. IsFiniteSet(P) /\ Cardinality(P) = n
  <2>1. IsFiniteSet(0 .. n - 1) /\ Cardinality(0 .. n - 1) = IF 0 > n - 1 THEN 0 ELSE n - 1 - 0 + 1
    BY <1>1, FS_Interval
  <2> HIDE DEF n
  <2> QED BY <1>1, <2>1
<1>8. f \in Surjection(S, P)
  <2> HIDE DEF f, P
  <2> QED BY <1>6, <1>7, FS_Injection
<1>9. \A k \in P : \E t \in S : place(t) = k
  BY <1>8 DEF Surjection
<1> QED BY <1>1, <1>2, <1>3, <1>4, <1>5, <1>9
=============================================================================
