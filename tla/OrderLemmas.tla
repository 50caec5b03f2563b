---------------------------- MODULE OrderLemmas ----------------------------
(***************************************************************************)
(* Three facts about finite sets that are ordered.  The positions that a   *)
(* consumer has behind it are an initial segment of the event log, and how *)
(* many there are says where it stands.  What is strictly and totally      *)
(* ordered can be enumerated in that order, as a query does.  And there is *)
(* only one such enumeration, so that a query has only one answer.         *)
(***************************************************************************)
EXTENDS Integers, FiniteSetTheorems

\* A set of positions that has all those before each of its own is an initial
\* segment as long as it has elements.
LEMMA InitialSegment ==
  ASSUME NEW n \in Nat, NEW S \in SUBSET (1..n),
         \A i \in S : \A j \in 1..n : j <= i => j \in S
  PROVE  /\ Cardinality(S) \in 0..n
         /\ \A i \in 1..n : i \in S <=> i <= Cardinality(S)
<1>1. IsFiniteSet(1..n) /\ Cardinality(1..n) = n
  BY FS_Interval
<1>2. IsFiniteSet(S) /\ Cardinality(S) \in Nat /\ Cardinality(S) <= n
  BY <1>1, FS_Subset, FS_CardinalityType
<1>3. ASSUME NEW i \in 1..n, i \in S PROVE i <= Cardinality(S)
  <2>1. (1..i) \subseteq S
    BY <1>3
  <2>2. Cardinality(1..i) = i
    BY FS_Interval
  <2> QED
    BY <1>2, <2>1, <2>2, FS_Subset
<1>4. ASSUME NEW i \in 1..n, i \notin S PROVE Cardinality(S) < i
  <2> DEFINE before == 1..(i - 1)
  <2>1. S \subseteq before
    BY <1>4
  <2>2. IsFiniteSet(before) /\ Cardinality(before) = i - 1
    <3>1. i - 1 \in Int /\ (1 > i - 1 => i - 1 = 0) /\ (i - 1) - 1 + 1 = i - 1
      OBVIOUS
    <3> QED
      BY <3>1, FS_Interval
  <2> HIDE DEF before
  <2>3. Cardinality(S) <= i - 1
    BY <2>1, <2>2, FS_Subset
  <2> QED
    BY <1>2, <2>3
<1> QED
  BY <1>2, <1>3, <1>4

-----------------------------------------------------------------------------
\* What precedes an element, itself included.
UpTo(R, S, x) == {y \in S : y = x \/ <<y, x>> \in R}

\* The set S can be enumerated in the strict total order R: the place of an
\* element is the number of those up to it.
LEMMA EnumerationExists ==
  ASSUME NEW S, IsFiniteSet(S), NEW R,
         \A x \in S : <<x, x>> \notin R,
         \A x, y, z \in S : <<x, y>> \in R /\ <<y, z>> \in R => <<x, z>> \in R,
         \A x, y \in S : x = y \/ <<x, y>> \in R \/ <<y, x>> \in R
  PROVE  \E s \in [1..Cardinality(S) -> S] :
           /\ \A x \in S : \E k \in 1..Cardinality(S) : s[k] = x
           /\ \A k, l \in 1..Cardinality(S) : k < l => <<s[k], s[l]>> \in R
<1> DEFINE n == Cardinality(S)
           place == [x \in S |-> Cardinality(UpTo(R, S, x))]
<1>1. n \in Nat /\ IsFiniteSet(1..n) /\ Cardinality(1..n) = n
  BY FS_CardinalityType, FS_Interval
<1>2. \A x \in S : IsFiniteSet(UpTo(R, S, x)) /\ place[x] \in 1..n
  <2> SUFFICES ASSUME NEW x \in S
               PROVE  IsFiniteSet(UpTo(R, S, x)) /\ place[x] \in 1..n
    OBVIOUS
  <2>1. UpTo(R, S, x) \in SUBSET S /\ {x} \in SUBSET UpTo(R, S, x)
    BY DEF UpTo
  <2>2. IsFiniteSet(UpTo(R, S, x)) /\ Cardinality(UpTo(R, S, x)) <= n
    BY <2>1, FS_Subset
  <2>3. Cardinality({x}) <= Cardinality(UpTo(R, S, x)) /\ Cardinality({x}) = 1
    BY <2>1, <2>2, FS_Subset, FS_Singleton
  <2>4. Cardinality(UpTo(R, S, x)) \in Nat
    BY <2>2, FS_CardinalityType
  <2> QED
    BY <1>1, <2>2, <2>3, <2>4
<1>3. ASSUME NEW x \in S, NEW y \in S, <<x, y>> \in R PROVE place[x] < place[y]
  <2>1. UpTo(R, S, x) \in SUBSET UpTo(R, S, y)
    BY <1>3 DEF UpTo
  <2>2. y \in UpTo(R, S, y) /\ y \notin UpTo(R, S, x)
    BY <1>3 DEF UpTo
  <2>3. /\ Cardinality(UpTo(R, S, x)) <= Cardinality(UpTo(R, S, y))
        /\ Cardinality(UpTo(R, S, x)) # Cardinality(UpTo(R, S, y))
    BY <1>2, <2>1, <2>2, FS_Subset
  <2> QED
    BY <1>1, <1>2, <2>3
<1> HIDE DEF n
<1>4. place \in Injection(S, 1..n)
  <2>1. place \in [S -> 1..n]
    BY <1>2
  <2>2. ASSUME NEW x \in S, NEW y \in S, place[x] = place[y] PROVE x = y
    <3>1. place[x] \in 1..n
      BY <1>2
    <3> HIDE DEF place
    <3>2. ~(place[x] < place[y]) /\ ~(place[y] < place[x])
      BY <1>1, <2>2, <3>1
    <3> QED
      BY <1>3, <3>2
  <2> QED
    BY <2>1, <2>2 DEF Injection, IsInjective
<1>5. \A k \in 1..n : \E x \in S : place[x] = k
  <2>1. place \in Surjection(S, 1..n)
    BY <1>1, <1>4, FS_Injection DEF n
  <2> QED
    BY <2>1 DEF Surjection
<1> HIDE DEF place
<1> DEFINE s == [k \in 1..n |-> CHOOSE x \in S : place[x] = k]
<1>6. \A k \in 1..n : s[k] \in S /\ place[s[k]] = k
  BY <1>5
<1>7. s \in [1..n -> S]
  BY <1>6
<1>8. \A x \in S : \E k \in 1..n : s[k] = x
  <2> SUFFICES ASSUME NEW x \in S PROVE s[place[x]] = x /\ place[x] \in 1..n
    OBVIOUS
  <2>1. place[x] \in 1..n
    BY <1>2 DEF place
  <2>2. place[s[place[x]]] = place[x] /\ s[place[x]] \in S
    BY <1>6, <2>1
  <2> QED
    BY <1>4, <2>1, <2>2 DEF Injection, IsInjective
<1>9. \A k, l \in 1..n : k < l => <<s[k], s[l]>> \in R
  <2> SUFFICES ASSUME NEW k \in 1..n, NEW l \in 1..n, k < l PROVE <<s[k], s[l]>> \in R
    OBVIOUS
  <2>1. s[k] \in S /\ s[l] \in S /\ place[s[k]] = k /\ place[s[l]] = l
    BY <1>6
  <2> HIDE DEF s
  <2>2. s[k] # s[l]
    BY <1>1, <2>1
  <2>3. ~(<<s[l], s[k]>> \in R)
    <3>1. <<s[l], s[k]>> \in R => place[s[l]] < place[s[k]]
      BY <1>3, <2>1 DEF place
    <3> QED
      BY <1>1, <2>1, <3>1
  <2> QED
    BY <2>1, <2>2, <2>3
<1> HIDE DEF s
<1> QED
  BY <1>7, <1>8, <1>9 DEF n

-----------------------------------------------------------------------------
\* s enumerates S, n elements, from the highest r down.
Descends(s, n, S, r) ==
  /\ s \in [1..n -> S]
  /\ \A x \in S : r[x] \in Int /\ \E k \in 1..n : s[k] = x
  /\ \A k, l \in 1..n : k < l => r[s[k]] > r[s[l]]

AsHigh(h, S, r) == {x \in S : r[x] >= h}

\* The place of an element is the number of those that are as high.
LEMMA PlaceIsARank ==
  ASSUME NEW n \in Nat, NEW S, NEW r, NEW s, Descends(s, n, S, r), NEW k \in 1..n
  PROVE  Cardinality(AsHigh(r[s[k]], S, r)) = k
<1> DEFINE H == AsHigh(r[s[k]], S, r)
           f == [i \in 1..k |-> s[i]]
<1>1. /\ s \in [1..n -> S] /\ \A i \in 1..k : i \in 1..n
      /\ \A i \in 1..n : r[s[i]] \in Int
      /\ \A i, j \in 1..n : i < j => r[s[i]] > r[s[j]]
  BY DEF Descends
<1>2. \A i \in 1..n : i <= k <=> s[i] \in H
  BY <1>1 DEF AsHigh
<1>3. f \in [1..k -> H]
  BY <1>1, <1>2
<1>4. ASSUME NEW i \in 1..k, NEW j \in 1..k, f[i] = f[j] PROVE i = j
  BY <1>1, <1>4
<1>5. ASSUME NEW x \in H PROVE \E i \in 1..k : f[i] = x
  <2>1. PICK i \in 1..n : s[i] = x
    BY DEF Descends, AsHigh
  <2> QED
    BY <1>2, <2>1
<1> HIDE DEF H, f
<1>6. f \in Bijection(1..k, H)
  BY <1>3, <1>4, <1>5 DEF Bijection, Injection, Surjection, IsInjective
<1>7. k \in Nat /\ ExistsBijection(1..k, H)
  BY <1>6 DEF ExistsBijection
<1> QED
  BY <1>7, FS_CountingElements DEF H

\* There is only one such enumeration.
LEMMA EnumerationIsUnique ==
  ASSUME NEW n \in Nat, NEW S, NEW r, NEW s, NEW u,
         Descends(s, n, S, r), Descends(u, n, S, r)
  PROVE  s = u
<1>1. ASSUME NEW k \in 1..n PROVE s[k] = u[k]
  <2>1. PICK j \in 1..n : u[j] = s[k]
    BY DEF Descends
  <2>2. Cardinality(AsHigh(r[s[k]], S, r)) = k
    BY PlaceIsARank
  <2>3. Cardinality(AsHigh(r[u[j]], S, r)) = j
    BY PlaceIsARank
  <2> QED
    BY <2>1, <2>2, <2>3
<1> QED
  BY <1>1 DEF Descends
=============================================================================
