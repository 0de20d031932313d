------------------------------- MODULE Lemmas -------------------------------
(***************************************************************************)
(* Facts about numbers, places in sequences and sets in some order, which  *)
(* the proofs of several modules cite.                                     *)
(***************************************************************************)
EXTENDS Integers, SequencesExt, Selection, FiniteSetTheorems, FunctionTheorems,
        WellFoundedInduction, TLAPS

-----------------------------------------------------------------------------
(* A set of numbers has a least one, a set of places a last one.           *)

(* A set of numbers has a least element, from the well-foundedness of      *)
(* their order.                                                            *)
LEMMA LeastOf ==
    ASSUME NEW T \in SUBSET Nat, T # {}, NEW R, IsWellFoundedOn(R, Nat),
           \A x, y \in Nat : y < x => << y, x >> \in R
    PROVE  \E x \in T : \A y \in T : x <= y
<1>1. PICK x \in T : \A y \in T : ~ (<< y, x >> \in R)
  <2>1. T \subseteq Nat
      OBVIOUS
  <2> QED BY <2>1, WFMin, Zenon
<1>2. ASSUME NEW y \in T
      PROVE  x <= y
  <2>1. x \in Nat /\ y \in Nat
      OBVIOUS
  <2>2. ~ (y < x)
      BY <1>1, <2>1
  <2> QED BY <2>1, <2>2
<1> QED BY <1>2

LEMMA LeastNumber ==
    ASSUME NEW T \in SUBSET Nat, T # {}
    PROVE  \E x \in T : \A y \in T : x <= y
<1>1. \A x, y \in Nat : y < x => << y, x >> \in OpToRel(<, Nat)
    BY Zenon DEF OpToRel
<1> QED BY <1>1, NatLessThanWellFounded, LeastOf, Zenon

LEMMA LastPlace ==
    ASSUME NEW n \in Nat, NEW T \in SUBSET (1..n), T # {}
    PROVE  \E i \in T : \A k \in (i + 1)..n : k \notin T
<1> DEFINE distance == { n - i : i \in T }
<1>1. distance \in SUBSET Nat /\ distance # {}
  <2>1. PICK i \in T : TRUE
      OBVIOUS
  <2>2. n - i \in distance
      OBVIOUS
  <2> QED BY <2>2
<1>2. PICK d \in distance : \A e \in distance : d <= e
  <2> HIDE DEF distance
  <2> QED BY <1>1, LeastNumber
<1>3. PICK i \in T : d = n - i
    BY <1>2
<1>4. ASSUME NEW k \in (i + 1)..n, k \in T
      PROVE  FALSE
  <2>1. n - k \in distance
      BY <1>4
  <2>2. n - i <= n - k
      BY <1>2, <1>3, <2>1
  <2> QED BY <1>3, <1>4, <2>2
<1> QED BY <1>4

(* A concatenation is as long as both sequences and has the elements of    *)
(* both.                                                                   *)
LEMMA Concatenated ==
    ASSUME NEW S, NEW s \in Seq(S), NEW t \in Seq(S)
    PROVE  /\ s \o t \in Seq(S)
           /\ Len(s \o t) = Len(s) + Len(t)
           /\ Range(s \o t) = Range(s) \cup Range(t)
<1>1. /\ s \o t \in Seq(S)
      /\ Len(s \o t) = Len(s) + Len(t)
      /\ Len(s) \in Nat /\ Len(t) \in Nat
      /\ DOMAIN s = 1..Len(s) /\ DOMAIN t = 1..Len(t)
      /\ DOMAIN (s \o t) = 1..(Len(s) + Len(t))
      /\ \A k \in 1..(Len(s) + Len(t)) :
            (s \o t)[k] = IF k <= Len(s) THEN s[k] ELSE t[k - Len(s)]
    OBVIOUS
<1>2. ASSUME NEW k \in DOMAIN (s \o t)
      PROVE  (s \o t)[k] \in Range(s) \cup Range(t)
  <2>1. CASE k <= Len(s)
      BY <1>1, <2>1 DEF Range
  <2>2. CASE k > Len(s)
    <3>1. k - Len(s) \in DOMAIN t /\ (s \o t)[k] = t[k - Len(s)]
        BY <1>1, <2>2
    <3> QED BY <3>1 DEF Range
  <2> QED BY <1>1, <2>1, <2>2
<1>3. ASSUME NEW k \in DOMAIN s
      PROVE  s[k] \in Range(s \o t)
  <2>1. k \in DOMAIN (s \o t) /\ (s \o t)[k] = s[k]
      BY <1>1
  <2> QED BY <2>1 DEF Range
<1>4. ASSUME NEW k \in DOMAIN t
      PROVE  t[k] \in Range(s \o t)
  <2>1. k + Len(s) \in DOMAIN (s \o t) /\ (s \o t)[k + Len(s)] = t[k]
      BY <1>1
  <2> QED BY <2>1 DEF Range
<1>5. /\ \A x \in Range(s \o t) : \E k \in DOMAIN (s \o t) : x = (s \o t)[k]
      /\ \A x \in Range(s) : \E k \in DOMAIN s : x = s[k]
      /\ \A x \in Range(t) : \E k \in DOMAIN t : x = t[k]
    BY DEF Range
<1>6. Range(s \o t) \subseteq Range(s) \cup Range(t)
    BY <1>2, <1>5
<1>7. Range(s) \cup Range(t) \subseteq Range(s \o t)
    BY <1>3, <1>4, <1>5
<1> QED BY <1>1, <1>6, <1>7

-----------------------------------------------------------------------------
(* A finite set in some order.                                             *)

IsOrderOf(s, S) ==
    /\ s \in Seq(S)
    /\ Len(s) = Cardinality(S)
    /\ DOMAIN s = 1..Cardinality(S)
    /\ \A k \in DOMAIN s : s[k] \in S
    /\ \A x \in S : \E k \in DOMAIN s : s[k] = x

(* A sequence over a finite set, as long as the set is large and with      *)
(* every element of it, is an order of it.                                 *)
LEMMA Surjected ==
    ASSUME NEW S, NEW s \in [1..Cardinality(S) -> S], Cardinality(S) \in Nat,
           s \in Surjection(1..Cardinality(S), S)
    PROVE  IsOrderOf(s, S)
<1>1. \A x \in S : \E k \in 1..Cardinality(S) : s[k] = x
    BY Fun_SurjectionProperties
<1> DEFINE n == Cardinality(S)
<1>2. s \in Seq(S) /\ Len(s) = n /\ DOMAIN s = 1..n
  <2> HIDE DEF n
  <2>1. s \in [1..n -> S] /\ n \in Nat
      BY DEF n
  <2> QED BY <2>1
<1> QED BY <1>1, <1>2 DEF IsOrderOf

(* SetToSeq, of which a set is read in some order, is an order of it.      *)
LEMMA OneOrder ==
    ASSUME NEW S, IsFiniteSet(S)
    PROVE  IsOrderOf(SetToSeq(S), S)
<1>1. Cardinality(S) \in Nat /\ ExistsBijection(1..Cardinality(S), S)
    BY FS_CardinalityType
<1> DEFINE n == Cardinality(S)
<1>2. PICK f \in [1..n -> S] : IsInjective(f)
    BY <1>1 DEF ExistsBijection, Bijection, Injection, IsInjective
<1>3. SetToSeq(S) \in [1..n -> S] /\ IsInjective(SetToSeq(S))
    BY <1>2 DEF SetToSeq
<1>4. SetToSeq(S) \in Injection(1..n, S)
    BY <1>3 DEF Injection
<1>5. SetToSeq(S) \in Surjection(1..n, S)
  <2>1. Cardinality(1..n) = n
      BY <1>1, FS_Interval
  <2> QED BY <1>4, <2>1, FS_Injection
<1> QED BY <1>1, <1>3, <1>5, Surjected

(* And so is any member of SetToSeqs.                                      *)
LEMMA AnyOrder ==
    ASSUME NEW S, IsFiniteSet(S), NEW s \in SetToSeqs(S)
    PROVE  IsOrderOf(s, S)
<1>1. Cardinality(S) \in Nat
    BY FS_CardinalityType
<1> DEFINE n == Cardinality(S)
<1>2. s \in [1..n -> S] /\ \A i, j \in 1..n : i # j => s[i] # s[j]
    BY DEF SetToSeqs
<1>3. s \in Injection(1..n, S)
    BY <1>2 DEF Injection, IsInjective
<1>4. s \in Surjection(1..n, S)
  <2>1. Cardinality(1..n) = n
      BY <1>1, FS_Interval
  <2> QED BY <1>3, <2>1, FS_Injection
<1> QED BY <1>1, <1>2, <1>4, Surjected

-----------------------------------------------------------------------------
(* The elements at some places of a sequence.                              *)

(* The rank of a place grows with the place, and every rank is taken.      *)
LEMMA Ranks ==
    ASSUME NEW n \in Nat, NEW P \in SUBSET (1..n)
    PROVE  /\ IsFiniteSet(P) /\ Cardinality(P) \in Nat
           /\ \A i \in 1..Cardinality(P) : Nth(P, i) \in P
           /\ \A i, j \in 1..Cardinality(P) : i < j => Nth(P, i) < Nth(P, j)
           /\ \A k \in P : \E i \in 1..Cardinality(P) : Nth(P, i) = k
<1> DEFINE c == Cardinality(P)
           below(k) == { m \in P : m <= k }
           rank == [k \in P |-> Cardinality(below(k))]
<1>1. IsFiniteSet(P) /\ c \in Nat
  <2>1. IsFiniteSet(1..n)
      BY FS_Interval
  <2> QED BY <2>1, FS_Subset, FS_CardinalityType
<1>2. \A k \in P : k \in Nat
    OBVIOUS
<1>3. ASSUME NEW k \in P
      PROVE  /\ below(k) \in SUBSET P /\ k \in below(k) /\ IsFiniteSet(below(k))
             /\ rank[k] = Cardinality(below(k)) /\ rank[k] \in 1..c
  <2>1. below(k) \in SUBSET P /\ k \in below(k)
      BY <1>2
  <2>2. IsFiniteSet(below(k)) /\ Cardinality(below(k)) <= c
      BY <1>1, <2>1, FS_Subset
  <2>3. Cardinality(below(k)) \in Nat /\ Cardinality(below(k)) # 0
      BY <2>1, <2>2, FS_CardinalityType, FS_EmptySet
  <2>4. rank[k] = Cardinality(below(k))
      OBVIOUS
  <2> HIDE DEF below, rank, c
  <2> QED BY <1>1, <2>1, <2>2, <2>3, <2>4
<1>4. ASSUME NEW k \in P, NEW m \in P, m < k
      PROVE  rank[m] < rank[k]
  <2>1. below(m) \in SUBSET below(k) /\ k \notin below(m)
    <3>1. /\ \A x \in P : x <= m => x <= k
          /\ ~ (k <= m)
        BY <1>2, <1>4
    <3>2. \A x \in below(m) : x \in below(k)
        BY <3>1
    <3> QED BY <3>1, <3>2
  <2> HIDE DEF below, rank, c
  <2>2. below(m) # below(k)
      BY <1>3, <2>1
  <2>3. Cardinality(below(m)) <= Cardinality(below(k))
        /\ Cardinality(below(m)) # Cardinality(below(k))
      BY <1>3, <2>1, <2>2, FS_Subset
  <2>4. rank[m] \in Nat /\ rank[k] \in Nat
      BY <1>1, <1>3
  <2> QED BY <1>3, <2>3, <2>4
<1> HIDE DEF rank, c
<1>5. rank \in Surjection(P, 1..c)
  <2>1. rank \in [P -> 1..c]
      BY <1>3 DEF rank
  <2>2. \A k, m \in P : rank[k] = rank[m] => k = m
    <3> SUFFICES ASSUME NEW k \in P, NEW m \in P, k # m
                 PROVE  rank[k] # rank[m]
        OBVIOUS
    <3>1. k < m \/ m < k
        BY <1>2
    <3>2. rank[k] \in 1..c /\ rank[m] \in 1..c
        BY <1>3
    <3> QED BY <1>1, <1>4, <3>1, <3>2
  <2>3. rank \in Injection(P, 1..c)
      BY <2>1, <2>2, Fun_IsInj
  <2>4. IsFiniteSet(1..c) /\ Cardinality(1..c) = c
      BY <1>1, FS_Interval
  <2> QED BY <1>1, <2>3, <2>4, FS_Injection DEF c
<1>6. ASSUME NEW i \in 1..c
      PROVE  Nth(P, i) \in P /\ rank[Nth(P, i)] = i
  <2>1. \A x \in 1..c : \E k \in P : rank[k] = x
      BY <1>5, Fun_SurjectionProperties
  <2>2. \E k \in P : Cardinality(below(k)) = i
      BY <1>3, <2>1
  <2>3. Nth(P, i) \in P /\ Cardinality(below(Nth(P, i))) = i
      BY <2>2 DEF Nth
  <2> HIDE DEF below
  <2> QED BY <1>3, <2>3
<1>7. ASSUME NEW i \in 1..c, NEW j \in 1..c, i < j
      PROVE  Nth(P, i) < Nth(P, j)
  <2> DEFINE k == Nth(P, i)
             m == Nth(P, j)
  <2>1. k \in P /\ m \in P /\ rank[k] = i /\ rank[m] = j
      BY <1>6
  <2> HIDE DEF k, m
  <2>2. k = m \/ k < m \/ m < k
      BY <1>2, <2>1
  <2>3. ~ (m < k) /\ k # m
      BY <1>1, <1>4, <1>7, <2>1
  <2>4. k < m
      BY <2>2, <2>3
  <2> QED BY <2>4 DEF k, m
<1>8. ASSUME NEW k \in P
      PROVE  \E i \in 1..c : Nth(P, i) = k
  <2> DEFINE m == Nth(P, rank[k])
  <2>1. rank[k] \in 1..c
      BY <1>3
  <2>2. m \in P /\ rank[m] = rank[k]
      BY <1>6, <2>1
  <2>3. m = k
    <3> HIDE DEF m
    <3>1. m = k \/ k < m \/ m < k
        BY <1>2, <2>2
    <3> QED BY <1>1, <1>4, <2>1, <2>2, <3>1
  <2> QED BY <2>1, <2>3
<1> QED BY <1>1, <1>6, <1>7, <1>8 DEF c

(* t has the elements of s at the places P and no other, in their order.   *)
Selects(t, s, P) ==
    \E from \in [DOMAIN t -> P] :
        /\ \A i \in DOMAIN t : t[i] = s[from[i]]
        /\ \A i, j \in DOMAIN t : i < j => from[i] < from[j]
        /\ \A k \in P : \E i \in DOMAIN t : from[i] = k

(* What is kept are the elements at the given places, in their order, and  *)
(* no other.                                                               *)
LEMMA KeptSelects ==
    ASSUME NEW S, NEW s \in Seq(S), NEW P \in SUBSET (DOMAIN s)
    PROVE  /\ Kept(s, P) \in Seq(S)
           /\ Len(Kept(s, P)) = Cardinality(P) /\ Cardinality(P) <= Len(s)
           /\ Selects(Kept(s, P), s, P)
<1> DEFINE c == Cardinality(P)
           from == [i \in 1..c |-> Nth(P, i)]
           t == Kept(s, P)
<1>1. Len(s) \in Nat /\ P \in SUBSET (1..Len(s)) /\ DOMAIN s = 1..Len(s)
    OBVIOUS
<1>2. /\ c \in Nat
      /\ \A i \in 1..c : Nth(P, i) \in P
      /\ \A i, j \in 1..c : i < j => Nth(P, i) < Nth(P, j)
      /\ \A k \in P : \E i \in 1..c : Nth(P, i) = k
    BY <1>1, Ranks
<1>3. /\ from \in [1..c -> P]
      /\ \A i, j \in 1..c : i < j => from[i] < from[j]
      /\ \A k \in P : \E i \in 1..c : from[i] = k
    BY <1>2
<1>4. t = [i \in 1..c |-> s[from[i]]]
    BY DEF Kept
<1>5. c <= Len(s)
  <2> DEFINE n == Len(s)
  <2>1. n \in Nat /\ P \in SUBSET (1..n)
      BY <1>1
  <2> HIDE DEF n
  <2>2. IsFiniteSet(1..n) /\ Cardinality(1..n) = n
      BY <2>1, FS_Interval
  <2>3. c <= n
      BY <2>1, <2>2, FS_Subset
  <2> QED BY <2>3 DEF n
<1> HIDE DEF c, from, t
<1>6. t \in Seq(S) /\ Len(t) = c /\ DOMAIN t = 1..c
  <2>1. \A i \in 1..c : s[from[i]] \in S
      BY <1>1, <1>3
  <2>2. t \in [1..c -> S]
      BY <1>4, <2>1
  <2> QED BY <1>2, <2>2
<1>7. \A i \in DOMAIN t : t[i] = s[from[i]]
    BY <1>4, <1>6
<1>8. Selects(t, s, P)
  <2>1. /\ from \in [DOMAIN t -> P]
        /\ \A i, j \in DOMAIN t : i < j => from[i] < from[j]
        /\ \A k \in P : \E i \in DOMAIN t : from[i] = k
      BY <1>3, <1>6
  <2> QED BY <1>7, <2>1 DEF Selects
<1> QED BY <1>5, <1>6, <1>8 DEF t, c

(* What is selected is what was at those places.                           *)
LEMMA KeptRange ==
    ASSUME NEW S, NEW s \in Seq(S), NEW P \in SUBSET (DOMAIN s)
    PROVE  Range(Kept(s, P)) = { s[k] : k \in P }
<1> DEFINE t == Kept(s, P)
<1>1. PICK from \in [DOMAIN t -> P] :
        /\ \A i \in DOMAIN t : t[i] = s[from[i]]
        /\ \A k \in P : \E i \in DOMAIN t : from[i] = k
  <2>1. Selects(t, s, P)
      BY KeptSelects
  <2> HIDE DEF t
  <2> QED BY <2>1 DEF Selects
<1> HIDE DEF t
<1>2. Range(t) = { s[k] : k \in P }
    BY <1>1 DEF Range
<1> QED BY <1>2 DEF t

(* One element more at the end.                                            *)
LEMMA Appended ==
    ASSUME NEW S, NEW s \in Seq(S), NEW e \in S
    PROVE  /\ Append(s, e) \in Seq(S)
           /\ Len(s) \in Nat /\ Len(Append(s, e)) = Len(s) + 1
           /\ DOMAIN s = 1..Len(s) /\ DOMAIN Append(s, e) = 1..(Len(s) + 1)
           /\ \A k \in 1..Len(s) : Append(s, e)[k] = s[k]
           /\ Append(s, e)[Len(s) + 1] = e
           /\ Range(Append(s, e)) = Range(s) \cup {e}
<1>1. /\ Append(s, e) \in Seq(S)
      /\ Len(s) \in Nat /\ Len(Append(s, e)) = Len(s) + 1
      /\ DOMAIN s = 1..Len(s) /\ DOMAIN Append(s, e) = 1..(Len(s) + 1)
      /\ \A k \in 1..Len(s) : Append(s, e)[k] = s[k]
      /\ Append(s, e)[Len(s) + 1] = e
    OBVIOUS
<1>2. \A k \in 1..(Len(s) + 1) : k \in 1..Len(s) \/ k = Len(s) + 1
    BY <1>1
<1>3. ASSUME NEW x \in Range(Append(s, e))
      PROVE  x \in Range(s) \cup {e}
  <2>1. PICK k \in 1..(Len(s) + 1) : x = Append(s, e)[k]
      BY <1>1 DEF Range
  <2> QED BY <1>1, <1>2, <2>1 DEF Range
<1>4. ASSUME NEW x \in Range(s) \cup {e}
      PROVE  x \in Range(Append(s, e))
  <2>1. CASE x = e
    <3>1. Len(s) + 1 \in DOMAIN Append(s, e)
        BY <1>1
    <3> QED BY <1>1, <2>1, <3>1 DEF Range
  <2>2. CASE x \in Range(s)
    <3>1. PICK k \in 1..Len(s) : x = s[k]
        BY <1>1, <2>2 DEF Range
    <3>2. k \in DOMAIN Append(s, e) /\ Append(s, e)[k] = x
        BY <1>1, <3>1
    <3> QED BY <3>2 DEF Range
  <2> QED BY <2>1, <2>2
<1> QED BY <1>1, <1>3, <1>4

-----------------------------------------------------------------------------
(* Sorting.                                                                *)

(* upTo orders the places in D: each comes up to itself, and of two the    *)
(* one comes, with all that comes up to it, before the other.              *)
Earlier(m, k, upTo) == m \in upTo[k] /\ k \notin upTo[m] /\ upTo[m] \subseteq upTo[k]

Orders(upTo, D) ==
    /\ upTo \in [D -> SUBSET D]
    /\ \A k \in D : k \in upTo[k]
    /\ \A k, m \in D : k # m => Earlier(m, k, upTo) \/ Earlier(k, m, upTo)

(* What sorting makes of a sequence: the same elements, each of them at    *)
(* one place, and none before one that comes up to it.                     *)
LEMMA ArrangedSpec ==
    ASSUME NEW S, NEW s \in Seq(S), NEW upTo, Orders(upTo, DOMAIN s)
    PROVE  /\ Arranged(s, upTo) \in Seq(S)
           /\ Len(Arranged(s, upTo)) = Len(s)
           /\ Range(Arranged(s, upTo)) = Range(s)
           /\ \E from \in [DOMAIN s -> DOMAIN s] :
                 /\ Arranged(s, upTo) = [p \in DOMAIN s |-> s[from[p]]]
                 /\ \A p, q \in DOMAIN s : p < q =>
                       from[p] # from[q] /\ from[p] \in upTo[from[q]]
<1> DEFINE n == Len(s)
           place == [k \in 1..n |-> Cardinality(upTo[k])]
           from == [p \in DOMAIN s |->
                       CHOOSE k \in DOMAIN s : Cardinality(upTo[k]) = p]
           t == Arranged(s, upTo)
<1>1. n \in Nat /\ DOMAIN s = 1..n /\ IsFiniteSet(1..n) /\ Cardinality(1..n) = n
  <2>1. n \in Nat /\ DOMAIN s = 1..n
      OBVIOUS
  <2> HIDE DEF n
  <2> QED BY <2>1, FS_Interval
<1>2. \A k \in 1..n : s[k] \in S
    BY <1>1
<1>3. ASSUME NEW k \in 1..n
      PROVE  /\ upTo[k] \in SUBSET (1..n) /\ k \in upTo[k]
             /\ IsFiniteSet(upTo[k]) /\ place[k] \in 1..n
             /\ place[k] = Cardinality(upTo[k])
  <2>1. upTo[k] \in SUBSET (1..n) /\ k \in upTo[k]
      BY <1>1 DEF Orders
  <2>2. IsFiniteSet(upTo[k]) /\ Cardinality(upTo[k]) <= n
      BY <1>1, <2>1, FS_Subset
  <2>3. Cardinality(upTo[k]) \in Nat /\ Cardinality(upTo[k]) # 0
      BY <2>1, <2>2, FS_CardinalityType, FS_EmptySet
  <2>4. place[k] = Cardinality(upTo[k])
      OBVIOUS
  <2> HIDE DEF n, place
  <2> QED BY <1>1, <2>1, <2>2, <2>3, <2>4
<1>4. ASSUME NEW k \in 1..n, NEW m \in 1..n, Earlier(m, k, upTo)
      PROVE  place[m] < place[k]
  <2>1. upTo[m] \in SUBSET upTo[k] /\ upTo[m] # upTo[k]
      BY <1>3, <1>4 DEF Earlier
  <2>2. Cardinality(upTo[m]) <= Cardinality(upTo[k])
        /\ Cardinality(upTo[m]) # Cardinality(upTo[k])
      BY <1>3, <2>1, FS_Subset
  <2>3. /\ place[m] \in Nat /\ place[k] \in Nat
        /\ place[m] = Cardinality(upTo[m]) /\ place[k] = Cardinality(upTo[k])
      BY <1>3
  <2> HIDE DEF place, n
  <2> QED BY <2>2, <2>3
<1>5. ASSUME NEW k \in 1..n, NEW m \in 1..n, k # m
      PROVE  Earlier(m, k, upTo) \/ Earlier(k, m, upTo)
    BY <1>1, <1>5 DEF Orders
<1>6. place \in [1..n -> 1..n]
  <2>1. \A k \in 1..n : place[k] \in 1..n
      BY <1>3
  <2> QED BY <2>1
<1> HIDE DEF n, place
<1>7. \A k, m \in 1..n : place[k] = place[m] => k = m
  <2> SUFFICES ASSUME NEW k \in 1..n, NEW m \in 1..n, k # m
               PROVE  place[k] # place[m]
      OBVIOUS
  <2>1. place[k] \in Nat /\ place[m] \in Nat
      BY <1>3
  <2>2. place[k] < place[m] \/ place[m] < place[k]
      BY <1>4, <1>5
  <2> QED BY <2>1, <2>2
<1>8. place \in Surjection(1..n, 1..n)
  <2>1. place \in Injection(1..n, 1..n)
      BY <1>6, <1>7, Fun_IsInj
  <2> QED BY <1>1, <2>1, FS_Injection
<1>9. \A p \in 1..n : from[p] \in 1..n /\ place[from[p]] = p
  <2>1. \A p \in 1..n : \E k \in 1..n : place[k] = p
      BY <1>8, Fun_SurjectionProperties
  <2>2. \A k \in 1..n : place[k] = Cardinality(upTo[k])
      BY <1>3
  <2>3. \A p \in 1..n : \E k \in DOMAIN s : Cardinality(upTo[k]) = p
      BY <1>1, <2>1, <2>2
  <2>4. \A p \in DOMAIN s : from[p] \in DOMAIN s /\ Cardinality(upTo[from[p]]) = p
      BY <1>1, <2>3
  <2> QED BY <1>1, <2>2, <2>4
<1>10. t = [p \in 1..n |-> s[from[p]]]
  <2>1. t = [p \in DOMAIN s |-> s[from[p]]]
      BY DEF Arranged
  <2> QED BY <1>1, <2>1
<1> HIDE DEF from, t
<1>11. ASSUME NEW p \in 1..n, NEW q \in 1..n, p < q
       PROVE  from[p] # from[q] /\ from[p] \in upTo[from[q]]
  <2>1. /\ from[p] \in 1..n /\ from[q] \in 1..n
        /\ place[from[p]] = p /\ place[from[q]] = q
      BY <1>9
  <2>2. p # q /\ ~ (q < p)
      BY <1>1, <1>11
  <2>3. from[p] # from[q]
      BY <2>1, <2>2
  <2>4. ~ Earlier(from[q], from[p], upTo)
      BY <1>4, <2>1, <2>2
  <2>5. Earlier(from[p], from[q], upTo)
      BY <1>5, <2>1, <2>3, <2>4
  <2> QED BY <2>3, <2>5 DEF Earlier
<1>12. t \in Seq(S) /\ Len(t) = n
  <2>1. t \in [1..n -> S]
      BY <1>2, <1>9, <1>10
  <2> QED BY <1>1, <2>1
<1>13. Range(t) = Range(s)
  <2>1. \A k \in 1..n : \E p \in 1..n : from[p] = k
    <3> TAKE k \in 1..n
    <3>1. place[k] \in 1..n /\ place[from[place[k]]] = place[k] /\ from[place[k]] \in 1..n
        BY <1>6, <1>9
    <3> QED BY <1>7, <3>1
  <2>2. /\ DOMAIN t = 1..n
        /\ \A p \in 1..n : t[p] = s[from[p]] /\ from[p] \in 1..n
      BY <1>9, <1>10
  <2>3. \A k \in 1..n : s[k] \in { t[p] : p \in 1..n }
      BY <2>1, <2>2
  <2>4. \A p \in 1..n : t[p] \in { s[k] : k \in 1..n }
      BY <2>2
  <2>5. { t[p] : p \in 1..n } = { s[k] : k \in 1..n }
      BY <2>3, <2>4
  <2> QED BY <1>1, <2>2, <2>5 DEF Range
<1>14. from \in [DOMAIN s -> DOMAIN s]
    BY <1>1, <1>9 DEF from
<1>15. /\ t = [p \in DOMAIN s |-> s[from[p]]]
       /\ \A p, q \in DOMAIN s : p < q =>
             from[p] # from[q] /\ from[p] \in upTo[from[q]]
    BY <1>1, <1>10, <1>11
<1> QED BY <1>12, <1>13, <1>14, <1>15 DEF n, t

-----------------------------------------------------------------------------
(* Recursive functions.                                                    *)

(* From a first value, and steps that stay among the values, a sequence of *)
(* values.                                                                 *)
Stepwise(h, n, first, step) ==
    h = [k \in 0..n |-> IF k = 0 THEN first ELSE step[k][h[k - 1]]]

LEMMA StepwiseExists ==
    ASSUME NEW S, NEW first \in S, NEW n \in Nat, NEW step \in [1..n -> [S -> S]]
    PROVE  \E h \in [0..n -> S] : Stepwise(h, n, first, step)
<1> DEFINE Reaches(h, m) == /\ h \in [0..m -> S] /\ h[0] = first
                            /\ \A k \in 1..m : h[k] = step[k][h[k - 1]]
           T == { k \in 0..n : ~ \E h : Reaches(h, k) }
<1>1. T = {}
  <2> SUFFICES ASSUME T # {}
               PROVE  FALSE
      OBVIOUS
  <2>1. T \in SUBSET Nat
      OBVIOUS
  <2>2. PICK k \in T : \A l \in T : k <= l
    <3> HIDE DEF T
    <3> QED BY <2>1, LeastNumber
  <2>3. k \in 0..n /\ ~ \E h : Reaches(h, k)
      OBVIOUS
  <2>4. CASE k = 0
    <3> DEFINE h == [i \in 0..0 |-> first]
    <3>1. Reaches(h, 0)
        OBVIOUS
    <3> QED BY <2>3, <2>4, <3>1
  <2>5. CASE k # 0
    <3>1. k - 1 \in 0..n /\ k \in 1..n /\ ~ (k <= k - 1)
        BY <2>3, <2>5
    <3>2. PICK g : Reaches(g, k - 1)
        BY <2>2, <3>1
    <3> DEFINE last == step[k][g[k - 1]]
               h == [i \in 0..k |-> IF i = k THEN last ELSE g[i]]
    <3>3. g[k - 1] \in S
        BY <3>1, <3>2
    <3>4. last \in S
        BY <3>1, <3>3
    <3> HIDE DEF last
    <3>5. h \in [0..k -> S] /\ h[0] = first
        BY <3>1, <3>2, <3>4
    <3>6. ASSUME NEW i \in 1..k
          PROVE  h[i] = step[i][h[i - 1]]
      <4>1. h[i - 1] = g[i - 1]
          BY <3>1
      <4>2. CASE i = k
        <5>1. h[i] = last
            BY <3>1, <4>2
        <5> QED BY <4>1, <4>2, <5>1 DEF last
      <4>3. CASE i # k
        <5>1. i \in 1..(k - 1) /\ h[i] = g[i]
            BY <3>1, <4>3
        <5> QED BY <3>2, <4>1, <5>1
      <4> QED BY <4>2, <4>3
    <3> HIDE DEF h
    <3>7. Reaches(h, k)
        BY <3>5, <3>6
    <3> QED BY <2>3, <3>7
  <2> QED BY <2>4, <2>5
<1>2. PICK h : Reaches(h, n)
  <2>1. n \in 0..n
      OBVIOUS
  <2> QED BY <1>1, <2>1
<1>3. \A k \in 0..n : h[k] = IF k = 0 THEN first ELSE step[k][h[k - 1]]
  <2> TAKE k \in 0..n
  <2>1. k # 0 => k \in 1..n
      OBVIOUS
  <2> QED BY <1>2, <2>1
<1>4. h = [k \in 0..n |-> h[k]]
    BY <1>2
<1>5. Stepwise(h, n, first, step)
    BY <1>3, <1>4 DEF Stepwise
<1> QED BY <1>2, <1>5

(* What holds at the start and is handed on by every step holds at every   *)
(* step.                                                                   *)
LEMMA Upward ==
    ASSUME NEW n \in Nat, NEW P \in SUBSET (0..n), 0 \in P,
           \A k \in 1..n : k - 1 \in P => k \in P
    PROVE  \A k \in 0..n : k \in P
<1> DEFINE T == (0..n) \ P
<1> SUFFICES ASSUME T # {}
             PROVE  FALSE
    OBVIOUS
<1>1. T \in SUBSET Nat
    OBVIOUS
<1>2. PICK k \in T : \A l \in T : k <= l
  <2> HIDE DEF T
  <2> QED BY <1>1, LeastNumber
<1>3. k \in 1..n /\ k - 1 \in 0..n /\ ~ (k <= k - 1)
    OBVIOUS
<1> QED BY <1>2, <1>3

(* A flattened sequence has the elements of its sequences, and no other.   *)
LEMMA FlattenRange ==
    ASSUME NEW S, NEW s \in Seq(Seq(S))
    PROVE  /\ FlattenSeq(s) \in Seq(S)
           /\ \A x : x \in Range(FlattenSeq(s)) <=> \E k \in DOMAIN s : x \in Range(s[k])
<1> DEFINE n == Len(s)
           step == [k \in 1..n |-> [t \in Seq(S) |-> t \o s[k]]]
           Flattens(f) == f = [k \in 1..n |-> IF k = 1 THEN s[k] ELSE f[k - 1] \o s[k]]
           h == CHOOSE f : Flattens(f)
<1>1. n \in Nat /\ DOMAIN s = 1..n /\ \A k \in 1..n : s[k] \in Seq(S)
    OBVIOUS
<1>2. CASE n = 0
  <2>1. FlattenSeq(s) = s /\ s = << >>
      BY <1>2 DEF FlattenSeq
  <2> QED BY <2>1 DEF Range
<1>3. CASE n # 0
  <2>1. FlattenSeq(s) = h[n]
      BY <1>3, Zenon DEF FlattenSeq
  <2> HIDE DEF n
  <2>2. step \in [1..n -> [Seq(S) -> Seq(S)]]
    <3>1. \A k \in 1..n : [t \in Seq(S) |-> t \o s[k]] \in [Seq(S) -> Seq(S)]
      <4> TAKE k \in 1..n
      <4>1. \A t \in Seq(S) : t \o s[k] \in Seq(S)
          BY <1>1
      <4> QED BY <4>1
    <3> QED BY <3>1
  <2>3. PICK g \in [0..n -> Seq(S)] : Stepwise(g, n, << >>, step)
    <3>1. << >> \in Seq(S)
        OBVIOUS
    <3> HIDE DEF step
    <3> QED BY <1>1, <2>2, <3>1, StepwiseExists
  <2>4. /\ g[0] = << >>
        /\ \A k \in 1..n : g[k - 1] \in Seq(S) /\ s[k] \in Seq(S) /\ g[k] = g[k - 1] \o s[k]
    <3>1. \A k \in 0..n : g[k] = IF k = 0 THEN << >> ELSE step[k][g[k - 1]]
      <4> HIDE DEF step
      <4> QED BY <2>3, Zenon DEF Stepwise
    <3>2. g[0] = << >>
      <4>1. 0 \in 0..n
          BY <1>1
      <4> HIDE DEF step
      <4> QED BY <3>1, <4>1
    <3>3. ASSUME NEW k \in 1..n
          PROVE  g[k - 1] \in Seq(S) /\ s[k] \in Seq(S) /\ g[k] = g[k - 1] \o s[k]
      <4>1. k \in 0..n /\ k - 1 \in 0..n /\ k # 0
          BY <1>1
      <4>2. g[k - 1] \in Seq(S) /\ s[k] \in Seq(S)
          BY <1>1, <2>3, <4>1
      <4>3. step[k][g[k - 1]] = g[k - 1] \o s[k]
          BY <4>2
      <4> HIDE DEF step
      <4> QED BY <3>1, <4>1, <4>2, <4>3
    <3> QED BY <3>2, <3>3
  <2> DEFINE f == [k \in 1..n |-> g[k]]
  <2>5. \A k \in 1..n : f[k] = IF k = 1 THEN s[k] ELSE f[k - 1] \o s[k]
    <3> TAKE k \in 1..n
    <3>1. CASE k = 1
      <4>1. k - 1 = 0
          BY <3>1
      <4>2. g[k - 1] = << >>
          BY <2>4, <4>1
      <4>3. g[k] = << >> \o s[k] /\ s[k] \in Seq(S)
          BY <2>4, <4>2
      <4>4. g[k] = s[k]
          BY <4>3
      <4> QED BY <3>1, <4>4
    <3>2. CASE k # 1
      <4>1. k - 1 \in 1..n
          BY <1>1, <3>2
      <4> QED BY <2>4, <3>2, <4>1
    <3> QED BY <3>1, <3>2
  <2>6. Flattens(f)
    <3>1. f = [k \in 1..n |-> f[k]]
        OBVIOUS
    <3> HIDE DEF f
    <3> QED BY <2>5, <3>1
  <2>7. Flattens(h)
    <3> HIDE DEF f
    <3> QED BY <2>6, Zenon
  <2>8. \A k \in 1..n : h[k] = IF k = 1 THEN s[k] ELSE h[k - 1] \o s[k]
      BY <2>7, Zenon
  <2> HIDE DEF h, step
  <2>9. \A k \in 1..n : h[k] = f[k]
    <3> DEFINE P == { k \in 0..n : k # 0 => h[k] = f[k] }
    <3>1. 0 \in P
        BY <1>1
    <3>2. \A k \in 1..n : k - 1 \in P => k \in P
      <4> SUFFICES ASSUME NEW k \in 1..n, k - 1 \in P
                   PROVE  h[k] = f[k]
        <5>1. \A k \in 1..n : k \in 0..n
            BY <1>1
        <5> HIDE DEF f
        <5> QED BY <5>1
      <4> HIDE DEF f
      <4>1. CASE k = 1
          BY <2>5, <2>8, <4>1
      <4>2. CASE k # 1
        <5>1. h[k - 1] = f[k - 1]
            BY <4>2
        <5> QED BY <2>5, <2>8, <4>2, <5>1
      <4> QED BY <4>1, <4>2
    <3>3. \A k \in 0..n : k \in P
      <4>1. P \in SUBSET (0..n)
          OBVIOUS
      <4> HIDE DEF P
      <4> QED BY <1>1, <3>1, <3>2, <4>1, Upward
    <3>4. \A k \in 1..n : k \in 0..n /\ k # 0
        BY <1>1
    <3> HIDE DEF f
    <3> QED BY <3>3, <3>4
  <2> DEFINE Has(t, k) == \A x : x \in Range(t) <=> \E i \in 1..k : x \in Range(s[i])
  <2>10. \A k \in 0..n : Has(g[k], k)
    <3> DEFINE P == { k \in 0..n : Has(g[k], k) }
    <3>1. 0 \in P
        BY <1>1, <2>4 DEF Range
    <3>2. \A k \in 1..n : k - 1 \in P => k \in P
      <4> SUFFICES ASSUME NEW k \in 1..n, Has(g[k - 1], k - 1)
                   PROVE  Has(g[k], k)
        <5>1. \A k \in 1..n : k \in 0..n
            BY <1>1
        <5> HIDE DEF Has
        <5> QED BY <5>1
      <4>1. Range(g[k]) = Range(g[k - 1]) \cup Range(s[k])
        <5>1. g[k - 1] \in Seq(S) /\ s[k] \in Seq(S) /\ g[k] = g[k - 1] \o s[k]
            BY <2>4
        <5>2. Range(g[k - 1] \o s[k]) = Range(g[k - 1]) \cup Range(s[k])
            BY <5>1, Concatenated
        <5> QED BY <5>1, <5>2
      <4>2. k \in 1..k /\ \A i : i \in 1..k <=> i \in 1..(k - 1) \/ i = k
          BY <1>1
      <4> QED BY <4>1, <4>2
    <3>3. \A k \in 0..n : k \in P
      <4>1. P \in SUBSET (0..n)
          OBVIOUS
      <4> HIDE DEF P
      <4> QED BY <1>1, <3>1, <3>2, <4>1, Upward
    <3> QED BY <3>3
  <2>11. n \in 0..n /\ n \in 1..n
      BY <1>1, <1>3
  <2>12. FlattenSeq(s) = g[n]
      BY <2>1, <2>9, <2>11
  <2> QED BY <1>1, <2>3, <2>10, <2>11, <2>12
<1> QED BY <1>2, <1>3

(* The largest of some numbers is one of them.                             *)
LEMMA LargestOf ==
    ASSUME NEW n \in Nat, NEW T \in SUBSET (0..n), T # {}
    PROVE  Max(T) \in T /\ \A x \in T : x <= Max(T)
<1> DEFINE distance == { n - x : x \in T }
<1>1. distance \in SUBSET Nat /\ distance # {}
  <2>1. PICK x \in T : TRUE
      OBVIOUS
  <2>2. n - x \in distance
      OBVIOUS
  <2> QED BY <2>2
<1>2. PICK d \in distance : \A e \in distance : d <= e
  <2> HIDE DEF distance
  <2> QED BY <1>1, LeastNumber
<1>3. PICK x \in T : d = n - x
    BY <1>2
<1>4. ASSUME NEW y \in T
      PROVE  x >= y
  <2>1. n - y \in distance
      BY <1>4
  <2>2. n - x <= n - y
      BY <1>2, <1>3, <2>1
  <2> QED BY <2>2
<1>5. Max(T) \in T /\ \A y \in T : Max(T) >= y
    BY <1>4 DEF Max
<1>6. \A y \in T : y \in Int
    OBVIOUS
<1> QED BY <1>5, <1>6

-----------------------------------------------------------------------------
(* Division.                                                               *)

(* Quotient and rest are the only two numbers that make up a number.      *)
LEMMA QuotientOf ==
    ASSUME NEW g \in Nat \ {0}, NEW q \in Nat, NEW r \in 0..(g - 1)
    PROVE  (g * q + r) \div g = q /\ (g * q + r) % g = r
OBVIOUS

(* Times keeps the order, and is regained from it.                         *)
LEMMA Times ==
    ASSUME NEW g \in Nat \ {0}, NEW a \in Nat, NEW b \in Nat
    PROVE  /\ g * a \in Nat /\ g * (a + 1) = g * a + g
           /\ a <= b => g * a <= g * b
           /\ g * a < g * b + g => a <= b
OBVIOUS

(* Every number has a quotient and a rest.                                *)
LEMMA QuotientAndRest ==
    ASSUME NEW g \in Nat \ {0}, NEW x \in Nat
    PROVE  /\ x \div g \in Nat /\ x % g \in 0..(g - 1)
           /\ x = g * (x \div g) + (x % g)
<1> DEFINE T == { k \in Nat : x < g * (k + 1) }
<1>1. x \in T
  <2>1. x < g * (x + 1)
      OBVIOUS
  <2> QED BY <2>1
<1>2. PICK k \in T : \A l \in T : k <= l
  <2>1. T \in SUBSET Nat /\ T # {}
      BY <1>1
  <2> HIDE DEF T
  <2> QED BY <2>1, LeastNumber
<1>3. k \in Nat /\ x < g * (k + 1) /\ g * (k + 1) = g * k + g /\ g * k \in Nat
    BY <1>2, Times
<1>4. g * k <= x
  <2>1. CASE k = 0
      BY <2>1
  <2>2. CASE k # 0
    <3>1. k - 1 \in Nat /\ k - 1 \notin T /\ (k - 1) + 1 = k
        BY <1>2, <1>3, <2>2
    <3> QED BY <1>3, <3>1
  <2> QED BY <2>1, <2>2
<1> DEFINE r == x - g * k
<1>5. r \in 0..(g - 1) /\ x = g * k + r
    BY <1>3, <1>4
<1>6. x \div g = k /\ x % g = r
    BY <1>3, <1>5, QuotientOf
<1>7. x % g \in 0..(g - 1)
    BY <1>5, <1>6
<1>8. x = g * (x \div g) + (x % g)
  <2> HIDE DEF r, T
  <2> QED BY <1>5, <1>6, Zenon
<1> QED BY <1>3, <1>6, <1>7, <1>8
=============================================================================
