---------------------------- MODULE Lists_proofs ----------------------------
(***************************************************************************)
(* Facts about lists for the proofs of the components: a set of numbers    *)
(* has a least and, if it is bounded, a greatest element; in a finite set  *)
(* with a total order each place of the sorted list has its element; and   *)
(* what is picked from a list keeps its order.                             *)
(*                                                                         *)
(* An order is a set of pairs here, for a lemma about an operator cannot   *)
(* be used: SortedIs says once what follows for whatever operator gives    *)
(* the same places.                                                        *)
(***************************************************************************)
EXTENDS Lists, Integers, FiniteSetTheorems, WellFoundedInduction, TLAPS

\* A set of ranks has a least one.
LEMMA Least == ASSUME NEW S \in SUBSET Nat, S # {} PROVE \E m \in S : \A n \in S : m <= n
<1> DEFINE R == {ss \in Nat \X Nat : ss[1] < ss[2]}
<1>1. IsWellFoundedOn(R, Nat)
  BY NatLessThanWellFounded DEF OpToRel
<1> HIDE DEF R
<1>2. PICK x \in S : \A y \in S : <<y, x>> \notin R
  BY <1>1, WFMin
<1>3. \A y \in S : ~(y < x)
  BY <1>2 DEF R
<1>4. QED BY <1>3

\* Places up to a bound have a last one.
LEMMA Greatest ==
    ASSUME NEW b \in Nat, NEW S \in SUBSET (0..b), S # {}
    PROVE  \E m \in S : \A n \in S : n <= m
<1> DEFINE T == {b - n : n \in S}
<1>1. T \in SUBSET Nat /\ T # {}
  <2>1. \A n \in S : n \in 0..b /\ b - n \in Nat
    OBVIOUS
  <2>2. QED BY <2>1
<1>2. PICK t \in T : \A u \in T : t <= u
  BY <1>1, Least
<1>3. PICK m \in S : t = b - m
  BY <1>2
<1>4. ASSUME NEW n \in S PROVE n <= m
  <2>1. b - n \in T
    OBVIOUS
  <2>2. b - m <= b - n
    BY <1>2, <1>3, <2>1
  <2>3. QED BY <2>2
<1>5. QED BY <1>4

-----------------------------------------------------------------------------
(* Orders. *)

Orders(R, S) ==
    /\ \A x \in S : <<x, x>> \notin R
    /\ \A x, y \in S : x = y \/ <<x, y>> \in R \/ <<y, x>> \in R
    /\ \A x, y, z \in S : <<x, y>> \in R /\ <<y, z>> \in R => <<x, z>> \in R

Below(S, R, x) == {y \in S : <<y, x>> \in R}

\* How many come before an element is a number less than how many there are, and grows with it.
LEMMA RankGrows ==
    ASSUME NEW S, IsFiniteSet(S), NEW R, Orders(R, S)
    PROVE  /\ \A x \in S : Cardinality(Below(S, R, x)) \in 0..(Cardinality(S) - 1)
           /\ \A x, y \in S : <<x, y>> \in R =>
                 Cardinality(Below(S, R, x)) < Cardinality(Below(S, R, y))
<1>1. ASSUME NEW x \in S, NEW T \in SUBSET S, x \in T, x \notin Below(S, R, x),
             Below(S, R, x) \subseteq T
      PROVE  /\ Cardinality(Below(S, R, x)) \in Nat /\ Cardinality(T) \in Nat
             /\ Cardinality(Below(S, R, x)) < Cardinality(T)
  <2> DEFINE B == Below(S, R, x)
  <2>1. IsFiniteSet(T)
    BY FS_Subset
  <2> HIDE DEF B
  <2>2. B \in SUBSET T /\ B # T
    BY <1>1 DEF B
  <2>3. IsFiniteSet(B) /\ Cardinality(B) <= Cardinality(T) /\ (Cardinality(T) = Cardinality(B) => T = B)
    BY <2>1, <2>2, FS_Subset
  <2>4. Cardinality(B) \in Nat /\ Cardinality(T) \in Nat
    BY <2>1, <2>3, FS_CardinalityType
  <2>5. QED BY <2>2, <2>3, <2>4 DEF B
<1>2. ASSUME NEW x \in S PROVE Cardinality(Below(S, R, x)) \in 0..(Cardinality(S) - 1)
  <2>1. x \notin Below(S, R, x) /\ Below(S, R, x) \subseteq S
    BY DEF Orders, Below
  <2>2. QED BY <1>1, <2>1
<1>3. ASSUME NEW x \in S, NEW y \in S, <<x, y>> \in R
      PROVE  Cardinality(Below(S, R, x)) < Cardinality(Below(S, R, y))
  <2>1. /\ x \in Below(S, R, y) /\ x \notin Below(S, R, x)
        /\ Below(S, R, x) \subseteq Below(S, R, y) /\ Below(S, R, y) \subseteq S
    BY <1>3 DEF Orders, Below
  <2>2. QED BY <1>1, <2>1
<1>4. QED BY <1>2, <1>3

\* So every place has its element: different elements have different ranks, and there are as
\* many places as elements.
LEMMA RankedAll ==
    ASSUME NEW S, IsFiniteSet(S), NEW R, Orders(R, S), NEW i \in 1..Cardinality(S)
    PROVE  \E x \in S : Cardinality(Below(S, R, x)) = i - 1
<1> DEFINE n == Cardinality(S)
           f == [x \in S |-> Cardinality(Below(S, R, x))]
<1>1. n \in Nat
  BY FS_CardinalityType
<1> HIDE DEF n
<1>2. IsFiniteSet(0..(n - 1)) /\ Cardinality(0..(n - 1)) = n
  <2>1. /\ IsFiniteSet(0..(n - 1))
        /\ Cardinality(0..(n - 1)) = IF 0 > n - 1 THEN 0 ELSE (n - 1) - 0 + 1
    BY <1>1, FS_Interval
  <2>2. QED BY <1>1, <2>1
<1>3. f \in [S -> 0..(n - 1)]
  BY RankGrows DEF n
<1>4. ASSUME NEW x \in S, NEW y \in S, f[x] = f[y] PROVE x = y
  <2>1. f[x] \in 0..(n - 1) /\ f[y] \in 0..(n - 1)
    BY <1>3
  <2>2. ~(f[x] < f[y]) /\ ~(f[y] < f[x])
    BY <1>1, <1>4, <2>1
  <2>3. <<x, y>> \notin R /\ <<y, x>> \notin R
    BY <2>2, RankGrows
  <2>4. QED BY <2>3 DEF Orders
<1> HIDE DEF f
<1>5. f \in Injection(S, 0..(n - 1))
  BY <1>3, <1>4 DEF Injection, IsInjective
<1>6. f \in Surjection(S, 0..(n - 1))
  BY <1>2, <1>5, FS_Injection DEF n
<1>7. i - 1 \in 0..(n - 1)
  BY <1>1 DEF n
<1>8. \E x \in S : f[x] = i - 1
  BY <1>6, <1>7 DEF Surjection
<1>9. QED BY <1>8 DEF f

\* A function on the numbers up to n is a list of length n.
LEMMA ListIs ==
    ASSUME NEW S, NEW n \in Nat, NEW q \in [1..n -> S]
    PROVE  q \in Seq(S) /\ Len(q) = n /\ DOMAIN q = 1..n
OBVIOUS

\* All of a set, once, each after the ones that come before it.
IsSortedList(q, S, R) ==
    /\ Cardinality(S) \in Nat /\ q \in Seq(S) /\ Len(q) = Cardinality(S)
    /\ \A x \in S : \E i \in 1..Cardinality(S) : q[i] = x
    /\ \A i, j \in 1..Cardinality(S) : i < j <=> <<q[i], q[j]>> \in R

\* A list that holds at each place an element with as many before it is the sorted list.
LEMMA SortedIs ==
    ASSUME NEW S, IsFiniteSet(S), NEW R, Orders(R, S), NEW q \in [1..Cardinality(S) -> S],
           \A i \in 1..Cardinality(S) : Cardinality(Below(S, R, q[i])) = i - 1
    PROVE  IsSortedList(q, S, R)
<1> DEFINE n == Cardinality(S)
           rank(x) == Cardinality(Below(S, R, x))
<1>1. n \in Nat
  BY FS_CardinalityType
<1>2. ASSUME NEW i \in 1..n PROVE q[i] \in S /\ rank(q[i]) = i - 1
  OBVIOUS
<1>3. q \in [1..n -> S]
  OBVIOUS
<1> HIDE DEF n
<1>4. q \in Seq(S) /\ Len(q) = n
  BY <1>1, <1>3, ListIs
<1>5. ASSUME NEW i \in 1..n, NEW j \in 1..n PROVE i < j <=> <<q[i], q[j]>> \in R
  <2>1. /\ q[i] \in S /\ rank(q[i]) = i - 1 /\ q[j] \in S /\ rank(q[j]) = j - 1
    BY <1>2
  <2>2. <<q[i], q[j]>> \in R => i - 1 < j - 1
    <3>1. <<q[i], q[j]>> \in R => rank(q[i]) < rank(q[j])
      BY <2>1, RankGrows
    <3> HIDE DEF rank
    <3>2. QED BY <2>1, <3>1
  <2>3. <<q[j], q[i]>> \in R => j - 1 < i - 1
    <3>1. <<q[j], q[i]>> \in R => rank(q[j]) < rank(q[i])
      BY <2>1, RankGrows
    <3> HIDE DEF rank
    <3>2. QED BY <2>1, <3>1
  <2>4. q[i] = q[j] \/ <<q[i], q[j]>> \in R \/ <<q[j], q[i]>> \in R
    BY <2>1 DEF Orders
  <2>5. q[i] = q[j] => i - 1 = j - 1
    BY <2>1
  <2>6. QED BY <1>1, <2>2, <2>3, <2>4, <2>5
<1>6. ASSUME NEW x \in S PROVE \E i \in 1..n : q[i] = x
  <2> DEFINE i == rank(x) + 1
  <2>1. rank(x) \in 0..(n - 1)
    BY RankGrows DEF n
  <2>2. i \in 1..n
    BY <1>1, <2>1
  <2>3. q[i] \in S /\ rank(q[i]) = i - 1 /\ i - 1 = rank(x)
    BY <1>2, <2>1, <2>2
  <2>4. <<q[i], x>> \notin R
    <3>1. <<q[i], x>> \in R => rank(q[i]) < rank(x)
      BY <2>3, RankGrows
    <3> HIDE DEF rank
    <3>2. QED BY <1>1, <2>1, <2>3, <3>1
  <2>5. <<x, q[i]>> \notin R
    <3>1. <<x, q[i]>> \in R => rank(x) < rank(q[i])
      BY <2>3, RankGrows
    <3> HIDE DEF rank
    <3>2. QED BY <1>1, <2>1, <2>3, <3>1
  <2>6. q[i] = x
    BY <2>3, <2>4, <2>5 DEF Orders
  <2>7. QED BY <2>2, <2>6
<1>7. QED BY <1>1, <1>3, <1>4, <1>5, <1>6 DEF n, IsSortedList

\* Numbers, sorted.
Rising(P) == {pp \in P \X P : pp[1] < pp[2]}

\* What Sorted makes of a finite set of numbers.
LEMMA NumbersSorted ==
    ASSUME NEW P \in SUBSET Nat, IsFiniteSet(P)
    PROVE  IsSortedList(Sorted(P, <), P, Rising(P))
<1> DEFINE R == Rising(P)
           q == Sorted(P, <)
           n == Cardinality(P)
<1>1. \A x, y \in P : <<x, y>> \in R <=> x < y
  BY DEF Rising
<1>2. \A x \in P : Below(P, R, x) = {y \in P : y < x}
  BY <1>1 DEF Below
<1> HIDE DEF R
<1>3. Orders(R, P)
  BY <1>1 DEF Orders
<1>4. q = [i \in 1..n |-> CHOOSE x \in P : Cardinality({y \in P : y < x}) = i - 1]
  BY DEF Sorted
<1> HIDE DEF q
<1>5. ASSUME NEW i \in 1..n PROVE q[i] \in P /\ Cardinality(Below(P, R, q[i])) = i - 1
  <2>1. \E x \in P : Cardinality(Below(P, R, x)) = i - 1
    BY <1>3, RankedAll
  <2>2. \E x \in P : Cardinality({y \in P : y < x}) = i - 1
    BY <1>2, <2>1
  <2>3. q[i] \in P /\ Cardinality({y \in P : y < q[i]}) = i - 1
    BY <1>4, <2>2
  <2>4. QED BY <1>2, <2>3
<1>6. q \in [1..Cardinality(P) -> P]
  BY <1>4, <1>5
<1>7. \A i \in 1..Cardinality(P) : Cardinality(Below(P, R, q[i])) = i - 1
  BY <1>5
<1>8. IsSortedList(q, P, R)
  BY <1>3, <1>6, <1>7, SortedIs
<1>9. QED BY <1>8 DEF q, R

\* A list t of what s holds at the places P, in their order; at tells where each came from.
Picks(t, s, P, at) ==
    /\ at \in [1..Len(t) -> P]
    /\ \A i \in 1..Len(t) : t[i] = s[at[i]]
    /\ \A p \in P : \E i \in 1..Len(t) : at[i] = p
    /\ \A i, j \in 1..Len(t) : i < j <=> at[i] < at[j]

\* What is picked from a list: the elements at the places, in their order.
LEMMA PickedIs ==
    ASSUME NEW V, NEW s \in Seq(V), NEW P \in SUBSET (1..Len(s))
    PROVE  Picked(s, P) \in Seq(V) /\ \E at : Picks(Picked(s, P), s, P, at)
<1>1. Len(s) \in Nat /\ P \in SUBSET Nat /\ \A p \in P : p <= Len(s)
  OBVIOUS
<1>2. IsFiniteSet(P)
  BY <1>1, FS_BoundedSetOfNaturals
<1> DEFINE at == Sorted(P, <)
           n == Cardinality(P)
<1>3. IsSortedList(at, P, Rising(P))
  BY <1>1, <1>2, NumbersSorted
<1>4. Picked(s, P) = [i \in 1..n |-> s[at[i]]]
  BY DEF Picked
<1> HIDE DEF at
<1>5. /\ n \in Nat /\ at \in Seq(P) /\ Len(at) = n
      /\ \A x \in P : \E i \in 1..n : at[i] = x
      /\ \A i, j \in 1..n : i < j <=> <<at[i], at[j]>> \in Rising(P)
  BY <1>3 DEF IsSortedList
<1> HIDE DEF n
<1>6. at \in [1..n -> P]
  BY <1>5
<1>7. \A i, j \in 1..n : i < j <=> at[i] < at[j]
  BY <1>5, <1>6 DEF Rising
<1>8. Picked(s, P) \in [1..n -> V]
  <2>1. \A p \in P : p \in 1..Len(s) /\ s[p] \in V
    OBVIOUS
  <2>2. \A i \in 1..n : at[i] \in P
    BY <1>6
  <2>3. \A i \in 1..n : s[at[i]] \in V
    BY <2>1, <2>2
  <2>4. QED BY <1>4, <2>3
<1>9. Picked(s, P) \in Seq(V) /\ Len(Picked(s, P)) = n
  BY <1>5, <1>8, ListIs
<1>10. \A i \in 1..n : Picked(s, P)[i] = s[at[i]]
  BY <1>4
<1>11. Picks(Picked(s, P), s, P, at)
  BY <1>5, <1>6, <1>7, <1>9, <1>10 DEF Picks
<1>12. QED BY <1>9, <1>11

=============================================================================
