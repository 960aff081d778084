------------------------- MODULE Permissions_proofs -------------------------
(***************************************************************************)
(* Proofs about Permissions, for any identities, places and privileges,    *)
(* any number of grants and any rules written by hand.                     *)
(***************************************************************************)
EXTENDS Permissions, Lists_proofs

-----------------------------------------------------------------------------
(* The inductive invariant. *)

GrantSets == UNION {[D -> (SUBSET Privileges) \ {{}}] : D \in SUBSET Keys}

\* The last rule of the queries block, which lets everyone execute.
EveryoneExecutes == [user |-> Wild, owner |-> Wild, allow |-> {"execute"}]

\* What is staged and what is preserved, by their types.
PermissionsTypeOK ==
    /\ grants \in GrantSets /\ IsFiniteSet(DOMAIN grants)
    /\ enforced \in BOOLEAN
    /\ preserved \in [tables: Seq(RulesOfTables), queries: Seq(RulesOfQueries)]

\* What is preserved is nothing that could be read as a grant, or taken for a rule Apchi writes
\* whoever is granted something.
KeptIsOther ==
    /\ \A i \in DOMAIN preserved.tables :
          /\ ~IsGrant(preserved.tables[i])
          /\ preserved.tables[i] \notin {ReservedTableRule, CatchAll}
    /\ \A i \in DOMAIN preserved.queries : preserved.queries[i] # EveryoneExecutes

PermissionsInv == PermissionsTypeOK /\ KeptIsOther

-----------------------------------------------------------------------------
(* The first rule that matches. *)

\* What a list of rules gives to those whom the rules in X are for.
Hit(s, X) == \E i \in 1..Len(s) : s[i] \in X
Decides(s, X) ==
    LET I == {i \in 1..Len(s) : s[i] \in X} IN IF I = {} THEN {} ELSE s[Min(I)].allow

IsFirst(s, X, i) ==
    i \in 1..Len(s) /\ s[i] \in X /\ \A j \in 1..Len(s) : j < i => s[j] \notin X

\* The first rule that matches decides, if there is one.
LEMMA FirstDecides ==
    ASSUME NEW s, NEW X, Len(s) \in Nat, NEW i, IsFirst(s, X, i)
    PROVE  Hit(s, X) /\ Decides(s, X) = s[i].allow
<1> USE DEF IsFirst
<1> DEFINE I == {j \in 1..Len(s) : s[j] \in X}
<1>1. i \in I /\ \A j \in I : i <= j
  OBVIOUS
<1>2. Min(I) \in I /\ \A j \in I : Min(I) <= j
  BY <1>1 DEF Min
<1>3. Min(I) = i
  BY <1>1, <1>2
<1>4. QED BY <1>1, <1>3 DEF Decides, Hit

\* A list with a rule that matches has a first one.
LEMMA HasFirst ==
    ASSUME NEW s, NEW X, Len(s) \in Nat, Hit(s, X)
    PROVE  \E i : IsFirst(s, X, i) /\ Decides(s, X) = s[i].allow
<1> DEFINE I == {j \in 1..Len(s) : s[j] \in X}
<1>1. I \in SUBSET Nat /\ I # {}
  BY DEF Hit
<1>2. PICK i \in I : \A j \in I : i <= j
  BY <1>1, Least
<1>3. IsFirst(s, X, i)
  BY <1>2 DEF IsFirst
<1>4. QED BY <1>3, FirstDecides

\* Without one, nothing is given.
LEMMA NoneDecides == ASSUME NEW s, NEW X, ~Hit(s, X) PROVE Decides(s, X) = {}
BY DEF Hit, Decides

\* The second list is asked only if the first has no answer.
Asks(st, s, t, X) ==
    /\ Hit(st, X) <=> Hit(s, X) \/ Hit(t, X)
    /\ Hit(s, X) => Decides(st, X) = Decides(s, X)
    /\ ~Hit(s, X) => Decides(st, X) = Decides(t, X)

\* A list put together from two asks one after the other.
LEMMA Concatenated ==
    ASSUME NEW V, NEW s \in Seq(V), NEW t \in Seq(V), NEW X
    PROVE  s \o t \in Seq(V) /\ Asks(s \o t, s, t, X)
<1> DEFINE st == s \o t
<1>1. /\ Len(s) \in Nat /\ Len(t) \in Nat /\ Len(st) = Len(s) + Len(t)
      /\ \A i \in 1..Len(s) : st[i] = s[i]
      /\ \A i \in 1..Len(t) : st[Len(s) + i] = t[i]
  OBVIOUS
<1> HIDE DEF st
<1>2. \A i \in 1..Len(st) : i \notin 1..Len(s) => i - Len(s) \in 1..Len(t) /\ st[i] = t[i - Len(s)]
  <2>1. ASSUME NEW i \in 1..Len(st), i \notin 1..Len(s)
        PROVE  i - Len(s) \in 1..Len(t) /\ st[i] = t[i - Len(s)]
    <3> DEFINE k == i - Len(s)
    <3>1. k \in 1..Len(t) /\ i = Len(s) + k
      BY <1>1, <2>1
    <3>2. QED BY <1>1, <3>1
  <2>2. QED BY <2>1
<1>3. Len(st) \in Nat
  BY <1>1
<1> SUFFICES Asks(st, s, t, X)
  BY DEF st
<1>4. CASE Hit(s, X)
  <2>1. PICK i : IsFirst(s, X, i) /\ Decides(s, X) = s[i].allow
    BY <1>1, <1>4, HasFirst
  <2>2. IsFirst(st, X, i) /\ st[i] = s[i]
    <3>1. i \in 1..Len(s) /\ s[i] \in X /\ \A j \in 1..Len(s) : j < i => s[j] \notin X
      BY <2>1 DEF IsFirst
    <3>2. i \in 1..Len(st) /\ st[i] = s[i]
      BY <1>1, <3>1
    <3>3. ASSUME NEW j \in 1..Len(st), j < i PROVE st[j] \notin X
      <4>1. j \in 1..Len(s)
        BY <1>1, <3>1, <3>3
      <4>2. QED BY <1>1, <3>1, <3>3, <4>1
    <3>4. QED BY <3>1, <3>2, <3>3 DEF IsFirst
  <2>3. Hit(st, X) /\ Decides(st, X) = st[i].allow
    BY <1>3, <2>2, FirstDecides
  <2>4. QED BY <1>4, <2>1, <2>2, <2>3 DEF Asks, st
<1>5. CASE ~Hit(s, X) /\ Hit(t, X)
  <2>1. PICK i : IsFirst(t, X, i) /\ Decides(t, X) = t[i].allow
    BY <1>1, <1>5, HasFirst
  <2>2. i \in 1..Len(t) /\ Len(s) + i \in 1..Len(st) /\ st[Len(s) + i] = t[i]
    BY <1>1, <2>1 DEF IsFirst
  <2>3. ASSUME NEW j \in 1..Len(st), j < Len(s) + i PROVE st[j] \notin X
    <3>1. CASE j \in 1..Len(s)
      BY <1>1, <1>5, <3>1 DEF Hit
    <3>2. CASE j \notin 1..Len(s)
      <4> DEFINE k == j - Len(s)
      <4>1. k \in 1..Len(t) /\ st[j] = t[k] /\ k < i
        BY <1>1, <1>2, <2>2, <2>3, <3>2
      <4>2. QED BY <2>1, <4>1 DEF IsFirst
    <3>3. QED BY <3>1, <3>2
  <2>4. IsFirst(st, X, Len(s) + i)
    BY <2>1, <2>2, <2>3 DEF IsFirst
  <2>5. Hit(st, X) /\ Decides(st, X) = st[Len(s) + i].allow
    BY <1>3, <2>4, FirstDecides
  <2>6. QED BY <1>5, <2>1, <2>2, <2>5 DEF Asks, st
<1>6. CASE ~Hit(s, X) /\ ~Hit(t, X)
  <2>1. ~Hit(st, X)
    BY <1>1, <1>2, <1>6 DEF Hit
  <2>2. Decides(st, X) = {} /\ Decides(t, X) = {}
    BY <1>6, <2>1, NoneDecides
  <2>3. QED BY <1>6, <2>1, <2>2 DEF Asks, st
<1>7. QED BY <1>4, <1>5, <1>6 DEF Asks, st

\* Of what is picked from a list, the first place that matches decides.
LEMMA PickedDecides ==
    ASSUME NEW V, NEW s \in Seq(V), NEW P \in SUBSET (1..Len(s)), NEW X
    PROVE  /\ \A i \in P : s[i] \in X /\ (\A j \in P : j < i => s[j] \notin X) =>
                 Hit(Picked(s, P), X) /\ Decides(Picked(s, P), X) = s[i].allow
           /\ (\A i \in P : s[i] \notin X) => ~Hit(Picked(s, P), X)
<1> DEFINE t == Picked(s, P)
<1>1. t \in Seq(V) /\ Len(t) \in Nat
  BY PickedIs
<1>2. PICK at : Picks(t, s, P, at)
  BY PickedIs
<1> HIDE DEF t
<1>3. P \in SUBSET Nat
  OBVIOUS
<1>4. ASSUME NEW i \in P, s[i] \in X, \A j \in P : j < i => s[j] \notin X
      PROVE  Hit(t, X) /\ Decides(t, X) = s[i].allow
  <2>1. PICK k \in 1..Len(t) : at[k] = i
    BY <1>2 DEF Picks
  <2>2. t[k] \in X /\ t[k] = s[i]
    BY <1>2, <1>4, <2>1 DEF Picks
  <2>3. \A j \in 1..Len(t) : j < k => t[j] \notin X
    BY <1>2, <1>4, <2>1 DEF Picks
  <2>4. IsFirst(t, X, k)
    BY <2>2, <2>3 DEF IsFirst
  <2>5. QED BY <1>1, <2>2, <2>4, FirstDecides
<1>5. ASSUME \A i \in P : s[i] \notin X PROVE ~Hit(t, X)
  BY <1>2, <1>5 DEF Hit, Picks
<1>6. QED BY <1>4, <1>5 DEF t

\* A list of one rule.
LEMMA OneRule ==
    ASSUME NEW r, NEW X
    PROVE  /\ Hit(<<r>>, X) <=> r \in X
           /\ r \in X => Decides(<<r>>, X) = r.allow
<1>1. Len(<<r>>) = 1 /\ <<r>>[1] = r /\ 1..1 = {1}
  OBVIOUS
<1>2. Hit(<<r>>, X) <=> r \in X
  BY <1>1 DEF Hit
<1>3. r \in X => IsFirst(<<r>>, X, 1)
  BY <1>1 DEF IsFirst
<1>4. QED BY <1>1, <1>2, <1>3, FirstDecides

\* No rules.
LEMMA NoRules == ASSUME NEW X PROVE ~Hit(<<>>, X) /\ Decides(<<>>, X) = {}
<1>1. ~Hit(<<>>, X)
  BY DEF Hit
<1>2. QED BY <1>1, NoneDecides

\* Those whom the rules are for that Trino applies to a user and a place, or a user and a query.
ForTable(user, place) == {r \in RulesOfTables : Covers(r.at, user, place)}
ForQuery(user, owner) ==
    {r \in RulesOfQueries : r.user \in {Wild, user} /\ r.owner \in {Wild, owner}}

\* Trino's reading of the two blocks.
LEMMA AccessDecides ==
    ASSUME NEW user, NEW x
    PROVE  /\ \A s \in Seq(RulesOfTables) : TableAccess(s, user, x) = Decides(s, ForTable(user, x))
           /\ \A s \in Seq(RulesOfQueries) : QueryAccess(s, user, x) = Decides(s, ForQuery(user, x))
<1>1. ASSUME NEW s \in Seq(RulesOfTables)
      PROVE  TableAccess(s, user, x) = Decides(s, ForTable(user, x))
  <2> DEFINE I == {i \in 1..Len(s) : s[i] \in ForTable(user, x)}
  <2>1. I = {i \in 1..Len(s) : Covers(s[i].at, user, x)}
    BY DEF ForTable
  <2>2. TableAccess(s, user, x) =
          LET i == IF I # {} THEN Min(I) ELSE 0 IN IF i = 0 THEN {} ELSE s[i].allow
    BY <2>1 DEF TableAccess, SelectInSeq
  <2>3. I # {} => Min(I) # 0
    <3>1. SUFFICES ASSUME I # {} PROVE Min(I) \in I
      OBVIOUS
    <3>2. I \in SUBSET Nat
      OBVIOUS
    <3>3. \E m \in I : \A n \in I : m <= n
      BY <3>1, <3>2, Least
    <3>4. QED BY <3>3 DEF Min
  <2>4. QED BY <2>2, <2>3 DEF Decides
<1>2. ASSUME NEW s \in Seq(RulesOfQueries)
      PROVE  QueryAccess(s, user, x) = Decides(s, ForQuery(user, x))
  <2> DEFINE I == {i \in 1..Len(s) : s[i] \in ForQuery(user, x)}
  <2>1. I = {i \in 1..Len(s) : s[i].user \in {Wild, user} /\ s[i].owner \in {Wild, x}}
    BY DEF ForQuery
  <2>2. QueryAccess(s, user, x) =
          LET i == IF I # {} THEN Min(I) ELSE 0 IN IF i = 0 THEN {} ELSE s[i].allow
    BY <2>1 DEF QueryAccess, SelectInSeq
  <2>3. I # {} => Min(I) # 0
    <3>1. SUFFICES ASSUME I # {} PROVE Min(I) \in I
      OBVIOUS
    <3>2. I \in SUBSET Nat
      OBVIOUS
    <3>3. \E m \in I : \A n \in I : m <= n
      BY <3>1, <3>2, Least
    <3>4. QED BY <3>3 DEF Min
  <2>4. QED BY <2>2, <2>3 DEF Decides
<1>3. QED BY <1>1, <1>2

-----------------------------------------------------------------------------
(* The grants, sorted. *)

\* A key: four names, or stars.
LEMMA KeysAre ==
    ASSUME NEW k \in Keys
    PROVE  /\ k[1] \in Nat /\ k[2] \in Nat /\ k[3] \in Nat /\ k[4] \in Nat
           /\ k[1] \in Identities /\ k[1] # Wild /\ k = <<k[1], k[2], k[3], k[4]>>
           /\ k \in (Identities \cup {Wild}) \X (Catalogs \cup {Wild})
                     \X (Schemas \cup {Wild}) \X (Tables \cup {Wild})
<1>1. /\ k[1] \in Identities /\ k[2] \in Catalogs /\ k[3] \in Schemas \cup {Wild}
      /\ k[4] \in Tables \cup {Wild} /\ k = <<k[1], k[2], k[3], k[4]>>
  BY DEF Keys
<1>2. Identities \subseteq Nat \ {Wild} /\ Wild \in Nat
  BY PermissionsAssumption DEF Identities, Wild
<1>3. QED BY <1>1, <1>2, PermissionsAssumption

\* The order of the keys, name by name.
LEMMA BeforeIs ==
    ASSUME NEW k \in Keys, NEW l \in Keys
    PROVE  Before(k, l) <=>
              \/ k[1] < l[1]
              \/ k[1] = l[1] /\ k[2] < l[2]
              \/ k[1] = l[1] /\ k[2] = l[2] /\ k[3] < l[3]
              \/ k[1] = l[1] /\ k[2] = l[2] /\ k[3] = l[3] /\ k[4] < l[4]
<1>1. /\ 1..4 = {1, 2, 3, 4} /\ 1..0 = {} /\ 1..1 = {1} /\ 1..2 = {1, 2} /\ 1..3 = {1, 2, 3}
      /\ 1 - 1 = 0 /\ 2 - 1 = 1 /\ 3 - 1 = 2 /\ 4 - 1 = 3
  OBVIOUS
<1>2. QED BY <1>1 DEF Before

\* It is a total order.
LEMMA BeforeOrders ==
    /\ \A k \in Keys : ~Before(k, k)
    /\ \A k, l \in Keys : k = l \/ Before(k, l) \/ Before(l, k)
    /\ \A k, l, m \in Keys : Before(k, l) /\ Before(l, m) => Before(k, m)
<1>1. \A k \in Keys : ~Before(k, k)
  BY BeforeIs, KeysAre
<1>2. ASSUME NEW k \in Keys, NEW l \in Keys, ~Before(k, l), ~Before(l, k) PROVE k = l
  <2>1. k[1] = l[1] /\ k[2] = l[2] /\ k[3] = l[3] /\ k[4] = l[4]
    BY <1>2, BeforeIs, KeysAre
  <2>2. QED BY <2>1, KeysAre
<1>3. ASSUME NEW k \in Keys, NEW l \in Keys, NEW m \in Keys, Before(k, l), Before(l, m)
      PROVE  Before(k, m)
  BY <1>3, BeforeIs, KeysAre
<1>4. QED BY <1>1, <1>2, <1>3

\* The grants in a list: each once, in the order of the keys.
InOrder(q, g) ==
    /\ q \in Seq(RulesOfTables)
    /\ \A i \in 1..Len(q) : q[i].at \in DOMAIN g /\ q[i] = GrantRule(q[i].at, g[q[i].at])
    /\ \A k \in DOMAIN g : \E i \in 1..Len(q) : q[i].at = k
    /\ \A i, j \in 1..Len(q) : i < j <=> Before(q[i].at, q[j].at)

\* So the renderer lists them.
LEMMA GrantsInOrder ==
    ASSUME NEW g \in GrantSets, IsFiniteSet(DOMAIN g)
    PROVE  InOrder(SortedGrants(g), g)
<1> DEFINE D == DOMAIN g
           n == Cardinality(D)
           R == {kl \in D \X D : Before(kl[1], kl[2])}
           keys == Sorted(D, Before)
           q == SortedGrants(g)
<1>1. D \in SUBSET Keys /\ \A k \in D : g[k] \in SUBSET Privileges
  BY DEF GrantSets
<1>2. \A k, l \in D : <<k, l>> \in R <=> Before(k, l)
  OBVIOUS
<1>3. \A k \in D : Below(D, R, k) = {l \in D : Before(l, k)}
  BY <1>2 DEF Below
<1> HIDE DEF R
<1>4. Orders(R, D)
  BY <1>1, <1>2, BeforeOrders DEF Orders
<1>5. keys = [i \in 1..n |-> CHOOSE k \in D : Cardinality({l \in D : Before(l, k)}) = i - 1]
  BY DEF Sorted
<1>6. q = [i \in 1..Len(keys) |-> GrantRule(keys[i], g[keys[i]])]
  BY DEF SortedGrants
<1> HIDE DEF keys, D, q
<1>7. IsFiniteSet(D)
  BY DEF D
<1>8. ASSUME NEW i \in 1..n PROVE keys[i] \in D /\ Cardinality(Below(D, R, keys[i])) = i - 1
  <2>1. \E k \in D : Cardinality(Below(D, R, k)) = i - 1
    BY <1>4, <1>7, RankedAll
  <2>2. \E k \in D : Cardinality({l \in D : Before(l, k)}) = i - 1
    BY <1>3, <2>1
  <2>3. keys[i] \in D /\ Cardinality({l \in D : Before(l, keys[i])}) = i - 1
    BY <1>5, <2>2
  <2>4. QED BY <1>3, <2>3
<1>9. keys \in [1..Cardinality(D) -> D]
  BY <1>5, <1>8
<1>10. \A i \in 1..Cardinality(D) : Cardinality(Below(D, R, keys[i])) = i - 1
  BY <1>8
<1>11. IsSortedList(keys, D, R)
  BY <1>4, <1>7, <1>9, <1>10, SortedIs
<1>12. /\ n \in Nat /\ Len(keys) = n
       /\ \A k \in D : \E i \in 1..n : keys[i] = k
       /\ \A i, j \in 1..n : i < j <=> <<keys[i], keys[j]>> \in R
  BY <1>11 DEF IsSortedList
<1> HIDE DEF n
<1>13. ASSUME NEW i \in 1..n
       PROVE  q[i] \in RulesOfTables /\ q[i].at = keys[i] /\ q[i] = GrantRule(keys[i], g[keys[i]])
  <2>1. keys[i] \in D /\ q[i] = GrantRule(keys[i], g[keys[i]])
    BY <1>6, <1>8, <1>12
  <2>2. QED BY <1>1, <2>1, KeysAre DEF GrantRule, RulesOfTables, D
<1>14. q \in [1..n -> RulesOfTables]
  BY <1>6, <1>12, <1>13
<1>15. q \in Seq(RulesOfTables) /\ Len(q) = n
  BY <1>12, <1>14, ListIs
<1>16. \A i \in 1..n : q[i].at \in DOMAIN g /\ q[i] = GrantRule(q[i].at, g[q[i].at])
  BY <1>8, <1>13 DEF D
<1>17. \A k \in DOMAIN g : \E i \in 1..n : q[i].at = k
  BY <1>12, <1>13 DEF D
<1>18. \A i, j \in 1..n : i < j <=> Before(q[i].at, q[j].at)
  BY <1>2, <1>8, <1>12, <1>13
<1>19. QED BY <1>15, <1>16, <1>17, <1>18 DEF InOrder, q

-----------------------------------------------------------------------------
(* What the tables block gives. *)

\* The grant that is for a user at a place before any other.
FirstGrant(g, user, place, k) ==
    /\ k \in DOMAIN g /\ Covers(k, user, place)
    /\ \A l \in DOMAIN g : Covers(l, user, place) => l = k \/ Before(k, l)

Reached(g, user, place) == \E k \in DOMAIN g : Covers(k, user, place)

\* The first of the sorted grants that matches is the first grant.
LEMMA GrantsDecide ==
    ASSUME NEW g \in GrantSets, IsFiniteSet(DOMAIN g), NEW user, NEW place
    PROVE  /\ SortedGrants(g) \in Seq(RulesOfTables)
           /\ Hit(SortedGrants(g), ForTable(user, place)) <=> Reached(g, user, place)
           /\ \A k : FirstGrant(g, user, place, k) =>
                 Decides(SortedGrants(g), ForTable(user, place)) = g[k]
           /\ Reached(g, user, place) => \E k : FirstGrant(g, user, place, k)
<1> DEFINE q == SortedGrants(g)
           X == ForTable(user, place)
<1>0. InOrder(q, g)
  BY GrantsInOrder
<1>1. /\ q \in Seq(RulesOfTables) /\ Len(q) \in Nat
      /\ \A i \in 1..Len(q) : q[i].at \in DOMAIN g /\ q[i] = GrantRule(q[i].at, g[q[i].at])
      /\ \A k \in DOMAIN g : \E i \in 1..Len(q) : q[i].at = k
      /\ \A i, j \in 1..Len(q) : i < j <=> Before(q[i].at, q[j].at)
  BY <1>0 DEF InOrder
<1> HIDE DEF q
<1>2. \A i \in 1..Len(q) : q[i] \in X <=> Covers(q[i].at, user, place)
  BY <1>1 DEF ForTable
<1> HIDE DEF X
<1>3. Hit(q, X) <=> Reached(g, user, place)
  BY <1>1, <1>2 DEF Hit, Reached
<1>4. ASSUME NEW i, IsFirst(q, X, i) PROVE FirstGrant(g, user, place, q[i].at)
  <2>1. i \in 1..Len(q) /\ q[i] \in X /\ \A j \in 1..Len(q) : j < i => q[j] \notin X
    BY <1>4 DEF IsFirst
  <2>2. ASSUME NEW l \in DOMAIN g, Covers(l, user, place) PROVE l = q[i].at \/ Before(q[i].at, l)
    <3>1. PICK j \in 1..Len(q) : q[j].at = l
      BY <1>1
    <3>2. ~(j < i)
      BY <1>2, <2>1, <2>2, <3>1
    <3>3. j = i \/ i < j
      BY <1>1, <2>1, <3>2
    <3>4. QED BY <1>1, <2>1, <3>1, <3>3
  <2>3. QED BY <1>1, <1>2, <2>1, <2>2 DEF FirstGrant
<1>5. ASSUME NEW k, FirstGrant(g, user, place, k) PROVE Decides(q, X) = g[k]
  <2>1. Hit(q, X)
    BY <1>3, <1>5 DEF FirstGrant, Reached
  <2>2. PICK i : IsFirst(q, X, i) /\ Decides(q, X) = q[i].allow
    BY <1>1, <2>1, HasFirst
  <2>3. FirstGrant(g, user, place, q[i].at) /\ i \in 1..Len(q)
    BY <1>4, <2>2 DEF IsFirst
  <2>4. q[i].at = k
    <3>1. k \in Keys /\ q[i].at \in Keys
      BY <1>5, <2>3 DEF FirstGrant, GrantSets
    <3>2. \/ q[i].at = k
          \/ Before(k, q[i].at) /\ Before(q[i].at, k)
      BY <1>5, <2>3 DEF FirstGrant
    <3>3. QED BY <3>1, <3>2, BeforeOrders
  <2>5. q[i] = GrantRule(k, g[k])
    BY <1>1, <2>3, <2>4
  <2>6. QED BY <2>2, <2>5 DEF GrantRule
<1>6. ASSUME Reached(g, user, place) PROVE \E k : FirstGrant(g, user, place, k)
  <2>1. PICK i : IsFirst(q, X, i)
    BY <1>1, <1>3, <1>6, HasFirst
  <2>2. QED BY <1>4, <2>1
<1>7. QED BY <1>1, <1>3, <1>5, <1>6 DEF q, X

\* The rules Apchi writes itself.
LEMMA OwnRules ==
    /\ ReservedTableRule \in RulesOfTables /\ CatchAll \in RulesOfTables
    /\ ReservedTableRule # CatchAll /\ ~IsGrant(CatchAll)
    /\ \A user, place : ReservedTableRule \in ForTable(user, place)
                            <=> Covers(ReservedTableRule.at, user, place)
<1>1. Apchi \in Nat /\ Apchi # Wild /\ System \in Catalogs /\ Select \in Privileges
  BY PermissionsAssumption
<1>2. ReservedTableRule \in RulesOfTables /\ CatchAll \in RulesOfTables
  BY <1>1 DEF ReservedTableRule, CatchAll, RulesOfTables, Identities
<1>3. ReservedTableRule # CatchAll
  BY <1>1 DEF ReservedTableRule, CatchAll
<1>4. ~IsGrant(CatchAll)
  BY KeysAre DEF IsGrant, CatchAll
<1>5. QED BY <1>2, <1>3, <1>4 DEF ForTable

Closing(closed) == IF closed THEN <<>> ELSE <<CatchAll>>

\* Apchi's own rule comes first, then the first grant; what is preserved is asked last.
LEMMA TableAccessIs ==
    ASSUME NEW g \in GrantSets, IsFiniteSet(DOMAIN g), NEW kept \in Seq(RulesOfTables),
           NEW closed \in BOOLEAN, NEW user, NEW place
    PROVE  /\ TableRules(g, kept, closed) \in Seq(RulesOfTables)
           /\ Covers(ReservedTableRule.at, user, place) =>
                 TableAccess(TableRules(g, kept, closed), user, place) = {Select}
           /\ ~Covers(ReservedTableRule.at, user, place) =>
                 /\ \A k : FirstGrant(g, user, place, k) =>
                       TableAccess(TableRules(g, kept, closed), user, place) = g[k]
                 /\ ~Reached(g, user, place) =>
                       TableAccess(TableRules(g, kept, closed), user, place)
                          = Decides(kept \o Closing(closed), ForTable(user, place))
<1> DEFINE X == ForTable(user, place)
           V == RulesOfTables
           own == <<ReservedTableRule>>
           q == SortedGrants(g)
           end == Closing(closed)
           s == TableRules(g, kept, closed)
<1>1. q \in Seq(V) /\ own \in Seq(V) /\ end \in Seq(V) /\ kept \in Seq(V)
  BY GrantsDecide, OwnRules DEF Closing
<1>2. s = own \o q \o kept \o end
  BY DEF TableRules, Closing
<1> HIDE DEF q, end, own, s, X, V
<1> DEFINE a == own \o q
           b == a \o kept
           c == kept \o end
<1>3. a \in Seq(V) /\ Asks(a, own, q, X)
  BY <1>1, Concatenated
<1> HIDE DEF a
<1>4. b \in Seq(V) /\ Asks(b, a, kept, X) /\ c \in Seq(V) /\ Asks(c, kept, end, X)
  BY <1>1, <1>3, Concatenated
<1> HIDE DEF b, c
<1>5. s \in Seq(V) /\ Asks(s, b, end, X)
  BY <1>1, <1>2, <1>4, Concatenated DEF a, b
<1>6. /\ TableAccess(s, user, place) = Decides(s, X)
      /\ Hit(a, X) => Decides(s, X) = Decides(a, X)
      /\ ~Hit(a, X) => Decides(s, X) = Decides(c, X)
  <2>1. TableAccess(s, user, place) = Decides(s, X)
    BY <1>5, AccessDecides DEF V, X
  <2>2. QED BY <1>4, <1>5, <2>1 DEF Asks
<1>7. /\ Hit(own, X) <=> Covers(ReservedTableRule.at, user, place)
      /\ Hit(own, X) => Decides(own, X) = {Select}
  <2>1. ReservedTableRule.allow = {Select}
    BY DEF ReservedTableRule
  <2>2. QED BY <2>1, OneRule, OwnRules DEF own, X
<1>8. /\ Hit(q, X) <=> Reached(g, user, place)
      /\ \A k : FirstGrant(g, user, place, k) => Hit(q, X) /\ Decides(q, X) = g[k]
  <2>1. \A k : FirstGrant(g, user, place, k) => Reached(g, user, place)
    BY DEF FirstGrant, Reached
  <2>2. QED BY <2>1, GrantsDecide DEF q, X
<1>9. QED BY <1>3, <1>5, <1>6, <1>7, <1>8 DEF Asks, s, c, end, X, V

-----------------------------------------------------------------------------
(* What the queries block gives. *)

ApchisQueries == [user |-> Apchi, owner |-> Wild, allow |-> {"execute", "view", "kill"}]
OwnQueries(u) == [user |-> u, owner |-> u, allow |-> {"view", "kill"}]

\* The rules in the middle of the block: one for each identity, on its own queries.
IsMiddle(mid, ids) ==
    /\ mid \in Seq(RulesOfQueries)
    /\ \A i \in 1..Len(mid) : \E u \in ids \ {Apchi} : mid[i] = OwnQueries(u)
    /\ \A u \in ids \ {Apchi} : \E i \in 1..Len(mid) : mid[i] = OwnQueries(u)

\* The rules of the block are queries rules.
LEMMA OwnQueryRules ==
    /\ ApchisQueries \in RulesOfQueries /\ EveryoneExecutes \in RulesOfQueries
    /\ \A u \in Identities : OwnQueries(u) \in RulesOfQueries
    /\ \A u \in Identities : u \in Nat /\ u # Wild
<1>1. \A u \in Identities : u \in Nat /\ u # Wild
  BY PermissionsAssumption DEF Identities
<1>2. Apchi \in Identities
  BY DEF Identities
<1>3. QED BY <1>1, <1>2 DEF ApchisQueries, EveryoneExecutes, OwnQueries, RulesOfQueries

\* A list without its last element, and that element.
LEMMA FrontAndLast ==
    ASSUME NEW V, NEW s \in Seq(V), NEW e \in V
    PROVE  Front(s \o <<e>>) = s /\ Last(s \o <<e>>) = e
<1> DEFINE t == s \o <<e>>
<1>1. /\ Len(s) \in Nat /\ t \in Seq(V) /\ Len(t) = Len(s) + 1 /\ t[Len(s) + 1] = e
      /\ \A i \in 1..Len(s) : t[i] = s[i]
  OBVIOUS
<1> HIDE DEF t
<1>2. Last(t) = e
  BY <1>1 DEF Last
<1>3. Front(t) = SubSeq(t, 1, Len(s))
  BY <1>1 DEF Front
<1>4. Front(t) = [i \in 1..Len(s) |-> t[i]]
  BY <1>1, <1>3
<1>5. Front(t) = s
  BY <1>1, <1>4
<1>6. QED BY <1>2, <1>5 DEF t

\* The block is Apchi's rule, one rule for each identity, and the one that is for everyone.
LEMMA QueryRulesAre ==
    ASSUME NEW ids \in SUBSET Identities, IsFiniteSet(ids)
    PROVE  \E mid : /\ IsMiddle(mid, ids)
                    /\ QueryRules(ids) = <<ApchisQueries>> \o mid \o <<EveryoneExecutes>>
                    /\ QueryRules(ids) \in Seq(RulesOfQueries)
                    /\ Front(QueryRules(ids)) = <<ApchisQueries>> \o mid
                    /\ Last(QueryRules(ids)) = EveryoneExecutes
<1> DEFINE P == ids \ {Apchi}
           n == Cardinality(P)
           q == Sorted(P, <)
           mid == [i \in 1..Len(q) |-> OwnQueries(q[i])]
<1>1. P \in SUBSET Nat /\ IsFiniteSet(P)
  BY OwnQueryRules, FS_RemoveElement
<1>2. IsSortedList(q, P, Rising(P))
  BY <1>1, NumbersSorted
<1>3. QueryRules(ids) = <<ApchisQueries>> \o mid \o <<EveryoneExecutes>>
  BY DEF QueryRules, ApchisQueries, OwnQueries, EveryoneExecutes
<1> HIDE DEF q
<1>4. n \in Nat /\ q \in Seq(P) /\ Len(q) = n /\ \A x \in P : \E i \in 1..n : q[i] = x
  BY <1>2 DEF IsSortedList
<1> HIDE DEF n
<1>5. \A i \in 1..n : q[i] \in P /\ mid[i] = OwnQueries(q[i])
  BY <1>4
<1>6. mid \in [1..n -> RulesOfQueries]
  BY <1>4, <1>5, OwnQueryRules
<1>7. mid \in Seq(RulesOfQueries) /\ Len(mid) = n
  BY <1>4, <1>6, ListIs
<1> HIDE DEF mid
<1>8. IsMiddle(mid, ids)
  BY <1>4, <1>5, <1>7 DEF IsMiddle
<1>9. <<ApchisQueries>> \o mid \in Seq(RulesOfQueries)
  BY <1>7, OwnQueryRules
<1>10. QueryRules(ids) \in Seq(RulesOfQueries)
  BY <1>3, <1>9, OwnQueryRules
<1>11. /\ Front(QueryRules(ids)) = <<ApchisQueries>> \o mid
       /\ Last(QueryRules(ids)) = EveryoneExecutes
  BY <1>3, <1>9, OwnQueryRules, FrontAndLast
<1>12. QED BY <1>3, <1>8, <1>10, <1>11

\* Apchi's rule comes first, then an identity's own; what is preserved comes before the last.
LEMMA QueryAccessIs ==
    ASSUME NEW ids \in SUBSET Identities, IsFiniteSet(ids), NEW kept \in Seq(RulesOfQueries),
           NEW user \in Identities, NEW owner \in Identities \cup {Wild}
    PROVE  LET file == WithPreservedQueries(QueryRules(ids), kept)
           IN  /\ file \in Seq(RulesOfQueries)
               /\ user = Apchi => QueryAccess(file, user, owner) = {"execute", "view", "kill"}
               /\ user # Apchi /\ user \in ids /\ owner = user =>
                     QueryAccess(file, user, owner) = {"view", "kill"}
               /\ user # Apchi /\ ~(user \in ids /\ owner = user) =>
                     QueryAccess(file, user, owner)
                        = Decides(kept \o <<EveryoneExecutes>>, ForQuery(user, owner))
<1> DEFINE X == ForQuery(user, owner)
           V == RulesOfQueries
           own == <<ApchisQueries>>
           end == <<EveryoneExecutes>>
           s == WithPreservedQueries(QueryRules(ids), kept)
<1>1. PICK mid : /\ IsMiddle(mid, ids)
                 /\ Front(QueryRules(ids)) = own \o mid
                 /\ Last(QueryRules(ids)) = EveryoneExecutes
  BY QueryRulesAre
<1>2. s = own \o mid \o kept \o end
  BY <1>1 DEF WithPreservedQueries
<1>3. mid \in Seq(V) /\ own \in Seq(V) /\ end \in Seq(V) /\ kept \in Seq(V)
  BY <1>1, OwnQueryRules DEF IsMiddle
<1>4. \A r \in V : r \in X <=> r.user \in {Wild, user} /\ r.owner \in {Wild, owner}
  BY DEF ForQuery
<1>5. /\ Hit(own, X) <=> user = Apchi
      /\ Hit(own, X) => Decides(own, X) = {"execute", "view", "kill"}
  <2>1. ApchisQueries \in X <=> user = Apchi
    BY <1>4, OwnQueryRules, PermissionsAssumption DEF ApchisQueries
  <2>2. ApchisQueries.allow = {"execute", "view", "kill"}
    BY DEF ApchisQueries
  <2> HIDE DEF X
  <2>3. QED BY <2>1, <2>2, OneRule
<1>6. \A u \in Identities : OwnQueries(u) \in X <=> u = user /\ owner = user
  <2>1. SUFFICES ASSUME NEW u \in Identities
                 PROVE  OwnQueries(u) \in X <=> u = user /\ owner = user
    OBVIOUS
  <2>2. OwnQueries(u) \in V /\ OwnQueries(u).user = u /\ OwnQueries(u).owner = u /\ u # Wild
    BY OwnQueryRules DEF OwnQueries
  <2>3. QED BY <1>4, <2>2
<1> HIDE DEF X, V, own, end, s
<1>7. /\ Hit(mid, X) <=> user # Apchi /\ user \in ids /\ owner = user
      /\ Hit(mid, X) => Decides(mid, X) = {"view", "kill"}
  <2>1. Hit(mid, X) <=> user # Apchi /\ user \in ids /\ owner = user
    BY <1>1, <1>6 DEF Hit, IsMiddle
  <2>2. ASSUME Hit(mid, X) PROVE Decides(mid, X) = {"view", "kill"}
    <3>1. PICK i : IsFirst(mid, X, i) /\ Decides(mid, X) = mid[i].allow
      BY <1>3, <2>2, HasFirst
    <3>2. \E u \in ids \ {Apchi} : mid[i] = OwnQueries(u)
      BY <1>1, <3>1 DEF IsFirst, IsMiddle
    <3>3. QED BY <3>1, <3>2 DEF OwnQueries
  <2>3. QED BY <2>1, <2>2
<1> DEFINE a == own \o mid
           b == a \o kept
           c == kept \o end
<1>8. a \in Seq(V) /\ Asks(a, own, mid, X)
  BY <1>3, Concatenated
<1> HIDE DEF a
<1>9. b \in Seq(V) /\ Asks(b, a, kept, X) /\ c \in Seq(V) /\ Asks(c, kept, end, X)
  BY <1>3, <1>8, Concatenated
<1> HIDE DEF b, c
<1>10. s \in Seq(V) /\ Asks(s, b, end, X)
  BY <1>2, <1>3, <1>9, Concatenated DEF a, b
<1>11. QueryAccess(s, user, owner) = Decides(s, X)
  BY <1>10, AccessDecides DEF V, X
<1>12. /\ user = Apchi => Decides(s, X) = {"execute", "view", "kill"}
       /\ user # Apchi /\ user \in ids /\ owner = user => Decides(s, X) = {"view", "kill"}
       /\ user # Apchi /\ ~(user \in ids /\ owner = user) => Decides(s, X) = Decides(c, X)
  BY <1>5, <1>7, <1>8, <1>9, <1>10 DEF Asks
<1>13. QED BY <1>10, <1>11, <1>12 DEF s, c, end, X, V

-----------------------------------------------------------------------------
(* The file read back. *)

\* The places of the rules that are read as grants.
ReadPlaces(rules) == {i \in DOMAIN rules : IsGrant(rules[i]) /\ rules[i] # ReservedTableRule}

\* The last rule for a key.
IsLatest(rules, k, i) ==
    /\ i \in ReadPlaces(rules) /\ rules[i].at = k
    /\ \A j \in ReadPlaces(rules) : rules[j].at = k => j <= i

\* Each key that is read has a last rule, which says what is granted.
LEMMA LatestIsRead ==
    ASSUME NEW rules \in Seq(RulesOfTables)
    PROVE  /\ DOMAIN ReadGrants(rules) = {rules[i].at : i \in ReadPlaces(rules)}
           /\ \A k \in DOMAIN ReadGrants(rules) : \E i : IsLatest(rules, k, i)
           /\ \A k \in DOMAIN ReadGrants(rules) : \A i :
                 IsLatest(rules, k, i) => ReadGrants(rules)[k] = rules[i].allow
<1> DEFINE read == ReadPlaces(rules)
           D == {rules[i].at : i \in read}
           Latest(k) == CHOOSE i \in read :
                           rules[i].at = k /\ \A j \in read : rules[j].at = k => j <= i
<1>1. ReadGrants(rules) = [k \in D |-> rules[Latest(k)].allow]
  BY DEF ReadGrants, ReadPlaces
<1>2. Len(rules) \in Nat /\ DOMAIN rules = 1..Len(rules) /\ read \in SUBSET (0..Len(rules))
  BY DEF ReadPlaces
<1>3. ASSUME NEW k \in D
      PROVE  \E i \in read : rules[i].at = k /\ \A j \in read : rules[j].at = k => j <= i
  <2> DEFINE S == {i \in read : rules[i].at = k}
  <2>1. S \in SUBSET (0..Len(rules)) /\ S # {}
    BY <1>2
  <2>2. \E i \in S : \A j \in S : j <= i
    BY <1>2, <2>1, Greatest
  <2>3. QED BY <2>2
<1>4. ASSUME NEW k \in D PROVE IsLatest(rules, k, Latest(k))
  BY <1>3, <1>4 DEF IsLatest
<1>5. ASSUME NEW k \in D, NEW i, IsLatest(rules, k, i) PROVE Latest(k) = i
  <2>1. IsLatest(rules, k, Latest(k))
    BY <1>4
  <2> HIDE DEF Latest
  <2>2. Latest(k) <= i /\ i <= Latest(k) /\ i \in Nat /\ Latest(k) \in Nat
    BY <1>2, <1>5, <2>1 DEF IsLatest
  <2>3. QED BY <2>2
<1> HIDE DEF Latest
<1>6. QED BY <1>1, <1>4, <1>5

\* What is read as grants is grants.
LEMMA GrantsAreRead ==
    ASSUME NEW rules \in Seq(RulesOfTables)
    PROVE  ReadGrants(rules) \in GrantSets /\ IsFiniteSet(DOMAIN ReadGrants(rules))
<1> DEFINE read == ReadPlaces(rules)
           D == {rules[i].at : i \in read}
           g == ReadGrants(rules)
           f == [i \in read |-> rules[i].at]
<1>1. Len(rules) \in Nat /\ DOMAIN rules = 1..Len(rules) /\ read \in SUBSET (1..Len(rules))
  BY DEF ReadPlaces
<1>2. ASSUME NEW i \in read
      PROVE  rules[i].at \in Keys /\ rules[i].allow \in (SUBSET Privileges) \ {{}}
  <2>1. rules[i] \in RulesOfTables /\ IsGrant(rules[i])
    BY <1>1 DEF ReadPlaces
  <2>2. rules[i].allow \in SUBSET Privileges
    BY <2>1 DEF RulesOfTables
  <2>3. QED BY <2>1, <2>2 DEF IsGrant
<1>3. DOMAIN g = D /\ D \in SUBSET Keys
  <2>1. DOMAIN g = D
    BY LatestIsRead
  <2>2. QED BY <1>2, <2>1
<1>4. ASSUME NEW k \in D PROVE g[k] \in (SUBSET Privileges) \ {{}}
  <2>1. k \in DOMAIN g
    BY <1>3
  <2>2. PICK i : IsLatest(rules, k, i)
    BY <2>1, LatestIsRead
  <2>3. g[k] = rules[i].allow
    BY <2>1, <2>2, LatestIsRead
  <2>4. i \in read
    BY <2>2 DEF IsLatest
  <2> HIDE DEF g
  <2>5. QED BY <1>2, <2>3, <2>4
<1>5. g = [k \in D |-> g[k]]
  <2>1. \E h : g = [k \in D |-> h[k]]
    <3> DEFINE h == [k \in D |-> g[k]]
    <3>1. g = [k \in D |-> rules[CHOOSE i \in read :
                           rules[i].at = k /\ \A j \in read : rules[j].at = k => j <= i].allow]
      BY DEF ReadGrants, ReadPlaces
    <3>2. g = [k \in D |-> h[k]]
      BY <3>1
    <3>3. QED BY <3>2
  <2>2. QED BY <2>1
<1>6. g \in GrantSets
  <2> HIDE DEF g, D
  <2>1. g \in [D -> (SUBSET Privileges) \ {{}}]
    BY <1>4, <1>5
  <2>2. QED BY <1>3, <2>1 DEF GrantSets
<1>7. IsFiniteSet(read)
  <2>1. read \in SUBSET Nat /\ \A i \in read : i <= Len(rules)
    BY <1>1
  <2>2. QED BY <1>1, <2>1, FS_BoundedSetOfNaturals
<1>8. f \in Surjection(read, D)
  BY DEF Surjection
<1>9. IsFiniteSet(D)
  BY <1>7, <1>8, FS_Surjection
<1>10. QED BY <1>3, <1>6, <1>9

\* The identities that are granted something.
LEMMA GrantedAre ==
    ASSUME NEW g \in GrantSets, IsFiniteSet(DOMAIN g)
    PROVE  Granted(g) \in SUBSET Identities /\ IsFiniteSet(Granted(g))
<1> DEFINE D == DOMAIN g
           f == [k \in D |-> k[1]]
<1>1. \A k \in D : k[1] \in Identities
  BY KeysAre DEF GrantSets
<1>2. f \in Surjection(D, Granted(g))
  BY DEF Surjection, Granted
<1>3. IsFiniteSet(Granted(g))
  BY <1>2, FS_Surjection
<1>4. QED BY <1>1, <1>3 DEF Granted

\* The places of the rules that are preserved.
OtherPlaces(rules) ==
    {i \in DOMAIN rules : ~IsGrant(rules[i]) /\ rules[i] \notin {ReservedTableRule, CatchAll}}

OtherQueryPlaces(rules, generated) == {i \in DOMAIN rules : rules[i] \notin Range(generated)}

\* What is preserved is rules that were there, and none that Apchi writes.
LEMMA OthersAreKept ==
    ASSUME NEW tables \in Seq(RulesOfTables), NEW queries \in Seq(RulesOfQueries),
           NEW ids \in SUBSET Identities, IsFiniteSet(ids)
    PROVE  LET kt == OtherTables(tables)
               kq == OtherQueries(queries, QueryRules(ids))
           IN  /\ kt \in Seq(RulesOfTables) /\ kq \in Seq(RulesOfQueries)
               /\ \A i \in DOMAIN kt : ~IsGrant(kt[i]) /\ kt[i] \notin {ReservedTableRule, CatchAll}
               /\ \A i \in DOMAIN kq : kq[i] # EveryoneExecutes
<1> DEFINE kt == OtherTables(tables)
           kq == OtherQueries(queries, QueryRules(ids))
           gen == QueryRules(ids)
           P == OtherPlaces(tables)
           Q == OtherQueryPlaces(queries, gen)
<1>1. P \in SUBSET (1..Len(tables)) /\ Q \in SUBSET (1..Len(queries))
  BY DEF OtherPlaces, OtherQueryPlaces
<1>2. kt = Picked(tables, P) /\ kq = Picked(queries, Q)
  BY DEF OtherTables, OtherQueries, OtherPlaces, OtherQueryPlaces
<1> HIDE DEF kt, kq
<1>3. EveryoneExecutes \in Range(gen)
  <2>1. PICK mid : IsMiddle(mid, ids) /\ gen = <<ApchisQueries>> \o mid \o <<EveryoneExecutes>>
    BY QueryRulesAre
  <2>2. mid \in Seq(RulesOfQueries)
    BY <2>1 DEF IsMiddle
  <2> DEFINE s == <<ApchisQueries>> \o mid
  <2>3. s \in Seq(RulesOfQueries)
    BY <2>2, OwnQueryRules
  <2> HIDE DEF s
  <2>4. /\ Len(s) + 1 \in DOMAIN (s \o <<EveryoneExecutes>>)
        /\ (s \o <<EveryoneExecutes>>)[Len(s) + 1] = EveryoneExecutes
    BY <2>3, OwnQueryRules
  <2>5. QED BY <2>1, <2>4 DEF Range, s
<1> HIDE DEF gen
<1>4. /\ kt \in Seq(RulesOfTables) /\ \E at : Picks(kt, tables, P, at)
  BY <1>1, <1>2, PickedIs
<1>5. /\ kq \in Seq(RulesOfQueries) /\ \E at : Picks(kq, queries, Q, at)
  BY <1>1, <1>2, PickedIs
<1>6. ASSUME NEW i \in DOMAIN kt
      PROVE  ~IsGrant(kt[i]) /\ kt[i] \notin {ReservedTableRule, CatchAll}
  <2>1. \E p \in P : kt[i] = tables[p]
    BY <1>4 DEF Picks
  <2>2. QED BY <2>1 DEF OtherPlaces
<1>7. ASSUME NEW i \in DOMAIN kq PROVE kq[i] # EveryoneExecutes
  <2>1. \E p \in Q : kq[i] = queries[p]
    BY <1>5 DEF Picks
  <2>2. QED BY <1>3, <2>1 DEF OtherQueryPlaces
<1>8. QED BY <1>4, <1>5, <1>6, <1>7 DEF kt, kq, gen

-----------------------------------------------------------------------------
(* The invariant holds. *)

\* A Cluster without rules, or one adopted from a file written by hand.
LEMMA PermissionsStart == PermissionsInit => PermissionsInv
<1> SUFFICES ASSUME PermissionsInit PROVE PermissionsInv
  OBVIOUS
<1>1. PICK found \in {[grants |-> NoGrants, enforced |-> FALSE, preserved |-> NothingKept]}
                       \cup {Parsed(file) : file \in HandFiles} :
         grants = found.grants /\ enforced = found.enforced /\ preserved = found.preserved
  BY DEF PermissionsInit
<1>2. CASE found = [grants |-> NoGrants, enforced |-> FALSE, preserved |-> NothingKept]
  <2>1. grants = NoGrants /\ enforced = FALSE /\ preserved = NothingKept
    BY <1>1, <1>2
  <2>2. NoGrants \in [{} -> (SUBSET Privileges) \ {{}}] /\ DOMAIN NoGrants = {}
    BY DEF NoGrants
  <2>3. grants \in GrantSets /\ IsFiniteSet(DOMAIN grants)
    BY <2>1, <2>2, FS_EmptySet DEF GrantSets
  <2>4. preserved \in [tables: Seq(RulesOfTables), queries: Seq(RulesOfQueries)]
    BY <2>1 DEF NothingKept
  <2>5. KeptIsOther
    BY <2>1 DEF KeptIsOther, NothingKept
  <2>6. QED BY <2>1, <2>3, <2>4, <2>5 DEF PermissionsInv, PermissionsTypeOK
<1>3. CASE \E file \in HandFiles : found = Parsed(file)
  <2>1. PICK file \in HandFiles : found = Parsed(file)
    BY <1>3
  <2> DEFINE g == ReadGrants(file.tables)
             kt == OtherTables(file.tables)
             kq == OtherQueries(file.queries, QueryRules(Granted(g)))
  <2>2. file.tables \in Seq(RulesOfTables) /\ file.queries \in Seq(RulesOfQueries)
    BY PermissionsAssumption
  <2>3. grants = g /\ enforced = (CatchAll \notin Range(file.tables))
        /\ preserved = [tables |-> kt, queries |-> kq]
    BY <1>1, <2>1 DEF Parsed
  <2>4. g \in GrantSets /\ IsFiniteSet(DOMAIN g)
    BY <2>2, GrantsAreRead
  <2>5. Granted(g) \in SUBSET Identities /\ IsFiniteSet(Granted(g))
    BY <2>4, GrantedAre
  <2> HIDE DEF g
  <2>6. /\ kt \in Seq(RulesOfTables) /\ kq \in Seq(RulesOfQueries)
        /\ \A i \in DOMAIN kt : ~IsGrant(kt[i]) /\ kt[i] \notin {ReservedTableRule, CatchAll}
        /\ \A i \in DOMAIN kq : kq[i] # EveryoneExecutes
    BY <2>2, <2>5, OthersAreKept
  <2> HIDE DEF kt, kq
  <2>7. enforced \in BOOLEAN
    BY <2>3
  <2>8. preserved.tables = kt /\ preserved.queries = kq
    BY <2>3
  <2>9. KeptIsOther
    BY <2>6, <2>8 DEF KeptIsOther
  <2>10. QED BY <2>3, <2>4, <2>6, <2>7, <2>9 DEF PermissionsInv, PermissionsTypeOK
<1>4. QED BY <1>1, <1>2, <1>3

\* Every change of the Operator's or the Admin's keeps it.
LEMMA PermissionsStep == PermissionsInv /\ [PermissionsNext]_permissionsVars => PermissionsInv'
<1> SUFFICES ASSUME PermissionsInv, [PermissionsNext]_permissionsVars PROVE PermissionsInv'
  OBVIOUS
<1> DEFINE P == (SUBSET Privileges) \ {{}}
<1>0. /\ grants \in GrantSets /\ IsFiniteSet(DOMAIN grants) /\ enforced \in BOOLEAN
      /\ \E D \in SUBSET Keys : grants \in [D -> P]
  BY DEF PermissionsInv, PermissionsTypeOK, GrantSets
<1>1. ASSUME NEW D \in SUBSET Keys, grants' \in [D -> P], IsFiniteSet(D),
             UNCHANGED <<enforced, preserved>>
      PROVE  PermissionsInv'
  <2>1. grants' \in GrantSets /\ DOMAIN grants' = D
    BY <1>1 DEF GrantSets
  <2>2. PermissionsTypeOK'
    BY <1>1, <2>1 DEF PermissionsInv, PermissionsTypeOK
  <2>3. KeptIsOther'
    BY <1>1 DEF PermissionsInv, KeptIsOther
  <2>4. QED BY <2>2, <2>3 DEF PermissionsInv
<1>2. ASSUME NEW k \in Keys, NEW p \in P, AddGrant(k, p) PROVE PermissionsInv'
  <2> DEFINE D == DOMAIN grants \cup {k}
  <2>1. D \in SUBSET Keys /\ IsFiniteSet(D)
    BY <1>0, FS_AddElement
  <2>2. grants' \in [D -> P] /\ UNCHANGED <<enforced, preserved>>
    BY <1>0, <1>2 DEF AddGrant
  <2>3. QED BY <1>1, <2>1, <2>2
<1>3. ASSUME NEW k \in Keys, NEW p \in P, SetPrivileges(k, p) PROVE PermissionsInv'
  <2>1. DOMAIN grants \in SUBSET Keys
    BY <1>0
  <2>2. grants' \in [DOMAIN grants -> P] /\ UNCHANGED <<enforced, preserved>>
    BY <1>0, <1>3 DEF SetPrivileges
  <2>3. QED BY <1>0, <1>1, <2>1, <2>2
<1>4. ASSUME NEW k \in Keys, DeleteGrant(k) PROVE PermissionsInv'
  <2> DEFINE D == DOMAIN grants \ {k}
  <2>1. D \in SUBSET Keys /\ IsFiniteSet(D)
    BY <1>0, FS_RemoveElement
  <2>2. grants' \in [D -> P] /\ UNCHANGED <<enforced, preserved>>
    BY <1>0, <1>4 DEF DeleteGrant
  <2>3. QED BY <1>1, <2>1, <2>2
<1>5. ASSUME EnforcePermissions PROVE PermissionsInv'
  BY <1>5 DEF EnforcePermissions, PermissionsInv, PermissionsTypeOK, KeptIsOther
<1>6. ASSUME UNCHANGED permissionsVars PROVE PermissionsInv'
  BY <1>6 DEF permissionsVars, PermissionsInv, PermissionsTypeOK, KeptIsOther
<1>7. QED BY <1>2, <1>3, <1>4, <1>5, <1>6 DEF PermissionsNext

\* What is staged and preserved stays of its kind, and a preserved rule never becomes one that
\* would be read as a grant.
THEOREM PermissionsInvariant == PermissionsSpec => []PermissionsInv
BY PermissionsStart, PermissionsStep, PTL DEF PermissionsSpec

-----------------------------------------------------------------------------
(* Who has access. *)

\* The two blocks of the file that is written.
LEMMA FileIs ==
    ASSUME PermissionsInv
    PROVE  /\ File.tables = TableRules(grants, preserved.tables, enforced)
           /\ File.queries = WithPreservedQueries(QueryRules(Granted(grants)), preserved.queries)
           /\ grants \in GrantSets /\ IsFiniteSet(DOMAIN grants) /\ enforced \in BOOLEAN
           /\ preserved.tables \in Seq(RulesOfTables) /\ preserved.queries \in Seq(RulesOfQueries)
           /\ Granted(grants) \in SUBSET Identities /\ IsFiniteSet(Granted(grants))
<1>1. /\ grants \in GrantSets /\ IsFiniteSet(DOMAIN grants) /\ enforced \in BOOLEAN
      /\ preserved.tables \in Seq(RulesOfTables) /\ preserved.queries \in Seq(RulesOfQueries)
  BY DEF PermissionsInv, PermissionsTypeOK
<1>2. Granted(grants) \in SUBSET Identities /\ IsFiniteSet(Granted(grants))
  BY <1>1, GrantedAre
<1>3. QED BY <1>1, <1>2 DEF File, Rendered

\* Apchi's own rule is for Apchi alone.
LEMMA ReservedIsApchis ==
    ASSUME NEW user \in Identities, NEW place \in Places
    PROVE  Covers(ReservedTableRule.at, user, place) <=> user = Apchi /\ place[1] = System
<1> DEFINE at == ReservedTableRule.at
<1>1. at[1] = Apchi /\ at[2] = System /\ at[3] = Wild /\ at[4] = Wild
  BY DEF ReservedTableRule
<1>2. Apchi # Wild /\ System # Wild
  BY PermissionsAssumption
<1>3. 1..3 = {1, 2, 3} /\ 1 + 1 = 2 /\ 2 + 1 = 3 /\ 3 + 1 = 4
  OBVIOUS
<1> HIDE DEF at
<1>4. QED BY <1>1, <1>2, <1>3 DEF Covers, at

\* Anywhere but for Apchi on its verification catalog, the first grant decides, or else what is
\* preserved.
LEMMA TablesGive ==
    ASSUME PermissionsInv, NEW user \in Identities, NEW place \in Places,
           ~(user = Apchi /\ place[1] = System)
    PROVE  /\ \A k : FirstGrant(grants, user, place, k) =>
                 TableAccess(File.tables, user, place) = grants[k]
           /\ ~Reached(grants, user, place) =>
                 TableAccess(File.tables, user, place)
                    = Decides(preserved.tables \o Closing(enforced), ForTable(user, place))
<1> DEFINE kept == preserved.tables
<1>1. /\ File.tables = TableRules(grants, kept, enforced)
      /\ grants \in GrantSets /\ IsFiniteSet(DOMAIN grants) /\ enforced \in BOOLEAN
      /\ kept \in Seq(RulesOfTables)
  BY FileIs
<1>2. ~Covers(ReservedTableRule.at, user, place)
  BY ReservedIsApchis
<1> HIDE DEF kept
<1>3. QED BY <1>1, <1>2, TableAccessIs DEF kept

\* On a Cluster that enforces, the rule that decides is a grant or a preserved one.
LEMMA EnforcedGivesGrants == PermissionsInv => OnlyGranted
<1> SUFFICES ASSUME PermissionsInv, enforced, NEW u \in EndUsers, NEW p \in Places
             PROVE  TableAccess(File.tables, u, p) \subseteq
                       UNION ({grants[k] : k \in {l \in DOMAIN grants : Covers(l, u, p)}}
                              \cup {r.allow : r \in {s \in Range(preserved.tables) :
                                                       Covers(s.at, u, p)}})
  BY DEF OnlyGranted
<1> DEFINE kept == preserved.tables
           X == ForTable(u, p)
           access == TableAccess(File.tables, u, p)
<1>1. u \in Identities /\ u # Apchi
  BY PermissionsAssumption DEF Identities
<1>2. /\ \A k : FirstGrant(grants, u, p, k) => access = grants[k]
      /\ ~Reached(grants, u, p) => access = Decides(kept \o Closing(enforced), X)
  BY <1>1, TablesGive
<1> HIDE DEF access
<1>3. CASE Reached(grants, u, p)
  <2>1. PICK k : FirstGrant(grants, u, p, k)
    BY <1>3, FileIs, GrantsDecide
  <2>2. k \in DOMAIN grants /\ Covers(k, u, p) /\ access = grants[k]
    BY <1>2, <2>1 DEF FirstGrant
  <2>3. QED BY <2>2 DEF access
<1>4. CASE ~Reached(grants, u, p)
  <2> DEFINE none == <<>>
             c == kept \o none
  <2>1. kept \in Seq(RulesOfTables) /\ none \in Seq(RulesOfTables) /\ Closing(enforced) = none
    BY FileIs DEF Closing
  <2>2. access = Decides(c, X)
    BY <1>2, <1>4, <2>1
  <2>3. ~Hit(none, X) /\ Decides(none, X) = {}
    BY NoRules
  <2> HIDE DEF none, kept
  <2>4. Asks(c, kept, none, X)
    BY <2>1, Concatenated
  <2> HIDE DEF c
  <2>5. CASE Hit(kept, X)
    <3>1. Len(kept) \in Nat
      BY <2>1
    <3>2. PICK i : IsFirst(kept, X, i) /\ Decides(kept, X) = kept[i].allow
      BY <2>5, <3>1, HasFirst
    <3>3. i \in DOMAIN kept /\ kept[i] \in X
      BY <2>1, <3>2 DEF IsFirst
    <3>4. kept[i] \in Range(kept) /\ Covers(kept[i].at, u, p)
      BY <3>3 DEF Range, ForTable
    <3>5. access = kept[i].allow
      BY <2>2, <2>4, <2>5, <3>2 DEF Asks
    <3>6. QED BY <3>4, <3>5 DEF access, kept
  <2>6. CASE ~Hit(kept, X)
    <3>1. access = {}
      BY <2>2, <2>3, <2>4, <2>6 DEF Asks
    <3>2. QED BY <3>1 DEF access
  <2>7. QED BY <2>5, <2>6
<1>5. QED BY <1>3, <1>4

\* Once the Admin enforces the grants, nobody may do anywhere what no grant of theirs on that
\* place gives and no preserved rule: whatever is granted, whatever was kept, however it sorts.
THEOREM OnlyGrantedAlways == PermissionsSpec => []OnlyGranted
<1>1. PermissionsInv => OnlyGranted
  BY EnforcedGivesGrants
<1>2. QED BY <1>1, PermissionsInvariant, PTL

\* The last rule is for everyone.
LEMMA LastIsForAll ==
    ASSUME NEW user \in Identities, NEW owner \in Identities \cup {Wild}
    PROVE  Decides(<<>> \o <<EveryoneExecutes>>, ForQuery(user, owner)) = {"execute"}
<1> DEFINE X == ForQuery(user, owner)
<1>1. EveryoneExecutes \in X /\ EveryoneExecutes.allow = {"execute"}
  BY OwnQueryRules DEF EveryoneExecutes, ForQuery
<1> HIDE DEF X
<1>2. Decides(<<EveryoneExecutes>>, X) = {"execute"}
  BY <1>1, OneRule
<1>3. <<>> \o <<EveryoneExecutes>> = <<EveryoneExecutes>>
  OBVIOUS
<1>4. QED BY <1>2, <1>3 DEF X

\* Apchi's rules come first in both blocks; the last one answers whom no other does.
LEMMA ApchisRulesFirst == PermissionsInv => ApchiKeepsAccess
<1> SUFFICES ASSUME PermissionsInv PROVE ApchiKeepsAccess
  OBVIOUS
<1> DEFINE ids == Granted(grants)
           kept == preserved.queries
           Queries(u, o) == QueryAccess(File.queries, u, o)
<1>1. /\ File.tables = TableRules(grants, preserved.tables, enforced)
      /\ File.queries = WithPreservedQueries(QueryRules(ids), kept)
      /\ kept \in Seq(RulesOfQueries)
      /\ ids \in SUBSET Identities /\ IsFiniteSet(ids)
  BY FileIs
<1>2. Apchi \in Identities /\ EndUsers \subseteq Identities \ {Apchi} /\ Wild \notin Identities
  BY PermissionsAssumption DEF Identities
<1>3. ASSUME NEW p \in Places, p[1] = System PROVE Select \in TableAccess(File.tables, Apchi, p)
  <2>1. Covers(ReservedTableRule.at, Apchi, p)
    BY <1>2, <1>3, ReservedIsApchis
  <2>2. TableAccess(File.tables, Apchi, p) = {Select}
    BY <2>1, FileIs, TableAccessIs
  <2>3. QED BY <2>2
<1> HIDE DEF ids, kept
<1>4. \A o \in Identities \cup {Wild} : Queries(Apchi, o) = {"execute", "view", "kill"}
  BY <1>1, <1>2, QueryAccessIs
<1>5. ASSUME kept = <<>>, NEW u \in EndUsers, NEW o \in Identities \cup {Wild}, o # u
      PROVE  Queries(u, o) = {"execute"}
  <2>1. u \in Identities /\ u # Apchi /\ o # u
    BY <1>2, <1>5
  <2>2. Queries(u, o) = Decides(kept \o <<EveryoneExecutes>>, ForQuery(u, o))
    BY <1>1, <2>1, QueryAccessIs
  <2>3. QED BY <1>5, <2>1, <2>2, LastIsForAll
<1>6. ASSUME kept = <<>>, NEW u \in EndUsers
      PROVE  "execute" \in Queries(u, Wild) /\ \A o \in Identities \ {u} : "view" \notin Queries(u, o)
  BY <1>2, <1>5, <1>6
<1> HIDE DEF Queries
<1>7. "execute" \in Queries(Apchi, Wild) /\ \A o \in Identities : {"view", "kill"} \subseteq Queries(Apchi, o)
  BY <1>4
<1>8. QED BY <1>3, <1>6, <1>7 DEF ApchiKeepsAccess, Queries, kept

\* No grant, preserved rule or posture takes from Apchi what it verifies with; and where nothing
\* is preserved, everyone may run queries and see nobody else's.
THEOREM ApchiKeepsAccessAlways == PermissionsSpec => []ApchiKeepsAccess
<1>1. PermissionsInv => ApchiKeepsAccess
  BY ApchisRulesFirst
<1>2. QED BY <1>1, PermissionsInvariant, PTL

-----------------------------------------------------------------------------
(* What an edit changes. *)

\* Two sets of grants that agree wherever they are for a user at a place.
AgreeAt(g, h, user, place) ==
    \A k \in Keys : Covers(k, user, place) =>
        (k \in DOMAIN g <=> k \in DOMAIN h) /\ (k \in DOMAIN g => g[k] = h[k])

\* They have the same first grant, or none: what sorts before it is for somebody else.
LEMMA SameFirst ==
    ASSUME NEW g \in GrantSets, IsFiniteSet(DOMAIN g), NEW h \in GrantSets, IsFiniteSet(DOMAIN h),
           NEW user, NEW place, AgreeAt(g, h, user, place)
    PROVE  /\ Reached(g, user, place) <=> Reached(h, user, place)
           /\ \A k : FirstGrant(g, user, place, k) => FirstGrant(h, user, place, k) /\ g[k] = h[k]
<1>1. DOMAIN g \subseteq Keys /\ DOMAIN h \subseteq Keys
  BY DEF GrantSets
<1>2. QED BY <1>1 DEF AgreeAt, Reached, FirstGrant

\* So they give the same.
LEMMA SameTableAccess ==
    ASSUME NEW g \in GrantSets, IsFiniteSet(DOMAIN g), NEW h \in GrantSets, IsFiniteSet(DOMAIN h),
           NEW kept \in Seq(RulesOfTables), NEW closed \in BOOLEAN,
           NEW user, NEW place, AgreeAt(g, h, user, place)
    PROVE  TableAccess(TableRules(g, kept, closed), user, place)
              = TableAccess(TableRules(h, kept, closed), user, place)
<1>1. CASE Covers(ReservedTableRule.at, user, place)
  <2>1. TableAccess(TableRules(g, kept, closed), user, place) = {Select}
    BY <1>1, TableAccessIs
  <2>2. TableAccess(TableRules(h, kept, closed), user, place) = {Select}
    BY <1>1, TableAccessIs
  <2>3. QED BY <2>1, <2>2
<1>2. CASE ~Covers(ReservedTableRule.at, user, place) /\ ~Reached(g, user, place)
  <2>1. ~Reached(h, user, place)
    BY <1>2, SameFirst
  <2>2. QED BY <1>2, <2>1, TableAccessIs
<1>3. CASE ~Covers(ReservedTableRule.at, user, place) /\ Reached(g, user, place)
  <2>1. PICK k : FirstGrant(g, user, place, k)
    BY <1>3, GrantsDecide
  <2>2. FirstGrant(h, user, place, k) /\ g[k] = h[k]
    BY <2>1, SameFirst
  <2>3. TableAccess(TableRules(g, kept, closed), user, place) = g[k]
    BY <1>3, <2>1, TableAccessIs
  <2>4. TableAccess(TableRules(h, kept, closed), user, place) = h[k]
    BY <1>3, <2>2, TableAccessIs
  <2>5. QED BY <2>2, <2>3, <2>4
<1>4. QED BY <1>1, <1>2, <1>3

\* An identity's access to queries depends on whether it is granted something, and on no other.
LEMMA SameQueryAccess ==
    ASSUME NEW ids \in SUBSET Identities, IsFiniteSet(ids),
           NEW jds \in SUBSET Identities, IsFiniteSet(jds),
           NEW kept \in Seq(RulesOfQueries), NEW user \in Identities,
           NEW owner \in Identities \cup {Wild}, user = Apchi \/ (user \in ids <=> user \in jds)
    PROVE  QueryAccess(WithPreservedQueries(QueryRules(ids), kept), user, owner)
              = QueryAccess(WithPreservedQueries(QueryRules(jds), kept), user, owner)
<1> DEFINE A(i) == QueryAccess(WithPreservedQueries(QueryRules(i), kept), user, owner)
           e == Decides(kept \o <<EveryoneExecutes>>, ForQuery(user, owner))
<1>1. /\ user = Apchi => A(ids) = {"execute", "view", "kill"}
      /\ user # Apchi /\ user \in ids /\ owner = user => A(ids) = {"view", "kill"}
      /\ user # Apchi /\ ~(user \in ids /\ owner = user) => A(ids) = e
  BY QueryAccessIs
<1>2. /\ user = Apchi => A(jds) = {"execute", "view", "kill"}
      /\ user # Apchi /\ user \in jds /\ owner = user => A(jds) = {"view", "kill"}
      /\ user # Apchi /\ ~(user \in jds /\ owner = user) => A(jds) = e
  BY QueryAccessIs
<1> HIDE DEF A, e
<1>3. A(ids) = A(jds)
  BY <1>1, <1>2
<1>4. QED BY <1>3 DEF A

\* A step that leaves the posture changes access only where a touched grant applies: it leaves
\* what is preserved.
LEMMA EditTouches ==
    ASSUME PermissionsInv, PermissionsInv', PermissionsNext, enforced' = enforced
    PROVE  SameBut(File, File', Touched)
<1> DEFINE g == grants
           h == grants'
           kt == preserved.tables
           kq == preserved.queries
           touched == Touched
<1>1. preserved' = preserved
  BY DEF PermissionsNext, AddGrant, SetPrivileges, DeleteGrant, EnforcePermissions
<1>2. /\ File.tables = TableRules(g, kt, enforced)
      /\ File.queries = WithPreservedQueries(QueryRules(Granted(g)), kq)
      /\ File'.tables = TableRules(h, kt, enforced)
      /\ File'.queries = WithPreservedQueries(QueryRules(Granted(h)), kq)
  BY <1>1 DEF File, Rendered
<1>3. /\ g \in GrantSets /\ IsFiniteSet(DOMAIN g) /\ h \in GrantSets /\ IsFiniteSet(DOMAIN h)
      /\ enforced \in BOOLEAN /\ kt \in Seq(RulesOfTables) /\ kq \in Seq(RulesOfQueries)
  BY DEF PermissionsInv, PermissionsTypeOK
<1>4. \A k \in Keys : k \notin touched =>
         (k \in DOMAIN g <=> k \in DOMAIN h) /\ (k \in DOMAIN g => g[k] = h[k])
  BY DEF Touched
<1>5. DOMAIN g \subseteq Keys /\ DOMAIN h \subseteq Keys
  BY <1>3 DEF GrantSets
<1> DEFINE before == File
           after == File'
<1> HIDE DEF g, h, kt, kq, touched, before, after
<1>6. ASSUME NEW u \in Identities, NEW p \in Places, ~\E k \in touched : Covers(k, u, p)
      PROVE  TableAccess(after.tables, u, p) = TableAccess(before.tables, u, p)
  <2>1. AgreeAt(g, h, u, p)
    BY <1>4, <1>6 DEF AgreeAt
  <2>2. QED BY <1>2, <1>3, <2>1, SameTableAccess DEF before, after
<1>7. ASSUME NEW u \in Identities, NEW o \in Identities \cup {Wild}, ~\E k \in touched : k[1] = u
      PROVE  QueryAccess(after.queries, u, o) = QueryAccess(before.queries, u, o)
  <2>1. u \in Granted(g) <=> u \in Granted(h)
    BY <1>4, <1>5, <1>7 DEF Granted
  <2>2. /\ Granted(g) \in SUBSET Identities /\ IsFiniteSet(Granted(g))
        /\ Granted(h) \in SUBSET Identities /\ IsFiniteSet(Granted(h))
    BY <1>3, GrantedAre
  <2>3. QED BY <1>2, <1>3, <2>1, <2>2, SameQueryAccess DEF before, after
<1>8. SameBut(before, after, touched)
  BY <1>6, <1>7 DEF SameBut
<1>9. QED BY <1>8 DEF before, after, touched

\* Staging, changing or removing a grant changes the access of its identity alone, and to tables
\* only where the grant applies, for any grants around it.
THEOREM EditTouchesOnlyItsPlaceAlways == PermissionsSpec => EditTouchesOnlyItsPlace
<1>1. PermissionsInv /\ PermissionsInv' /\ [PermissionsNext]_permissionsVars =>
        [grants' # grants /\ enforced' = enforced =>
           \A before \in {File}, after \in {File'} : SameBut(before, after, Touched)]_permissionsVars
  <2> SUFFICES ASSUME PermissionsInv, PermissionsInv', [PermissionsNext]_permissionsVars,
                      grants' # grants, enforced' = enforced
               PROVE  \A before \in {File}, after \in {File'} : SameBut(before, after, Touched)
    OBVIOUS
  <2>1. PermissionsNext
    BY DEF permissionsVars
  <2>2. SameBut(File, File', Touched)
    BY <2>1, EditTouches
  <2>3. QED BY <2>2
<1>2. QED BY <1>1, PermissionsInvariant, PTL DEF PermissionsSpec, EditTouchesOnlyItsPlace

-----------------------------------------------------------------------------
(* Reading back what was written. *)

\* A list put together from three: where each element came from.
IsParts(s, a, k, e) ==
    /\ Len(s) = Len(a) + Len(k) + Len(e)
    /\ \A i \in 1..Len(a) : s[i] = a[i]
    /\ \A i \in 1..Len(k) : s[Len(a) + i] = k[i]
    /\ \A i \in 1..Len(e) : s[Len(a) + Len(k) + i] = e[i]

\* A list put together from three has their elements.
LEMMA Parts ==
    ASSUME NEW V, NEW a \in Seq(V), NEW k \in Seq(V), NEW e \in Seq(V)
    PROVE  a \o k \o e \in Seq(V) /\ IsParts(a \o k \o e, a, k, e)
<1> DEFINE b == a \o k
           s == b \o e
<1>1. /\ b \in Seq(V) /\ Len(b) = Len(a) + Len(k) /\ Len(a) \in Nat /\ Len(k) \in Nat
      /\ \A i \in 1..Len(a) : b[i] = a[i]
      /\ \A i \in 1..Len(k) : b[Len(a) + i] = k[i]
  OBVIOUS
<1> HIDE DEF b
<1>2. /\ s \in Seq(V) /\ Len(s) = Len(b) + Len(e) /\ Len(e) \in Nat
      /\ \A i \in 1..Len(b) : s[i] = b[i]
      /\ \A i \in 1..Len(e) : s[Len(b) + i] = e[i]
  <2>1. b \in Seq(V)
    BY <1>1
  <2>2. QED BY <2>1
<1> HIDE DEF s
<1>3. \A i \in 1..Len(a) : s[i] = a[i]
  BY <1>1, <1>2
<1>4. ASSUME NEW i \in 1..Len(k) PROVE s[Len(a) + i] = k[i]
  <2>1. Len(a) + i \in 1..Len(b)
    BY <1>1
  <2>2. QED BY <1>1, <1>2, <2>1
<1>5. \A i \in 1..Len(e) : s[Len(a) + Len(k) + i] = e[i]
  BY <1>1, <1>2
<1>6. Len(s) = Len(a) + Len(k) + Len(e)
  BY <1>1, <1>2
<1>7. QED BY <1>2, <1>3, <1>4, <1>5, <1>6 DEF IsParts, s, b

\* The element at a place came from one of the three.
FromParts(s, a, k, e, i) ==
    \/ i \in 1..Len(a) /\ s[i] = a[i]
    \/ \E j \in 1..Len(k) : i = Len(a) + j /\ s[i] = k[j]
    \/ \E j \in 1..Len(e) : i = Len(a) + Len(k) + j /\ s[i] = e[j]

\* Each element is in one of the three.
LEMMA PartsAll ==
    ASSUME NEW V, NEW a \in Seq(V), NEW k \in Seq(V), NEW e \in Seq(V), NEW s \in Seq(V),
           IsParts(s, a, k, e), NEW i \in 1..Len(s)
    PROVE  FromParts(s, a, k, e, i)
<1> USE DEF FromParts
<1>1. Len(a) \in Nat /\ Len(k) \in Nat /\ Len(e) \in Nat
  OBVIOUS
<1>2. CASE i <= Len(a)
  BY <1>1, <1>2 DEF IsParts
<1>3. CASE Len(a) < i /\ i <= Len(a) + Len(k)
  <2> DEFINE j == i - Len(a)
  <2>1. j \in 1..Len(k) /\ i = Len(a) + j
    BY <1>1, <1>3
  <2>2. s[i] = k[j]
    BY <2>1 DEF IsParts
  <2>3. QED BY <2>1, <2>2
<1>4. CASE Len(a) + Len(k) < i
  <2> DEFINE j == i - Len(a) - Len(k)
  <2>1. j \in 1..Len(e) /\ i = Len(a) + Len(k) + j
    BY <1>1, <1>4 DEF IsParts
  <2>2. s[i] = e[j]
    BY <2>1 DEF IsParts
  <2>3. QED BY <2>1, <2>2
<1>5. QED BY <1>1, <1>2, <1>3, <1>4

\* Two lists that decide alike for whom the rules in X are for.
Alike(t, k, X) == (Hit(t, X) <=> Hit(k, X)) /\ Decides(t, X) = Decides(k, X)

\* What is picked from the middle decides like the middle, if it leaves out nothing that matches.
LEMMA MiddleDecides ==
    ASSUME NEW V, NEW a \in Seq(V), NEW k \in Seq(V), NEW e \in Seq(V), NEW s \in Seq(V),
           IsParts(s, a, k, e), NEW X, NEW P \in SUBSET (1..Len(s)),
           \A i \in P : \E j \in 1..Len(k) : i = Len(a) + j,
           \A j \in 1..Len(k) : Len(a) + j \in P \/ k[j] \notin X
    PROVE  Alike(Picked(s, P), k, X)
<1>1. Len(a) \in Nat /\ Len(k) \in Nat /\ \A j \in 1..Len(k) : s[Len(a) + j] = k[j]
  BY DEF IsParts
<1>2. /\ \A i \in P : s[i] \in X /\ (\A j \in P : j < i => s[j] \notin X) =>
            Hit(Picked(s, P), X) /\ Decides(Picked(s, P), X) = s[i].allow
      /\ (\A i \in P : s[i] \notin X) => ~Hit(Picked(s, P), X)
  BY PickedDecides
<1>3. CASE Hit(k, X)
  <2>1. PICK i : IsFirst(k, X, i) /\ Decides(k, X) = k[i].allow
    BY <1>1, <1>3, HasFirst
  <2>2. i \in 1..Len(k) /\ k[i] \in X /\ \A j \in 1..Len(k) : j < i => k[j] \notin X
    BY <2>1 DEF IsFirst
  <2> DEFINE n == Len(a) + i
  <2>3. n \in P /\ s[n] = k[i] /\ s[n] \in X
    BY <1>1, <2>2
  <2>4. ASSUME NEW m \in P, m < n PROVE s[m] \notin X
    <3>1. PICK j \in 1..Len(k) : m = Len(a) + j
      OBVIOUS
    <3>2. j < i
      BY <1>1, <2>2, <2>4, <3>1
    <3>3. QED BY <1>1, <2>2, <3>1, <3>2
  <2> HIDE DEF n
  <2>5. Hit(Picked(s, P), X) /\ Decides(Picked(s, P), X) = s[n].allow
    BY <1>2, <2>3, <2>4
  <2>6. QED BY <1>3, <2>1, <2>3, <2>5 DEF Alike
<1>4. CASE ~Hit(k, X)
  <2>1. ASSUME NEW i \in P PROVE s[i] \notin X
    BY <1>1, <1>4 DEF Hit
  <2>2. ~Hit(Picked(s, P), X)
    BY <1>2, <2>1
  <2>3. QED BY <1>4, <2>2, NoneDecides DEF Alike
<1>5. QED BY <1>3, <1>4

\* And whatever follows is asked alike.
LEMMA AlikeBefore ==
    ASSUME NEW V, NEW t \in Seq(V), NEW k \in Seq(V), NEW e \in Seq(V), NEW X, Alike(t, k, X)
    PROVE  Decides(t \o e, X) = Decides(k \o e, X)
<1>1. Asks(t \o e, t, e, X) /\ Asks(k \o e, k, e, X)
  BY Concatenated
<1>2. QED BY <1>1 DEF Asks, Alike

\* A grant and the rule it is written as, in the file.
WrittenGrants(g) == {GrantRule(k, g[k]) : k \in DOMAIN g}

\* The elements of a list are these.
Holds(a, W) ==
    /\ \A i \in 1..Len(a) : a[i] \in W
    /\ \A r \in W : \E i \in 1..Len(a) : a[i] = r

\* The rules above the preserved ones are Apchi's own and the grants'.
LEMMA TableParts ==
    ASSUME NEW g \in GrantSets, IsFiniteSet(DOMAIN g), NEW kept \in Seq(RulesOfTables),
           NEW closed \in BOOLEAN
    PROVE  \E a \in Seq(RulesOfTables) :
              /\ TableRules(g, kept, closed) \in Seq(RulesOfTables)
              /\ IsParts(TableRules(g, kept, closed), a, kept, Closing(closed))
              /\ Holds(a, {ReservedTableRule} \cup WrittenGrants(g))
<1> DEFINE q == SortedGrants(g)
           a == <<ReservedTableRule>> \o q
           W == {ReservedTableRule} \cup WrittenGrants(g)
<1>1. InOrder(q, g)
  BY GrantsInOrder
<1>2. /\ q \in Seq(RulesOfTables) /\ Len(q) \in Nat
      /\ \A i \in 1..Len(q) : q[i].at \in DOMAIN g /\ q[i] = GrantRule(q[i].at, g[q[i].at])
      /\ \A k \in DOMAIN g : \E i \in 1..Len(q) : q[i].at = k
  BY <1>1 DEF InOrder
<1>3. TableRules(g, kept, closed) = a \o kept \o Closing(closed)
  BY DEF TableRules, Closing
<1> HIDE DEF q
<1>4. /\ a \in Seq(RulesOfTables) /\ Len(a) = Len(q) + 1 /\ a[1] = ReservedTableRule
      /\ \A i \in 1..Len(q) : a[i + 1] = q[i]
  BY <1>2, OwnRules
<1>5. Closing(closed) \in Seq(RulesOfTables)
  BY OwnRules DEF Closing
<1> HIDE DEF a
<1>6. /\ TableRules(g, kept, closed) \in Seq(RulesOfTables)
      /\ IsParts(TableRules(g, kept, closed), a, kept, Closing(closed))
  BY <1>3, <1>4, <1>5, Parts
<1>7. ASSUME NEW i \in 1..Len(a) PROVE a[i] \in W
  <2>1. CASE i = 1
    BY <1>4, <2>1
  <2>2. CASE i # 1
    <3> DEFINE j == i - 1
    <3>1. j \in 1..Len(q) /\ i = j + 1
      BY <1>2, <1>4, <2>2
    <3>2. a[i] = q[j]
      BY <1>4, <3>1
    <3>3. QED BY <1>2, <3>1, <3>2 DEF WrittenGrants
  <2>3. QED BY <2>1, <2>2
<1>8. ASSUME NEW r \in W PROVE \E i \in 1..Len(a) : a[i] = r
  <2>1. CASE r = ReservedTableRule
    BY <1>2, <1>4, <2>1
  <2>2. CASE r \in WrittenGrants(g)
    <3>1. PICK k \in DOMAIN g : r = GrantRule(k, g[k])
      BY <2>2 DEF WrittenGrants
    <3>2. PICK j \in 1..Len(q) : q[j].at = k
      BY <1>2
    <3>3. q[j] = GrantRule(q[j].at, g[q[j].at])
      BY <1>2
    <3>4. q[j] = r
      BY <3>1, <3>2, <3>3
    <3>5. j + 1 \in 1..Len(a) /\ a[j + 1] = q[j]
      BY <1>2, <1>4
    <3>6. QED BY <3>4, <3>5
  <2>3. QED BY <2>1, <2>2
<1>9. Holds(a, W)
  BY <1>7, <1>8 DEF Holds
<1>10. QED BY <1>4, <1>6, <1>9

\* Rules that are none of Apchi's and would not be read as grants.
AreOther(kept) ==
    \A i \in DOMAIN kept : ~IsGrant(kept[i]) /\ kept[i] \notin {ReservedTableRule, CatchAll}

\* A written grant is read as one.
LEMMA WrittenAreGrants ==
    ASSUME NEW g \in GrantSets, NEW r \in WrittenGrants(g)
    PROVE  r.at \in DOMAIN g /\ r.at \in Keys /\ r.allow = g[r.at] /\ IsGrant(r) /\ r # CatchAll
<1>1. PICK k \in DOMAIN g : r = GrantRule(k, g[k])
  BY DEF WrittenGrants
<1>2. k \in Keys /\ g[k] # {}
  BY DEF GrantSets
<1>3. r.at = k /\ r.allow = g[k]
  BY <1>1 DEF GrantRule
<1>4. IsGrant(r)
  BY <1>2, <1>3 DEF IsGrant
<1>5. r # CatchAll
  BY <1>4, OwnRules
<1>6. QED BY <1>2, <1>3, <1>4, <1>5

\* The grants that are read from a file are the ones it was written from, but for one that
\* says what Apchi's own rule says; the posture is the one it was written with; and what is
\* preserved decides like what was.
LEMMA TablesReadBack ==
    ASSUME NEW g \in GrantSets, IsFiniteSet(DOMAIN g), NEW kept \in Seq(RulesOfTables),
           AreOther(kept), NEW closed \in BOOLEAN
    PROVE  LET s == TableRules(g, kept, closed)
           IN  /\ DOMAIN ReadGrants(s) = {k \in DOMAIN g : GrantRule(k, g[k]) # ReservedTableRule}
               /\ \A k \in DOMAIN ReadGrants(s) : ReadGrants(s)[k] = g[k]
               /\ (CatchAll \notin Range(s)) = closed
               /\ \A X : Alike(OtherTables(s), kept, X)
<1> DEFINE s == TableRules(g, kept, closed)
           e == Closing(closed)
           own == {ReservedTableRule} \cup WrittenGrants(g)
<1>0. PICK a \in Seq(RulesOfTables) :
         s \in Seq(RulesOfTables) /\ IsParts(s, a, kept, e) /\ Holds(a, own)
  BY TableParts
<1>1. /\ s \in Seq(RulesOfTables) /\ IsParts(s, a, kept, e)
      /\ \A i \in 1..Len(a) : a[i] \in own
      /\ \A r \in own : \E i \in 1..Len(a) : a[i] = r
  BY <1>0 DEF Holds
<1>2. e \in Seq(RulesOfTables) /\ \A j \in 1..Len(e) : ~closed /\ e[j] = CatchAll
  BY OwnRules DEF Closing
<1>3. ~closed => Len(e) = 1 /\ e[1] = CatchAll
  BY DEF Closing
<1> HIDE DEF s, e
<1>4. \A i \in 1..Len(s) :
         \/ i \in 1..Len(a) /\ s[i] = a[i]
         \/ \E j \in 1..Len(kept) : i = Len(a) + j /\ s[i] = kept[j]
         \/ \E j \in 1..Len(e) : i = Len(a) + Len(kept) + j /\ s[i] = e[j]
  <2>1. s \in Seq(RulesOfTables) /\ IsParts(s, a, kept, e) /\ e \in Seq(RulesOfTables)
    BY <1>1, <1>2
  <2>2. \A i \in 1..Len(s) : FromParts(s, a, kept, e, i)
    BY <2>1, PartsAll
  <2>3. QED BY <2>2 DEF FromParts
<1>5. /\ DOMAIN s = 1..Len(s) /\ Len(a) \in Nat /\ Len(kept) \in Nat /\ Len(e) \in Nat
      /\ DOMAIN kept = 1..Len(kept) /\ Len(s) \in Nat /\ Len(s) = Len(a) + Len(kept) + Len(e)
  BY <1>1, <1>2 DEF IsParts
<1>6. \A r \in own : (r = ReservedTableRule \/ IsGrant(r)) /\ r # CatchAll
  BY WrittenAreGrants, OwnRules
<1>7. \A j \in 1..Len(kept) : ~IsGrant(kept[j]) /\ kept[j] \notin {ReservedTableRule, CatchAll}
  BY <1>5 DEF AreOther
<1>8. ASSUME NEW i \in 1..Len(s), IsGrant(s[i]), s[i] # ReservedTableRule
      PROVE  s[i] \in WrittenGrants(g)
  <2>1. s[i] # CatchAll
    BY <1>8, OwnRules
  <2>2. i \in 1..Len(a) /\ s[i] = a[i]
    BY <1>2, <1>4, <1>7, <1>8, <2>1
  <2>3. QED BY <1>1, <1>8, <2>2
<1>9. ASSUME NEW r \in own PROVE \E i \in DOMAIN s : s[i] = r
  <2>1. PICK i \in 1..Len(a) : a[i] = r
    BY <1>1
  <2>2. i \in 1..Len(s) /\ s[i] = a[i]
    BY <1>1, <1>5 DEF IsParts
  <2>3. QED BY <1>5, <2>1, <2>2
<1>10. DOMAIN ReadGrants(s) = {k \in DOMAIN g : GrantRule(k, g[k]) # ReservedTableRule}
  <2>1. DOMAIN ReadGrants(s) = {s[i].at : i \in ReadPlaces(s)}
    BY <1>1, LatestIsRead
  <2>2. ASSUME NEW i \in ReadPlaces(s)
        PROVE  s[i].at \in DOMAIN g /\ GrantRule(s[i].at, g[s[i].at]) # ReservedTableRule
    <3>1. s[i] \in WrittenGrants(g) /\ s[i] # ReservedTableRule
      BY <1>5, <1>8, <2>2 DEF ReadPlaces
    <3>2. PICK k \in DOMAIN g : s[i] = GrantRule(k, g[k])
      BY <3>1 DEF WrittenGrants
    <3>3. s[i].at = k
      BY <3>2 DEF GrantRule
    <3>4. QED BY <3>1, <3>2, <3>3
  <2>3. ASSUME NEW k \in DOMAIN g, GrantRule(k, g[k]) # ReservedTableRule
        PROVE  \E i \in ReadPlaces(s) : s[i].at = k
    <3>1. GrantRule(k, g[k]) \in WrittenGrants(g)
      BY DEF WrittenGrants
    <3>2. PICK i \in DOMAIN s : s[i] = GrantRule(k, g[k])
      BY <1>9, <3>1
    <3>3. IsGrant(s[i]) /\ s[i].at = k
      BY <3>1, <3>2, WrittenAreGrants DEF GrantRule
    <3>4. QED BY <2>3, <3>2, <3>3 DEF ReadPlaces
  <2>4. QED BY <2>1, <2>2, <2>3
<1>11. ASSUME NEW k \in DOMAIN ReadGrants(s) PROVE ReadGrants(s)[k] = g[k]
  <2>0. s \in Seq(RulesOfTables)
    BY <1>1
  <2>1. PICK i : IsLatest(s, k, i)
    BY <2>0, LatestIsRead
  <2>2. ReadGrants(s)[k] = s[i].allow
    BY <2>0, <2>1, LatestIsRead
  <2>3. i \in DOMAIN s /\ IsGrant(s[i]) /\ s[i] # ReservedTableRule /\ s[i].at = k
    BY <2>1 DEF IsLatest, ReadPlaces
  <2>4. s[i] \in WrittenGrants(g)
    BY <1>5, <1>8, <2>3
  <2>5. QED BY <2>2, <2>3, <2>4, WrittenAreGrants
<1>12. (CatchAll \notin Range(s)) = closed
  <2>1. ASSUME ~closed PROVE CatchAll \in Range(s)
    <3> DEFINE i == Len(a) + Len(kept) + 1
    <3>0. Len(e) = 1 /\ e[1] = CatchAll
      BY <1>3, <2>1
    <3>1. i \in DOMAIN s
      BY <1>5, <3>0
    <3>2. s[i] = e[1]
      BY <1>1, <3>0 DEF IsParts
    <3>3. QED BY <3>0, <3>1, <3>2 DEF Range
  <2>2. ASSUME CatchAll \in Range(s) PROVE ~closed
    <3>1. PICK i \in 1..Len(s) : s[i] = CatchAll
      BY <1>5, <2>2 DEF Range
    <3>2. QED BY <1>1, <1>2, <1>4, <1>6, <1>7, <3>1
  <2>3. QED BY <2>1, <2>2
<1>13. ASSUME NEW X PROVE Alike(OtherTables(s), kept, X)
  <2> DEFINE P == OtherPlaces(s)
  <2>1. OtherTables(s) = Picked(s, P) /\ P \in SUBSET (1..Len(s))
    BY <1>5 DEF OtherTables, OtherPlaces
  <2>2. ASSUME NEW i \in P PROVE \E j \in 1..Len(kept) : i = Len(a) + j
    <3>1. i \in 1..Len(s) /\ ~IsGrant(s[i]) /\ s[i] \notin {ReservedTableRule, CatchAll}
      BY <1>5 DEF OtherPlaces
    <3>2. QED BY <1>1, <1>2, <1>4, <1>6, <3>1
  <2>3. ASSUME NEW j \in 1..Len(kept) PROVE Len(a) + j \in P
    <3>1. Len(a) + j \in DOMAIN s /\ s[Len(a) + j] = kept[j]
      BY <1>1, <1>5 DEF IsParts
    <3>2. QED BY <1>7, <3>1 DEF OtherPlaces
  <2> HIDE DEF P
  <2>4. Alike(Picked(s, P), kept, X)
    BY <1>1, <1>2, <2>1, <2>2, <2>3, MiddleDecides
  <2>5. QED BY <2>1, <2>4
<1>14. QED BY <1>10, <1>11, <1>12, <1>13 DEF s

\* The rules on queries that are written for some identities, but for the last.
QueriesOf(ids) == {ApchisQueries} \cup {OwnQueries(u) : u \in ids \ {Apchi}}

\* The rules above the preserved ones are these, and the ones that are generated are these and
\* the last.
LEMMA QueryParts ==
    ASSUME NEW ids \in SUBSET Identities, IsFiniteSet(ids), NEW kept \in Seq(RulesOfQueries)
    PROVE  \E a \in Seq(RulesOfQueries) :
              /\ WithPreservedQueries(QueryRules(ids), kept) \in Seq(RulesOfQueries)
              /\ IsParts(WithPreservedQueries(QueryRules(ids), kept), a, kept, <<EveryoneExecutes>>)
              /\ Holds(a, QueriesOf(ids))
              /\ Range(QueryRules(ids)) = QueriesOf(ids) \cup {EveryoneExecutes}
<1> DEFINE gen == QueryRules(ids)
           end == <<EveryoneExecutes>>
           s == WithPreservedQueries(gen, kept)
           W == QueriesOf(ids)
<1>1. PICK mid : /\ IsMiddle(mid, ids)
                 /\ gen = <<ApchisQueries>> \o mid \o <<EveryoneExecutes>>
                 /\ Front(gen) = <<ApchisQueries>> \o mid
                 /\ Last(gen) = EveryoneExecutes
  BY QueryRulesAre
<1> DEFINE a == <<ApchisQueries>> \o mid
<1>2. s = a \o kept \o end /\ gen = a \o end
  BY <1>1 DEF WithPreservedQueries
<1>3. mid \in Seq(RulesOfQueries) /\ Len(mid) \in Nat
  BY <1>1 DEF IsMiddle
<1>4. /\ a \in Seq(RulesOfQueries) /\ Len(a) = Len(mid) + 1 /\ a[1] = ApchisQueries
      /\ \A i \in 1..Len(mid) : a[i + 1] = mid[i]
  BY <1>3, OwnQueryRules
<1>5. end \in Seq(RulesOfQueries) /\ Len(end) = 1 /\ end[1] = EveryoneExecutes
  BY OwnQueryRules
<1> HIDE DEF a, end, s, gen
<1>6. s \in Seq(RulesOfQueries) /\ IsParts(s, a, kept, end)
  BY <1>2, <1>4, <1>5, Parts
<1>7. ASSUME NEW i \in 1..Len(a) PROVE a[i] \in W
  <2>1. CASE i = 1
    BY <1>4, <2>1 DEF QueriesOf
  <2>2. CASE i # 1
    <3> DEFINE j == i - 1
    <3>1. j \in 1..Len(mid) /\ i = j + 1
      BY <1>3, <1>4, <2>2
    <3>2. a[i] = mid[j]
      BY <1>4, <3>1
    <3>3. QED BY <1>1, <3>1, <3>2 DEF IsMiddle, QueriesOf
  <2>3. QED BY <2>1, <2>2
<1>8. ASSUME NEW r \in W PROVE \E i \in 1..Len(a) : a[i] = r
  <2>1. CASE r = ApchisQueries
    BY <1>3, <1>4, <2>1
  <2>2. CASE \E u \in ids \ {Apchi} : r = OwnQueries(u)
    <3>1. PICK j \in 1..Len(mid) : mid[j] = r
      BY <1>1, <2>2 DEF IsMiddle
    <3>2. j + 1 \in 1..Len(a) /\ a[j + 1] = mid[j]
      BY <1>3, <1>4
    <3>3. QED BY <3>1, <3>2
  <2>3. QED BY <2>1, <2>2 DEF QueriesOf
<1>9. Holds(a, W)
  BY <1>7, <1>8 DEF Holds
<1>10. Range(gen) = W \cup {EveryoneExecutes}
  <2>1. /\ DOMAIN gen = 1..(Len(a) + 1) /\ gen[Len(a) + 1] = EveryoneExecutes
        /\ Len(a) \in Nat /\ \A i \in 1..Len(a) : gen[i] = a[i]
    <3>1. a \in Seq(RulesOfQueries) /\ end \in Seq(RulesOfQueries) /\ Len(a) \in Nat
      BY <1>4, <1>5
    <3>2. DOMAIN (a \o end) = 1..(Len(a) + Len(end)) /\ \A i \in 1..Len(a) : (a \o end)[i] = a[i]
      BY <3>1
    <3>3. \A i \in 1..Len(end) : (a \o end)[Len(a) + i] = end[i]
      BY <3>1
    <3>4. QED BY <1>2, <1>5, <3>1, <3>2, <3>3
  <2>2. ASSUME NEW i \in DOMAIN gen PROVE gen[i] \in W \cup {EveryoneExecutes}
    <3>1. CASE i \in 1..Len(a)
      BY <1>7, <2>1, <3>1
    <3>2. CASE i \notin 1..Len(a)
      <4>1. i = Len(a) + 1
        BY <2>1, <3>2
      <4>2. QED BY <2>1, <4>1
    <3>3. QED BY <3>1, <3>2
  <2>3. ASSUME NEW r \in W PROVE \E i \in DOMAIN gen : gen[i] = r
    <3>1. PICK i \in 1..Len(a) : a[i] = r
      BY <1>8
    <3>2. i \in DOMAIN gen /\ gen[i] = r
      BY <2>1, <3>1
    <3>3. QED BY <3>2
  <2>4. Len(a) + 1 \in DOMAIN gen
    BY <2>1
  <2>5. QED BY <2>1, <2>2, <2>3, <2>4 DEF Range
<1>11. QED BY <1>4, <1>6, <1>9, <1>10 DEF s, gen, end

\* A preserved rule that is dropped when the file is read back is one that a rule above it has
\* made moot, so what is preserved decides like what was.
LEMMA QueriesReadBack ==
    ASSUME NEW ids \in SUBSET Identities, IsFiniteSet(ids),
           NEW jds \in SUBSET Identities, IsFiniteSet(jds), ids \ {Apchi} = jds \ {Apchi},
           NEW kept \in Seq(RulesOfQueries), \A i \in DOMAIN kept : kept[i] # EveryoneExecutes,
           NEW user \in Identities \ {Apchi}, NEW owner \in Identities \cup {Wild},
           ~(user \in ids /\ owner = user)
    PROVE  Alike(OtherQueries(WithPreservedQueries(QueryRules(ids), kept), QueryRules(jds)),
                 kept, ForQuery(user, owner))
<1> DEFINE s == WithPreservedQueries(QueryRules(ids), kept)
           gen == QueryRules(jds)
           end == <<EveryoneExecutes>>
           X == ForQuery(user, owner)
           P == OtherQueryPlaces(s, gen)
<1>1. PICK a \in Seq(RulesOfQueries) :
         s \in Seq(RulesOfQueries) /\ IsParts(s, a, kept, end) /\ Holds(a, QueriesOf(ids))
  BY QueryParts
<1>2. Range(gen) = QueriesOf(ids) \cup {EveryoneExecutes}
  <2>1. Range(gen) = QueriesOf(jds) \cup {EveryoneExecutes}
    BY QueryParts
  <2>2. QueriesOf(jds) = QueriesOf(ids)
    BY DEF QueriesOf
  <2>3. QED BY <2>1, <2>2
<1>3. end \in Seq(RulesOfQueries) /\ Len(end) = 1 /\ end[1] = EveryoneExecutes
  BY OwnQueryRules
<1>4. \A r \in QueriesOf(ids) : r \notin X
  <2>1. ApchisQueries \notin X
    BY OwnQueryRules DEF ApchisQueries, ForQuery, Identities
  <2>2. ASSUME NEW u \in ids \ {Apchi}, OwnQueries(u) \in X PROVE FALSE
    <3>1. u \in {Wild, user} /\ u \in {Wild, owner} /\ u # Wild
      BY <2>2, OwnQueryRules DEF OwnQueries, ForQuery
    <3>2. QED BY <3>1
  <2>3. QED BY <2>1, <2>2 DEF QueriesOf
<1> HIDE DEF s, gen, end, X
<1>5. DOMAIN s = 1..Len(s) /\ DOMAIN kept = 1..Len(kept) /\ Len(s) \in Nat /\ Len(a) \in Nat
      /\ Len(kept) \in Nat /\ Len(s) = Len(a) + Len(kept) + Len(end)
  BY <1>1 DEF IsParts
<1>6. P \in SUBSET (1..Len(s)) /\ OtherQueries(s, gen) = Picked(s, P)
  BY <1>5 DEF OtherQueryPlaces, OtherQueries
<1>7. ASSUME NEW i \in P PROVE \E j \in 1..Len(kept) : i = Len(a) + j
  <2>1. i \in 1..Len(s) /\ s[i] \notin QueriesOf(ids) /\ s[i] # EveryoneExecutes
    BY <1>2, <1>5 DEF OtherQueryPlaces
  <2>2. FromParts(s, a, kept, end, i)
    BY <1>1, <1>3, <2>1, PartsAll
  <2>3. ~(i \in 1..Len(a) /\ s[i] = a[i])
    BY <1>1, <2>1 DEF Holds
  <2>4. ~\E j \in 1..Len(end) : s[i] = end[j]
    BY <1>3, <2>1
  <2>5. QED BY <2>2, <2>3, <2>4 DEF FromParts
<1>8. ASSUME NEW j \in 1..Len(kept) PROVE Len(a) + j \in P \/ kept[j] \notin X
  <2>1. Len(a) + j \in DOMAIN s /\ s[Len(a) + j] = kept[j] /\ kept[j] # EveryoneExecutes
    <3>1. s[Len(a) + j] = kept[j]
      BY <1>1 DEF IsParts
    <3>2. Len(a) + j \in DOMAIN s
      BY <1>3, <1>5
    <3>3. QED BY <1>5, <3>1, <3>2
  <2>2. CASE kept[j] \in QueriesOf(ids)
    BY <1>4, <2>2
  <2>3. CASE kept[j] \notin QueriesOf(ids)
    BY <1>2, <2>1, <2>3 DEF OtherQueryPlaces
  <2>4. QED BY <2>2, <2>3
<1> HIDE DEF P
<1>9. Alike(Picked(s, P), kept, X)
  BY <1>1, <1>3, <1>6, <1>7, <1>8, MiddleDecides
<1>10. QED BY <1>6, <1>9 DEF s, gen, X

\* The file that is written from what was read gives everyone what the one that was read gives.
LEMMA ReadBack == PermissionsInv => ReadBackMeansTheSame
<1> SUFFICES ASSUME PermissionsInv PROVE ReadBackMeansTheSame
  OBVIOUS
<1> DEFINE g == grants
           kt == preserved.tables
           kq == preserved.queries
           s == TableRules(g, kt, enforced)
           w == WithPreservedQueries(QueryRules(Granted(g)), kq)
           h == ReadGrants(s)
           jt == OtherTables(s)
           jq == OtherQueries(w, QueryRules(Granted(h)))
           again == Rendered(h, enforced, [tables |-> jt, queries |-> jq])
           ids == Granted(g)
           jds == Granted(h)
<1>1. /\ File.tables = s /\ File.queries = w
      /\ g \in GrantSets /\ IsFiniteSet(DOMAIN g) /\ enforced \in BOOLEAN
      /\ kt \in Seq(RulesOfTables) /\ kq \in Seq(RulesOfQueries)
      /\ ids \in SUBSET Identities /\ IsFiniteSet(ids)
  BY FileIs
<1>2. AreOther(kt) /\ \A i \in DOMAIN kq : kq[i] # EveryoneExecutes
  BY DEF PermissionsInv, KeptIsOther, AreOther
<1> HIDE DEF g, kt, kq
<1>3. /\ DOMAIN h = {k \in DOMAIN g : GrantRule(k, g[k]) # ReservedTableRule}
      /\ \A k \in DOMAIN h : h[k] = g[k]
      /\ (CatchAll \notin Range(s)) = enforced
      /\ \A X : Alike(jt, kt, X)
  BY <1>1, <1>2, TablesReadBack
<1>4. Parsed(File) = [grants |-> h, enforced |-> enforced,
                      preserved |-> [tables |-> jt, queries |-> jq]]
  BY <1>1, <1>3 DEF Parsed
<1>5. s \in Seq(RulesOfTables)
  BY <1>1, TableAccessIs
<1>6. w \in Seq(RulesOfQueries)
  BY <1>1, QueryParts
<1>7. h \in GrantSets /\ IsFiniteSet(DOMAIN h)
  BY <1>5, GrantsAreRead
<1> HIDE DEF s, w, h
<1>8. jds \in SUBSET Identities /\ IsFiniteSet(jds)
  BY <1>7, GrantedAre
<1>9. jt \in Seq(RulesOfTables) /\ jq \in Seq(RulesOfQueries)
  BY <1>5, <1>6, <1>8, OthersAreKept
<1> HIDE DEF jt, jq
<1>10. again.tables = TableRules(h, jt, enforced)
       /\ again.queries = WithPreservedQueries(QueryRules(jds), jq)
  BY DEF Rendered
<1>11. ids \ {Apchi} = jds \ {Apchi}
  <2>1. \A k \in DOMAIN g : k[1] # Apchi => GrantRule(k, g[k]) # ReservedTableRule
    <3>1. ReservedTableRule.at[1] = Apchi /\ \A k : GrantRule(k, g[k]).at = k
      BY DEF ReservedTableRule, GrantRule
    <3>2. QED BY <3>1
  <2>2. QED BY <1>3, <2>1 DEF Granted
<1>12. ASSUME NEW u \in Identities, NEW p \in Places
       PROVE  TableAccess(again.tables, u, p) = TableAccess(s, u, p)
  <2>1. CASE Covers(ReservedTableRule.at, u, p)
    <3>1. TableAccess(s, u, p) = {Select}
      BY <1>1, <2>1, TableAccessIs DEF s
    <3>2. TableAccess(again.tables, u, p) = {Select}
      BY <1>1, <1>7, <1>9, <1>10, <2>1, TableAccessIs
    <3>3. QED BY <3>1, <3>2
  <2>2. CASE ~Covers(ReservedTableRule.at, u, p)
    <3>1. AgreeAt(g, h, u, p)
      <4>1. ASSUME NEW k \in DOMAIN g, Covers(k, u, p) PROVE GrantRule(k, g[k]) # ReservedTableRule
        BY <2>2, <4>1 DEF GrantRule
      <4>2. QED BY <1>3, <4>1 DEF AgreeAt
    <3>2. TableAccess(again.tables, u, p) = TableAccess(TableRules(g, jt, enforced), u, p)
      BY <1>1, <1>7, <1>9, <1>10, <3>1, SameTableAccess
    <3>3. CASE Reached(g, u, p)
      <4>1. PICK k : FirstGrant(g, u, p, k)
        BY <1>1, <3>3, GrantsDecide
      <4>2. TableAccess(TableRules(g, jt, enforced), u, p) = g[k]
        BY <1>1, <1>9, <2>2, <4>1, TableAccessIs
      <4>3. TableAccess(s, u, p) = g[k]
        BY <1>1, <2>2, <4>1, TableAccessIs DEF s
      <4>4. QED BY <3>2, <4>2, <4>3
    <3>4. CASE ~Reached(g, u, p)
      <4> DEFINE X == ForTable(u, p)
      <4>1. TableAccess(TableRules(g, jt, enforced), u, p) = Decides(jt \o Closing(enforced), X)
        BY <1>1, <1>9, <2>2, <3>4, TableAccessIs
      <4>2. TableAccess(s, u, p) = Decides(kt \o Closing(enforced), X)
        BY <1>1, <2>2, <3>4, TableAccessIs DEF s
      <4>3. Closing(enforced) \in Seq(RulesOfTables) /\ Alike(jt, kt, X)
        BY <1>3, OwnRules DEF Closing
      <4> HIDE DEF X
      <4>4. Decides(jt \o Closing(enforced), X) = Decides(kt \o Closing(enforced), X)
        BY <1>1, <1>9, <4>3, AlikeBefore
      <4>5. QED BY <3>2, <4>1, <4>2, <4>4
    <3>5. QED BY <3>3, <3>4
  <2>3. QED BY <2>1, <2>2
<1>13. ASSUME NEW u \in Identities, NEW o \in Identities \cup {Wild}
       PROVE  QueryAccess(again.queries, u, o) = QueryAccess(w, u, o)
  <2>1. u = Apchi \/ (u \in ids <=> u \in jds)
    BY <1>11
  <2>2. QueryAccess(again.queries, u, o)
           = QueryAccess(WithPreservedQueries(QueryRules(ids), jq), u, o)
    BY <1>1, <1>8, <1>9, <1>10, <2>1, SameQueryAccess
  <2> DEFINE A(k) == QueryAccess(WithPreservedQueries(QueryRules(ids), k), u, o)
             E(k) == Decides(k \o <<EveryoneExecutes>>, ForQuery(u, o))
             Is(k) == /\ u = Apchi => A(k) = {"execute", "view", "kill"}
                      /\ u # Apchi /\ u \in ids /\ o = u => A(k) = {"view", "kill"}
                      /\ u # Apchi /\ ~(u \in ids /\ o = u) => A(k) = E(k)
  <2>3. Is(jq) /\ Is(kq)
    <3> HIDE DEF ids
    <3>1. Is(jq)
      BY <1>1, <1>9, QueryAccessIs
    <3>2. Is(kq)
      BY <1>1, QueryAccessIs
    <3>3. QED BY <3>1, <3>2
  <2>4. ASSUME u # Apchi, ~(u \in ids /\ o = u) PROVE E(jq) = E(kq)
    <3>1. Alike(jq, kq, ForQuery(u, o))
      <4> HIDE DEF ids, jds
      <4>1. QED BY <1>1, <1>2, <1>8, <1>11, <2>4, QueriesReadBack DEF jq, w, ids, jds
    <3> DEFINE end == <<EveryoneExecutes>>
               X == ForQuery(u, o)
    <3>2. end \in Seq(RulesOfQueries) /\ jq \in Seq(RulesOfQueries) /\ kq \in Seq(RulesOfQueries)
      BY <1>1, <1>9, OwnQueryRules
    <3>3. Alike(jq, kq, X)
      BY <3>1
    <3> HIDE DEF end, X
    <3>4. Decides(jq \o end, X) = Decides(kq \o end, X)
      BY <3>2, <3>3, AlikeBefore
    <3>5. QED BY <3>4 DEF end, X
  <2> HIDE DEF E
  <2>5. A(jq) = A(kq)
    <3> HIDE DEF A
    <3>1. QED BY <2>3, <2>4
  <2>6. QED BY <2>2, <2>5 DEF w
<1>14. QED BY <1>1, <1>4, <1>12, <1>13 DEF ReadBackMeansTheSame

\* Reading back a file that Apchi wrote and writing it again leaves everyone's access as it is,
\* whatever was granted and whatever had been preserved.
THEOREM ReadBackAlways == PermissionsSpec => []ReadBackMeansTheSame
<1>1. PermissionsInv => ReadBackMeansTheSame
  BY ReadBack
<1>2. QED BY <1>1, PermissionsInvariant, PTL

=============================================================================
