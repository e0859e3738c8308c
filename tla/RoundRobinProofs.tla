-------------------------- MODULE RoundRobinProofs --------------------------
(***************************************************************************)
(* What the operators of RoundRobin return, for lists and tables of every  *)
(* size: an order lists every row once, a filter keeps what is wanted and  *)
(* the order of the list, and a merge takes turns.                         *)
(***************************************************************************)
EXTENDS RoundRobin, FiniteSetTheorems, TLAPS

(* ahead is a strict total order of the rows. *)
Orders(ahead, rows) ==
    /\ \A r \in rows : r \notin ahead[r]
    /\ \A r, s, t \in rows : s \in ahead[r] /\ t \in ahead[s] => t \in ahead[r]
    /\ \A r, s \in rows : r = s \/ r \in ahead[s] \/ s \in ahead[r]

(* How many rows are ahead of a row. *)
Place(ahead, rows) == [r \in rows |-> Cardinality(ahead[r] \intersect rows)]

-----------------------------------------------------------------------------
(* What is ahead of a row has fewer rows ahead of it. *)
LEMMA PlaceGrows ==
  ASSUME NEW rows, IsFiniteSet(rows), NEW ahead, Orders(ahead, rows),
         NEW r \in rows, NEW s \in rows, s \in ahead[r]
  PROVE  Place(ahead, rows)[s] < Place(ahead, rows)[r]
<1> DEFINE A(x) == ahead[x] \intersect rows
<1>1. IsFiniteSet(A(r)) /\ Cardinality(A(r)) \in Nat
  BY FS_Subset, FS_CardinalityType
<1>2. A(s) \in SUBSET A(r) /\ A(s) # A(r)
  BY DEF Orders
<1>3. /\ IsFiniteSet(A(s)) /\ Cardinality(A(s)) \in Nat
      /\ Cardinality(A(s)) <= Cardinality(A(r)) /\ Cardinality(A(s)) # Cardinality(A(r))
  <2> HIDE DEF A
  <2> QED BY <1>1, <1>2, FS_Subset, FS_CardinalityType
<1> QED BY <1>1, <1>3 DEF Place

(* Every place from 0 on is the place of one row. *)
LEMMA EveryPlaceOnce ==
  ASSUME NEW rows, IsFiniteSet(rows), NEW ahead, Orders(ahead, rows)
  PROVE  /\ Cardinality(rows) \in Nat
         /\ Place(ahead, rows) \in Bijection(rows, 0..(Cardinality(rows) - 1))
<1> DEFINE n == Cardinality(rows)
           P == Place(ahead, rows)
<1>1. n \in Nat
  BY FS_CardinalityType
<1>2. ASSUME NEW r \in rows PROVE P[r] \in 0..(n - 1)
  <2>1. ahead[r] \intersect rows \in SUBSET rows /\ ahead[r] \intersect rows # rows
    BY DEF Orders
  <2>2. /\ Cardinality(ahead[r] \intersect rows) \in Nat
        /\ Cardinality(ahead[r] \intersect rows) <= n
        /\ Cardinality(ahead[r] \intersect rows) # n
    BY <2>1, FS_Subset, FS_CardinalityType
  <2> QED BY <1>1, <2>2 DEF Place
<1>3. P \in [rows -> 0..(n - 1)]
  BY <1>2 DEF Place
<1>4. ASSUME NEW r \in rows, NEW s \in rows, P[r] = P[s] PROVE r = s
  <2>1. CASE r \in ahead[s]
    <3>1. P[r] < P[s]
      BY <2>1, PlaceGrows
    <3> QED BY <1>2, <1>4, <3>1
  <2>2. CASE s \in ahead[r]
    <3>1. P[s] < P[r]
      BY <2>2, PlaceGrows
    <3> QED BY <1>2, <1>4, <3>1
  <2> QED BY <2>1, <2>2 DEF Orders
<1>5. P \in Injection(rows, 0..(n - 1))
  BY <1>3, <1>4 DEF Injection, IsInjective
<1>6. IsFiniteSet(0..(n - 1)) /\ Cardinality(0..(n - 1)) = n
  <2>1. 0 \in Int /\ n - 1 \in Int
    BY <1>1
  <2>2. IsFiniteSet(0..(n - 1)) /\ Cardinality(0..(n - 1)) = IF 0 > n - 1 THEN 0 ELSE (n - 1) - 0 + 1
    BY <2>1, FS_Interval
  <2> QED BY <1>1, <2>2
<1>7. P \in Surjection(rows, 0..(n - 1))
  <2> HIDE DEF P
  <2> QED BY <1>5, <1>6, FS_Injection
<1> QED BY <1>1, <1>5, <1>7 DEF Bijection

(* An order lists every row once, and before each row exactly what is ahead of it. *)
LEMMA InOrderLists ==
  ASSUME NEW rows, IsFiniteSet(rows), NEW ahead, Orders(ahead, rows)
  PROVE  LET n == Cardinality(rows)
             list == InOrder(ahead, rows)
         IN  /\ n \in Nat
             /\ list \in [1..n -> rows]
             /\ IsInjective(list)
             /\ \A r \in rows : \E k \in 1..n : list[k] = r
             /\ \A k, m \in 1..n : m < k <=> list[m] \in ahead[list[k]]
             /\ \A k \in 1..n : Place(ahead, rows)[list[k]] = k - 1
<1> DEFINE n == Cardinality(rows)
           list == InOrder(ahead, rows)
           P == Place(ahead, rows)
<1>1. n \in Nat /\ P \in Bijection(rows, 0..(n - 1))
  BY EveryPlaceOnce
<1>2. /\ P \in [rows -> 0..(n - 1)]
      /\ \A r, s \in rows : P[r] = P[s] => r = s
      /\ \A p \in 0..(n - 1) : \E r \in rows : P[r] = p
  <2> HIDE DEF P
  <2>1. DOMAIN P = rows
    BY <1>1 DEF Bijection, Injection
  <2> QED BY <1>1, <2>1 DEF Bijection, Injection, Surjection, IsInjective
<1>3. \A r \in rows : P[r] = Cardinality(ahead[r] \intersect rows)
  BY DEF Place
<1>4. list = [k \in 1..n |-> CHOOSE r \in rows : Cardinality(ahead[r] \intersect rows) = k - 1]
  BY DEF InOrder
<1> HIDE DEF P, list
<1>5. ASSUME NEW k \in 1..n PROVE list[k] \in rows /\ P[list[k]] = k - 1
  <2>1. k - 1 \in 0..(n - 1)
    BY <1>1
  <2>2. \E r \in rows : Cardinality(ahead[r] \intersect rows) = k - 1
    BY <1>2, <1>3, <2>1
  <2> QED BY <1>3, <1>4, <2>2
<1>6. list \in [1..n -> rows]
  BY <1>4, <1>5
<1>7. IsInjective(list)
  BY <1>1, <1>5, <1>6 DEF IsInjective
<1>8. ASSUME NEW r \in rows PROVE \E k \in 1..n : list[k] = r
  <2>1. P[r] \in 0..(n - 1) /\ P[r] + 1 \in 1..n
    BY <1>1, <1>2
  <2>2. P[list[P[r] + 1]] = P[r]
    BY <2>1, <1>5
  <2> QED BY <1>2, <1>5, <2>1, <2>2
<1>9. ASSUME NEW k \in 1..n, NEW m \in 1..n
      PROVE  m < k <=> list[m] \in ahead[list[k]]
  <2>1. list[k] \in rows /\ list[m] \in rows /\ P[list[k]] = k - 1 /\ P[list[m]] = m - 1
    BY <1>5
  <2>2. CASE list[m] \in ahead[list[k]]
    <3>1. P[list[m]] < P[list[k]]
      BY <2>1, <2>2, PlaceGrows DEF P
    <3> QED BY <1>1, <2>1, <2>2, <3>1
  <2>3. CASE list[k] \in ahead[list[m]]
    <3>1. P[list[k]] < P[list[m]]
      BY <2>1, <2>3, PlaceGrows DEF P
    <3>2. list[m] \notin ahead[list[k]]
      BY <2>1, <2>3 DEF Orders
    <3> QED BY <1>1, <2>1, <3>1, <3>2
  <2>4. CASE list[k] = list[m]
    <3>1. list[m] \notin ahead[list[k]]
      BY <2>1, <2>4 DEF Orders
    <3>2. k - 1 = m - 1
      BY <2>1, <2>4
    <3> QED BY <1>1, <3>1, <3>2
  <2> QED BY <2>1, <2>2, <2>3, <2>4 DEF Orders
<1> QED BY <1>1, <1>5, <1>6, <1>7, <1>8, <1>9 DEF list, P

-----------------------------------------------------------------------------
(* The lower of two numbers. *)
LEMMA MinOfTwo ==
  ASSUME NEW a \in Nat, NEW b \in Nat
  PROVE  Min({a, b}) = IF a <= b THEN a ELSE b
<1>1. \E x \in {a, b} : \A y \in {a, b} : x =< y
  <2>1. CASE a <= b
    BY <2>1
  <2>2. CASE b <= a
    BY <2>2
  <2> QED BY <2>1, <2>2
<1>2. Min({a, b}) \in {a, b} /\ \A y \in {a, b} : Min({a, b}) =< y
  BY <1>1 DEF Min
<1> QED BY <1>2

(* Numbers of a finite set are listed once each, the lowest first. *)
LEMMA AscendingLists ==
  ASSUME NEW numbers, IsFiniteSet(numbers), numbers \subseteq Nat
  PROVE  LET n == Cardinality(numbers)
             list == Ascending(numbers)
         IN  /\ n \in Nat
             /\ list \in [1..n -> numbers]
             /\ \A x \in numbers : \E k \in 1..n : list[k] = x
             /\ \A k, m \in 1..n : m < k <=> list[m] < list[k]
<1> DEFINE ahead == [x \in numbers |-> {y \in numbers : y < x}]
<1>1. Orders(ahead, numbers)
  BY DEF Orders
<1>2. \A x, y \in numbers : y \in ahead[x] <=> y < x
  OBVIOUS
<1>3. Ascending(numbers) = InOrder(ahead, numbers)
  BY DEF Ascending
<1> HIDE DEF ahead
<1>4. /\ Cardinality(numbers) \in Nat
      /\ Ascending(numbers) \in [1..Cardinality(numbers) -> numbers]
      /\ \A x \in numbers : \E k \in 1..Cardinality(numbers) : Ascending(numbers)[k] = x
      /\ \A k, m \in 1..Cardinality(numbers) :
            m < k <=> Ascending(numbers)[m] \in ahead[Ascending(numbers)[k]]
  BY <1>1, <1>3, InOrderLists
<1>5. \A k \in 1..Cardinality(numbers) : Ascending(numbers)[k] \in numbers
  BY <1>4
<1> QED BY <1>2, <1>4, <1>5

(* A function on 1..n is a sequence of length n. *)
LEMMA ListOfLength ==
  ASSUME NEW T, NEW n \in Nat, NEW f \in [1..n -> T]
  PROVE  f \in Seq(T) /\ Len(f) = n /\ DOMAIN f = 1..n
OBVIOUS

(* The elements of kept are elements of list, in the same order. *)
IsSublist(kept, list) ==
    \E place \in [1..Len(kept) -> 1..Len(list)] :
        /\ \A k, m \in 1..Len(kept) : m < k <=> place[m] < place[k]
        /\ \A k \in 1..Len(kept) : kept[k] = list[place[k]]

(* A filter keeps the wanted elements and no others, in the order of the list. *)
LEMMA KeepFilters ==
  ASSUME NEW S, NEW list \in Seq(S), NEW wanted
  PROVE  /\ Keep(list, wanted) \in Seq(S \intersect wanted)
         /\ \A i \in 1..Len(list) : list[i] \in wanted =>
               \E k \in 1..Len(Keep(list, wanted)) : Keep(list, wanted)[k] = list[i]
         /\ IsSublist(Keep(list, wanted), list)
<1> DEFINE W == {i \in DOMAIN list : list[i] \in wanted}
           n == Cardinality(W)
           place == Ascending(W)
           kept == Keep(list, wanted)
<1>1. Len(list) \in Nat /\ DOMAIN list = 1..Len(list)
  OBVIOUS
<1>2. IsFiniteSet(1..Len(list))
  BY <1>1, FS_Interval
<1>3. W \in SUBSET (1..Len(list)) /\ W \subseteq Nat
  BY <1>1
<1>4. IsFiniteSet(W)
  BY <1>2, <1>3, FS_Subset
<1>5. /\ n \in Nat
      /\ place \in [1..n -> W]
      /\ \A x \in W : \E k \in 1..n : place[k] = x
      /\ \A k, m \in 1..n : m < k <=> place[m] < place[k]
  <2> HIDE DEF W
  <2> QED BY <1>3, <1>4, AscendingLists
<1>6. kept = [k \in 1..n |-> list[place[k]]]
  <2>1. kept = [k \in DOMAIN place |-> list[place[k]]]
    BY DEF Keep
  <2> QED BY <1>5, <2>1
<1>7. \A i \in W : i \in 1..Len(list) /\ list[i] \in S \intersect wanted
  BY <1>1
<1>8. \A i \in 1..Len(list) : list[i] \in wanted => i \in W
  BY <1>1
<1> HIDE DEF W, kept, place
<1>9. kept \in Seq(S \intersect wanted) /\ Len(kept) = n
  <2>1. \A k \in 1..n : list[place[k]] \in S \intersect wanted
    BY <1>5, <1>7
  <2>2. kept \in [1..n -> S \intersect wanted]
    BY <1>6, <2>1
  <2> QED BY <1>5, <2>2, ListOfLength
<1>10. place \in [1..n -> 1..Len(list)]
  BY <1>5, <1>7
<1>11. \A i \in 1..Len(list) : list[i] \in wanted => \E k \in 1..Len(kept) : kept[k] = list[i]
  BY <1>5, <1>6, <1>8, <1>9
<1>12. IsSublist(kept, list)
  BY <1>5, <1>6, <1>9, <1>10 DEF IsSublist
<1> QED BY <1>9, <1>11, <1>12 DEF kept

(* A filter makes no list longer, and keeps its length if everything is wanted. *)
LEMMA KeepLength ==
  ASSUME NEW S, NEW list \in Seq(S), NEW wanted
  PROVE  /\ Len(Keep(list, wanted)) \in Nat /\ Len(Keep(list, wanted)) <= Len(list)
         /\ (\A i \in 1..Len(list) : list[i] \in wanted) => Len(Keep(list, wanted)) = Len(list)
<1> DEFINE W == {i \in DOMAIN list : list[i] \in wanted}
           n == Cardinality(W)
           place == Ascending(W)
           kept == Keep(list, wanted)
<1>1. Len(list) \in Nat /\ DOMAIN list = 1..Len(list)
  OBVIOUS
<1>2. IsFiniteSet(1..Len(list)) /\ Cardinality(1..Len(list)) = Len(list)
  BY <1>1, FS_Interval
<1>3. W \in SUBSET (1..Len(list)) /\ W \subseteq Nat
  BY <1>1
<1>4. (\A i \in 1..Len(list) : list[i] \in wanted) => W = 1..Len(list)
  BY <1>1
<1>5. kept = [k \in DOMAIN place |-> list[place[k]]]
  BY DEF Keep
<1> HIDE DEF W, kept
<1>6. IsFiniteSet(W) /\ n <= Len(list)
  BY <1>2, <1>3, FS_Subset
<1>7. n \in Nat /\ DOMAIN place = 1..n
  BY <1>3, <1>6, AscendingLists
<1>8. kept \in [1..n -> Range(kept)]
  BY <1>5, <1>7 DEF Range
<1>9. Len(kept) = n
  BY <1>7, <1>8, ListOfLength
<1>10. W = 1..Len(list) => n = Len(list)
  BY <1>2
<1> QED BY <1>4, <1>6, <1>7, <1>9, <1>10 DEF kept

(* What is kept of a list without duplicates is without duplicates. *)
LEMMA KeepInjective ==
  ASSUME NEW S, NEW list \in Seq(S), NEW wanted, IsInjective(list)
  PROVE  IsInjective(Keep(list, wanted))
<1> DEFINE kept == Keep(list, wanted)
<1>1. kept \in Seq(S \intersect wanted) /\ IsSublist(kept, list)
  BY KeepFilters
<1> HIDE DEF kept
<1>2. PICK p \in [1..Len(kept) -> 1..Len(list)] :
         /\ \A k, m \in 1..Len(kept) : m < k <=> p[m] < p[k]
         /\ \A k \in 1..Len(kept) : kept[k] = list[p[k]]
  BY <1>1 DEF IsSublist
<1>3. Len(kept) \in Nat /\ DOMAIN kept = 1..Len(kept) /\ Len(list) \in Nat /\ DOMAIN list = 1..Len(list)
  BY <1>1
<1>4. ASSUME NEW k \in 1..Len(kept), NEW m \in 1..Len(kept), kept[k] = kept[m]
      PROVE  k = m
  <2>1. p[k] = p[m]
    BY <1>2, <1>3, <1>4 DEF IsInjective
  <2>2. p[k] \in Int /\ ~(m < k) /\ ~(k < m)
    BY <1>2, <1>3, <2>1
  <2> QED BY <1>3, <2>2
<1> QED BY <1>3, <1>4 DEF IsInjective, kept

-----------------------------------------------------------------------------
(* The turns are those of every bucket. *)
LEMMA TurnsAre ==
  ASSUME NEW buckets
  PROVE  /\ \A t \in Turns(buckets) : /\ t = <<t[1], t[2]>>
                                      /\ t[1] \in DOMAIN buckets
                                      /\ t[2] \in DOMAIN buckets[t[1]]
         /\ \A b \in DOMAIN buckets : \A i \in DOMAIN buckets[b] : <<b, i>> \in Turns(buckets)
<1>1. ASSUME NEW t \in Turns(buckets)
      PROVE  t = <<t[1], t[2]>> /\ t[1] \in DOMAIN buckets /\ t[2] \in DOMAIN buckets[t[1]]
  <2>1. PICK b \in DOMAIN buckets : t \in {b} \X DOMAIN buckets[b]
    BY <1>1, Zenon DEF Turns
  <2>2. t = <<t[1], t[2]>> /\ t[1] = b /\ t[2] \in DOMAIN buckets[b]
    BY <2>1
  <2> QED BY <2>2
<1>2. ASSUME NEW b \in DOMAIN buckets, NEW i \in DOMAIN buckets[b]
      PROVE  <<b, i>> \in Turns(buckets)
  <2>1. <<b, i>> \in {b} \X DOMAIN buckets[b]
    OBVIOUS
  <2> QED BY <2>1 DEF Turns
<1> QED BY <1>1, <1>2

(* There are finitely many turns. *)
LEMMA TurnsFinite ==
  ASSUME NEW buckets, IsFiniteSet(DOMAIN buckets),
         \A b \in DOMAIN buckets : IsFiniteSet(DOMAIN buckets[b])
  PROVE  IsFiniteSet(Turns(buckets))
<1> DEFINE of == [b \in DOMAIN buckets |-> {b} \X DOMAIN buckets[b]]
           all == {{b} \X DOMAIN buckets[b] : b \in DOMAIN buckets}
<1>1. of \in Surjection(DOMAIN buckets, all)
  BY DEF Surjection
<1>2. IsFiniteSet(all)
  <2> HIDE DEF of, all
  <2> QED BY <1>1, FS_Surjection
<1>3. ASSUME NEW T \in all PROVE IsFiniteSet(T)
  <2>1. PICK b \in DOMAIN buckets : T = {b} \X DOMAIN buckets[b]
    OBVIOUS
  <2>2. IsFiniteSet({b})
    BY FS_Singleton
  <2>3. IsFiniteSet({b} \X DOMAIN buckets[b])
    BY <2>2, FS_Product
  <2> QED BY <2>1, <2>3
<1>4. IsFiniteSet(UNION all)
  <2> HIDE DEF all
  <2> QED BY <1>2, <1>3, FS_UNION
<1> QED BY <1>4 DEF Turns

(* What comes before a turn: the earlier turns of every bucket, and this turn of the buckets
   before its own. *)
AheadOf(buckets) ==
    [t \in Turns(buckets) |->
        {s \in Turns(buckets) : s[2] < t[2] \/ (s[2] = t[2] /\ s[1] < t[1])}]

(* The turns in the order they are taken. *)
TurnOrder(buckets) == InOrder(AheadOf(buckets), Turns(buckets))

(* Turns are taken one after the other, every one once, the first ones of all buckets first. *)
LEMMA TurnsInOrder ==
  ASSUME NEW S, NEW buckets \in Seq(Seq(S))
  PROVE  LET n == Cardinality(Turns(buckets))
             order == TurnOrder(buckets)
         IN  /\ n \in Nat
             /\ n = 0 <=> Turns(buckets) = {}
             /\ order \in [1..n -> Turns(buckets)]
             /\ IsInjective(order)
             /\ \A t \in Turns(buckets) : \E k \in 1..n : order[k] = t
             /\ \A k \in 1..n : \A s \in Turns(buckets) :
                   s[2] < order[k][2] => \E m \in 1..(k - 1) : order[m] = s
<1> DEFINE turns == Turns(buckets)
           ahead == AheadOf(buckets)
           n == Cardinality(turns)
           order == InOrder(ahead, turns)
<1>1. \A b \in DOMAIN buckets : buckets[b] \in Seq(S)
  OBVIOUS
<1>2. IsFiniteSet(DOMAIN buckets)
  <2>1. DOMAIN buckets = 1..Len(buckets) /\ Len(buckets) \in Int
    OBVIOUS
  <2> QED BY <2>1, FS_Interval
<1>3. ASSUME NEW b \in DOMAIN buckets PROVE IsFiniteSet(DOMAIN buckets[b])
  <2>1. DOMAIN buckets[b] = 1..Len(buckets[b]) /\ Len(buckets[b]) \in Int
    BY <1>1
  <2> QED BY <2>1, FS_Interval
<1>4. IsFiniteSet(turns)
  BY <1>2, <1>3, TurnsFinite
<1>5. \A t \in turns : t = <<t[1], t[2]>> /\ t[1] \in Nat /\ t[2] \in Nat
  <2> SUFFICES ASSUME NEW t \in turns PROVE t = <<t[1], t[2]>> /\ t[1] \in Nat /\ t[2] \in Nat
    OBVIOUS
  <2>1. t = <<t[1], t[2]>> /\ t[1] \in DOMAIN buckets /\ t[2] \in DOMAIN buckets[t[1]]
    BY TurnsAre
  <2>2. t[1] \in Nat
    BY <2>1
  <2>3. t[2] \in Nat
    BY <2>1, <1>1
  <2> QED BY <2>1, <2>2, <2>3
<1>6. \A s, t \in turns : s \in ahead[t] <=> s[2] < t[2] \/ (s[2] = t[2] /\ s[1] < t[1])
  BY DEF AheadOf
<1> HIDE DEF turns, ahead
<1>7. Orders(ahead, turns)
  <2>1. \A t \in turns : t \notin ahead[t]
    BY <1>5, <1>6
  <2>2. \A r, s, t \in turns : s \in ahead[r] /\ t \in ahead[s] => t \in ahead[r]
    BY <1>5, <1>6
  <2>3. \A r, s \in turns : r = s \/ r \in ahead[s] \/ s \in ahead[r]
    <3> SUFFICES ASSUME NEW r \in turns, NEW s \in turns
                 PROVE  r = s \/ r \in ahead[s] \/ s \in ahead[r]
      OBVIOUS
    <3>1. r[1] = s[1] /\ r[2] = s[2] => r = s
      BY <1>5
    <3> QED BY <1>5, <1>6, <3>1
  <2> QED BY <2>1, <2>2, <2>3 DEF Orders
<1>8. /\ n \in Nat
      /\ order \in [1..n -> turns]
      /\ IsInjective(order)
      /\ \A t \in turns : \E k \in 1..n : order[k] = t
      /\ \A k, m \in 1..n : m < k <=> order[m] \in ahead[order[k]]
  BY <1>4, <1>7, InOrderLists
<1>9. n = 0 <=> turns = {}
  BY <1>4, FS_EmptySet
<1> HIDE DEF n, order
<1>10. ASSUME NEW k \in 1..n, NEW s \in turns, s[2] < order[k][2]
       PROVE  \E m \in 1..(k - 1) : order[m] = s
  <2>1. PICK m \in 1..n : order[m] = s
    BY <1>8
  <2>2. order[k] \in turns
    BY <1>8
  <2>3. s \in ahead[order[k]]
    BY <1>6, <1>10, <2>2
  <2>4. m < k
    BY <1>8, <2>1, <2>3
  <2> QED BY <1>8, <2>1, <2>4
<1> QED BY <1>8, <1>9, <1>10 DEF turns, order, n, TurnOrder, ahead

(* The merge of buckets is the items of the first turns. *)
LEMMA InterleaveTakes ==
  ASSUME NEW S, NEW buckets \in Seq(Seq(S)), NEW limit \in Nat
  PROVE  LET n == Min({limit, Cardinality(Turns(buckets))})
             order == TurnOrder(buckets)
             page == InterleaveBuckets(buckets, limit)
         IN  /\ n \in Nat /\ n <= limit /\ n <= Cardinality(Turns(buckets))
             /\ n = 0 <=> limit = 0 \/ Turns(buckets) = {}
             /\ page \in Seq(S) /\ Len(page) = n
             /\ \A k \in 1..n : order[k] \in Turns(buckets)
                                /\ page[k] = buckets[order[k][1]][order[k][2]]
<1> DEFINE c == Cardinality(Turns(buckets))
           n == Min({limit, c})
           order == TurnOrder(buckets)
           page == InterleaveBuckets(buckets, limit)
<1>1. /\ c \in Nat /\ (c = 0 <=> Turns(buckets) = {})
      /\ order \in [1..c -> Turns(buckets)]
  BY TurnsInOrder
<1>2. page = [k \in 1..n |-> buckets[order[k][1]][order[k][2]]]
  BY DEF InterleaveBuckets, TurnOrder, AheadOf
<1> HIDE DEF page, order, c
<1>3. n = IF limit <= c THEN limit ELSE c
  BY <1>1, MinOfTwo
<1> HIDE DEF n
<1>4. n \in Nat /\ n <= limit /\ n <= c /\ (n = 0 <=> limit = 0 \/ c = 0)
  BY <1>1, <1>3
<1>5. ASSUME NEW k \in 1..n
      PROVE  order[k] \in Turns(buckets) /\ buckets[order[k][1]][order[k][2]] \in S
  <2>1. order[k] \in Turns(buckets)
    BY <1>1, <1>4
  <2>2. order[k][1] \in DOMAIN buckets /\ order[k][2] \in DOMAIN buckets[order[k][1]]
    BY <2>1, TurnsAre
  <2>3. buckets[order[k][1]] \in Seq(S)
    BY <2>2
  <2> QED BY <2>1, <2>2, <2>3
<1>6. page \in [1..n -> S]
  BY <1>2, <1>5
<1>7. page \in Seq(S) /\ Len(page) = n
  BY <1>4, <1>6, ListOfLength
<1>8. \A k \in 1..n : page[k] = buckets[order[k][1]][order[k][2]]
  BY <1>2
<1> QED BY <1>1, <1>4, <1>5, <1>7, <1>8 DEF page, order, n, c

(* interleaveBuckets merges source by source, whatever the buckets and the limit: it stops at
   the limit and not before, takes nothing twice, and comes to the i-th of a bucket only when
   every bucket has had its turns before i. *)
THEOREM MergeTakesTurns ==
  ASSUME NEW S, NEW buckets \in Seq(Seq(S)), NEW limit \in Nat,
         \A s, t \in Turns(buckets) : buckets[s[1]][s[2]] = buckets[t[1]][t[2]] => s = t
  PROVE  TakesTurns(InterleaveBuckets(buckets, limit), buckets, limit)
<1> DEFINE n == Min({limit, Cardinality(Turns(buckets))})
           c == Cardinality(Turns(buckets))
           order == TurnOrder(buckets)
           page == InterleaveBuckets(buckets, limit)
           turns == Turns(buckets)
<1>1. /\ n \in Nat /\ n <= c /\ c \in Nat
      /\ page \in Seq(S) /\ Len(page) = n
      /\ \A k \in 1..n : order[k] \in turns /\ page[k] = buckets[order[k][1]][order[k][2]]
  BY InterleaveTakes, TurnsInOrder
<1>2. /\ order \in [1..c -> turns]
      /\ IsInjective(order)
      /\ \A k \in 1..c : \A s \in turns :
            s[2] < order[k][2] => \E m \in 1..(k - 1) : order[m] = s
  BY TurnsInOrder
<1>3. Len(page) = Min({limit, Cardinality(turns)})
  BY <1>1
<1> HIDE DEF n, c, order, page, turns
<1>4. DOMAIN page = 1..n
  BY <1>1
<1>5. IsInjective(page)
  <2> SUFFICES ASSUME NEW k \in 1..n, NEW m \in 1..n, page[k] = page[m] PROVE k = m
    BY <1>4 DEF IsInjective
  <2>1. order[k] = order[m]
    <3>1. order[k] \in Turns(buckets) /\ order[m] \in Turns(buckets)
      BY <1>1 DEF turns
    <3>2. buckets[order[k][1]][order[k][2]] = buckets[order[m][1]][order[m][2]]
      BY <1>1
    <3> QED BY <3>1, <3>2, Zenon
  <2>2. k \in DOMAIN order /\ m \in DOMAIN order
    BY <1>1, <1>2
  <2> QED BY <1>2, <2>1, <2>2 DEF IsInjective
<1>6. ASSUME NEW k \in DOMAIN page
      PROVE  \E t \in turns :
                /\ page[k] = buckets[t[1]][t[2]]
                /\ \A s \in turns : s[2] < t[2] => \E m \in 1..(k - 1) : page[m] = buckets[s[1]][s[2]]
  <2>1. k \in 1..n /\ k \in 1..c /\ order[k] \in turns /\ page[k] = buckets[order[k][1]][order[k][2]]
    BY <1>1, <1>4
  <2>2. ASSUME NEW s \in turns, s[2] < order[k][2]
        PROVE  \E m \in 1..(k - 1) : page[m] = buckets[s[1]][s[2]]
    <3>1. PICK m \in 1..(k - 1) : order[m] = s
      BY <1>2, <2>1, <2>2
    <3>2. m \in 1..n
      BY <1>1, <2>1
    <3> QED BY <1>1, <3>1, <3>2
  <2> QED BY <2>1, <2>2
<1> QED BY <1>3, <1>5, <1>6 DEF TakesTurns, page, turns

-----------------------------------------------------------------------------
(* How many rows of its key are better than a row: its number in its bucket, from 0. *)
Number(key, better, rows) ==
    [r \in rows |-> Cardinality({s \in rows : key[s] = key[r] /\ s \in better[r]})]

OfKey(key, rows, k) == {r \in rows : key[r] = k}

(* The buckets of a table: the rows of every key, the best first. *)
Best(key, better, rows) ==
    [k \in {key[r] : r \in rows} |-> InOrder(better, OfKey(key, rows, k))]

(* An order of the rows orders some of them. *)
LEMMA SomeOrdered ==
  ASSUME NEW rows, IsFiniteSet(rows), NEW better, Orders(better, rows), NEW some \in SUBSET rows
  PROVE  IsFiniteSet(some) /\ Orders(better, some)
<1>1. IsFiniteSet(some)
  BY FS_Subset
<1>2. Orders(better, some)
  BY DEF Orders
<1> QED BY <1>1, <1>2

(* The number of a row is its place among the rows of its key. *)
LEMMA NumberIsPlace ==
  ASSUME NEW rows, IsFiniteSet(rows), NEW better, Orders(better, rows), NEW key, NEW r \in rows
  PROVE  /\ Number(key, better, rows)[r] = Place(better, OfKey(key, rows, key[r]))[r]
         /\ Number(key, better, rows)[r] \in Nat
<1> DEFINE B == OfKey(key, rows, key[r])
           A == {s \in rows : key[s] = key[r] /\ s \in better[r]}
<1>1. better[r] \intersect B = A /\ r \in B
  BY DEF OfKey
<1>2. Place(better, B)[r] = Cardinality(A) /\ Number(key, better, rows)[r] = Cardinality(A)
  BY <1>1 DEF Place, Number
<1>3. A \in SUBSET rows
  OBVIOUS
<1>4. Cardinality(A) \in Nat
  <2> HIDE DEF A
  <2> QED BY <1>3, FS_Subset, FS_CardinalityType
<1> QED BY <1>2, <1>4

(* The i-th of a bucket has number i - 1, and every row is in the bucket of its key. *)
LEMMA BestNumbers ==
  ASSUME NEW rows, IsFiniteSet(rows), NEW better, Orders(better, rows), NEW key,
         NEW k \in {key[r] : r \in rows}
  PROVE  LET bucket == Best(key, better, rows)[k]
             number == Number(key, better, rows)
         IN  /\ \A i \in DOMAIN bucket : /\ i \in Nat \ {0}
                                         /\ bucket[i] \in rows /\ key[bucket[i]] = k
                                         /\ number[bucket[i]] = i - 1
             /\ \A r \in rows : key[r] = k => number[r] + 1 \in DOMAIN bucket
                                              /\ bucket[number[r] + 1] = r
<1> DEFINE B == OfKey(key, rows, k)
           c == Cardinality(B)
           bucket == InOrder(better, B)
           number == Number(key, better, rows)
<1>1. B \in SUBSET rows /\ \A r \in rows : r \in B <=> key[r] = k
  BY DEF OfKey
<1>2. IsFiniteSet(B) /\ Orders(better, B)
  BY <1>1, SomeOrdered
<1>3. Best(key, better, rows)[k] = bucket
  BY DEF Best
<1>4. /\ c \in Nat /\ bucket \in [1..c -> B]
      /\ \A r \in B : \E i \in 1..c : bucket[i] = r
      /\ \A i \in 1..c : Place(better, B)[bucket[i]] = i - 1
  BY <1>2, InOrderLists
<1>5. \A r \in B : number[r] = Place(better, B)[r]
  <2> SUFFICES ASSUME NEW r \in B PROVE number[r] = Place(better, B)[r]
    OBVIOUS
  <2>1. r \in rows /\ key[r] = k
    BY <1>1
  <2>2. number[r] = Place(better, OfKey(key, rows, key[r]))[r]
    BY <2>1, NumberIsPlace
  <2> QED BY <2>1, <2>2
<1> HIDE DEF B, bucket, number
<1>6. \A i \in 1..c : bucket[i] \in B /\ number[bucket[i]] = i - 1
  BY <1>4, <1>5
<1>7. ASSUME NEW i \in DOMAIN bucket
      PROVE  i \in Nat \ {0} /\ bucket[i] \in rows /\ key[bucket[i]] = k /\ number[bucket[i]] = i - 1
  BY <1>1, <1>4, <1>6, <1>7
<1>8. ASSUME NEW r \in rows, key[r] = k
      PROVE  number[r] + 1 \in DOMAIN bucket /\ bucket[number[r] + 1] = r
  <2>1. PICK i \in 1..c : bucket[i] = r
    BY <1>1, <1>4, <1>8
  <2>2. number[r] + 1 = i
    BY <1>4, <1>6, <2>1
  <2> QED BY <1>4, <2>1, <2>2
<1> QED BY <1>3, <1>7, <1>8 DEF bucket, number

(* A list of all rows that comes to a row only after the rows of lower numbers takes turns,
   wherever it is cut. *)
LEMMA ByNumberTakesTurns ==
  ASSUME NEW rows, IsFiniteSet(rows), NEW better, Orders(better, rows), NEW key,
         NEW list \in [1..Cardinality(rows) -> rows], IsInjective(list),
         \A k \in 1..Cardinality(rows) : \A r \in rows :
            Number(key, better, rows)[r] < Number(key, better, rows)[list[k]] =>
                \E m \in 1..(k - 1) : list[m] = r
  PROVE  \A limit \in DOMAIN list :
            TakesTurns(SubSeq(list, 1, limit), Best(key, better, rows), limit)
<1> DEFINE n == Cardinality(rows)
           number == Number(key, better, rows)
           buckets == Best(key, better, rows)
           turns == Turns(buckets)
           turnOf == [r \in rows |-> <<key[r], number[r] + 1>>]
<1>1. n \in Nat /\ \A r \in rows : number[r] \in Nat
  BY FS_CardinalityType, NumberIsPlace
<1>2. DOMAIN buckets = {key[r] : r \in rows}
  BY DEF Best
<1>3. \A k \in DOMAIN buckets :
         /\ \A i \in DOMAIN buckets[k] : /\ i \in Nat \ {0}
                                         /\ buckets[k][i] \in rows /\ key[buckets[k][i]] = k
                                         /\ number[buckets[k][i]] = i - 1
         /\ \A r \in rows : key[r] = k => number[r] + 1 \in DOMAIN buckets[k]
                                          /\ buckets[k][number[r] + 1] = r
  BY <1>2, BestNumbers
<1> HIDE DEF number, buckets
<1>4. \A r \in rows : turnOf[r] \in turns /\ buckets[turnOf[r][1]][turnOf[r][2]] = r
  <2> SUFFICES ASSUME NEW r \in rows
               PROVE  turnOf[r] \in turns /\ buckets[turnOf[r][1]][turnOf[r][2]] = r
    OBVIOUS
  <2>1. key[r] \in DOMAIN buckets
    BY <1>2
  <2>2. number[r] + 1 \in DOMAIN buckets[key[r]] /\ buckets[key[r]][number[r] + 1] = r
    BY <1>3, <2>1
  <2> QED BY <2>1, <2>2, TurnsAre
<1>5. \A t \in turns : /\ buckets[t[1]][t[2]] \in rows
                       /\ t = turnOf[buckets[t[1]][t[2]]]
                       /\ t[2] \in Nat /\ number[buckets[t[1]][t[2]]] = t[2] - 1
  <2> SUFFICES ASSUME NEW t \in turns
               PROVE  /\ buckets[t[1]][t[2]] \in rows
                      /\ t = turnOf[buckets[t[1]][t[2]]]
                      /\ t[2] \in Nat /\ number[buckets[t[1]][t[2]]] = t[2] - 1
    OBVIOUS
  <2>1. t = <<t[1], t[2]>> /\ t[1] \in DOMAIN buckets /\ t[2] \in DOMAIN buckets[t[1]]
    BY TurnsAre
  <2>2. /\ t[2] \in Nat /\ buckets[t[1]][t[2]] \in rows /\ key[buckets[t[1]][t[2]]] = t[1]
        /\ number[buckets[t[1]][t[2]]] = t[2] - 1
    BY <1>3, <2>1
  <2>3. (t[2] - 1) + 1 = t[2]
    BY <2>2
  <2> QED BY <2>1, <2>2, <2>3
<1>6. Cardinality(turns) = n
  <2> HIDE DEF turns, turnOf
  <2>1. turnOf \in [rows -> turns]
    BY <1>4 DEF turnOf
  <2>2. turnOf \in Bijection(rows, turns)
    BY <1>4, <1>5, <2>1 DEF Bijection, Injection, Surjection, IsInjective
  <2> QED BY <2>2, FS_Bijection DEF ExistsBijection
<1> HIDE DEF turns
<1>7. ASSUME NEW limit \in DOMAIN list
      PROVE  TakesTurns(SubSeq(list, 1, limit), buckets, limit)
  <2> DEFINE page == SubSeq(list, 1, limit)
  <2>1. limit \in 1..n /\ limit \in Nat
    BY <1>1
  <2>2. list \in Seq(rows) /\ Len(list) = n
    BY <1>1, ListOfLength
  <2>3. page \in Seq(rows) /\ Len(page) = limit /\ DOMAIN page = 1..limit
        /\ \A k \in 1..limit : page[k] = list[k]
    BY <1>1, <2>1, <2>2
  <2> HIDE DEF page
  <2>4. Min({limit, n}) = limit
    BY <1>1, <2>1, MinOfTwo
  <2>5. IsInjective(page)
    BY <1>1, <2>1, <2>3 DEF IsInjective
  <2>6. ASSUME NEW k \in DOMAIN page
        PROVE  \E t \in turns :
                  /\ page[k] = buckets[t[1]][t[2]]
                  /\ \A s \in turns : s[2] < t[2] =>
                        \E m \in 1..(k - 1) : page[m] = buckets[s[1]][s[2]]
    <3>1. k \in 1..limit /\ k \in 1..n /\ page[k] = list[k] /\ list[k] \in rows
      BY <1>1, <2>1, <2>3
    <3> DEFINE t == turnOf[list[k]]
    <3>2. t \in turns /\ buckets[t[1]][t[2]] = list[k] /\ t[2] = number[list[k]] + 1
      BY <1>4, <3>1
    <3> HIDE DEF t
    <3>3. ASSUME NEW s \in turns, s[2] < t[2]
          PROVE  \E m \in 1..(k - 1) : page[m] = buckets[s[1]][s[2]]
      <4> DEFINE r == buckets[s[1]][s[2]]
      <4>1. r \in rows /\ number[r] = s[2] - 1 /\ s[2] \in Nat
        BY <1>5
      <4> HIDE DEF r
      <4>2. number[r] < number[list[k]]
        BY <1>1, <3>1, <3>2, <3>3, <4>1
      <4>3. PICK m \in 1..(k - 1) : list[m] = r
        BY <3>1, <4>1, <4>2 DEF number
      <4>4. m \in 1..limit
        BY <2>1, <3>1
      <4> QED BY <2>3, <4>3, <4>4 DEF r
    <3> QED BY <3>1, <3>2, <3>3
  <2> QED BY <1>6, <2>3, <2>4, <2>5, <2>6 DEF TakesTurns, page, turns
<1> QED BY <1>7 DEF buckets

(* What comes before a row in the query: rows of lower numbers, and better ones of its number. *)
AheadByNumber(key, better, rows) ==
    LET number == Number(key, better, rows)
    IN  [r \in rows |-> {s \in rows : \/ number[s] < number[r]
                                      \/ number[s] = number[r] /\ s \in better[r]}]

(* The query lists every row once, and before a row those of lower numbers and the better ones
   of its number. *)
LEMMA NumberedLists ==
  ASSUME NEW rows, IsFiniteSet(rows), NEW better, Orders(better, rows), NEW key
  PROVE  LET n == Cardinality(rows)
             list == NumberedByKey(key, better, rows)
             number == Number(key, better, rows)
             ahead == AheadByNumber(key, better, rows)
         IN  /\ n \in Nat
             /\ \A r \in rows : number[r] \in Nat
             /\ Orders(ahead, rows)
             /\ \A r, s \in rows : s \in ahead[r] <=> \/ number[s] < number[r]
                                                      \/ number[s] = number[r] /\ s \in better[r]
             /\ list \in [1..n -> rows]
             /\ IsInjective(list)
             /\ \A r \in rows : \E k \in 1..n : list[k] = r
             /\ \A k, m \in 1..n : m < k <=> list[m] \in ahead[list[k]]
             /\ \A k \in 1..n : Place(ahead, rows)[list[k]] = k - 1
<1> DEFINE number == Number(key, better, rows)
           ahead == AheadByNumber(key, better, rows)
           list == NumberedByKey(key, better, rows)
<1>1. \A r \in rows : number[r] \in Nat
  BY NumberIsPlace
<1>2. list = InOrder(ahead, rows)
  BY DEF NumberedByKey, AheadByNumber, Number
<1>3. \A r, s \in rows : s \in ahead[r] <=> \/ number[s] < number[r]
                                            \/ number[s] = number[r] /\ s \in better[r]
  BY DEF AheadByNumber
<1> HIDE DEF number, ahead, list
<1>4. Orders(ahead, rows)
  <2>1. \A r \in rows : r \notin ahead[r]
    BY <1>1, <1>3 DEF Orders
  <2>2. ASSUME NEW r \in rows, NEW s \in rows, NEW t \in rows, s \in ahead[r], t \in ahead[s]
        PROVE  t \in ahead[r]
    <3>1. s \in better[r] /\ t \in better[s] => t \in better[r]
      BY DEF Orders
    <3>2. number[r] \in Nat /\ number[s] \in Nat /\ number[t] \in Nat
      BY <1>1
    <3> QED BY <1>3, <2>2, <3>1, <3>2
  <2>3. ASSUME NEW r \in rows, NEW s \in rows
        PROVE  r = s \/ r \in ahead[s] \/ s \in ahead[r]
    <3>1. r = s \/ r \in better[s] \/ s \in better[r]
      BY DEF Orders
    <3>2. number[r] \in Nat /\ number[s] \in Nat
      BY <1>1
    <3> QED BY <1>3, <3>1, <3>2
  <2> QED BY <2>1, <2>2, <2>3 DEF Orders
<1>5. /\ Cardinality(rows) \in Nat
      /\ list \in [1..Cardinality(rows) -> rows]
      /\ IsInjective(list)
      /\ \A r \in rows : \E k \in 1..Cardinality(rows) : list[k] = r
      /\ \A k, m \in 1..Cardinality(rows) : m < k <=> list[m] \in ahead[list[k]]
      /\ \A k \in 1..Cardinality(rows) : Place(ahead, rows)[list[k]] = k - 1
  BY <1>2, <1>4, InOrderLists
<1> QED BY <1>1, <1>3, <1>4, <1>5 DEF number, ahead, list

(* The queries of article-service and feed-service, with ROW_NUMBER() over the rows of a source,
   take turns for every table, wherever LIMIT and OFFSET cut them. *)
THEOREM NumberedTakesTurns ==
  ASSUME NEW rows, IsFiniteSet(rows), NEW better, Orders(better, rows), NEW key
  PROVE  \A limit \in DOMAIN NumberedByKey(key, better, rows) :
            TakesTurns(SubSeq(NumberedByKey(key, better, rows), 1, limit),
                       Best(key, better, rows), limit)
<1> DEFINE list == NumberedByKey(key, better, rows)
           number == Number(key, better, rows)
           ahead == AheadByNumber(key, better, rows)
           n == Cardinality(rows)
<1>1. /\ n \in Nat
      /\ \A r, s \in rows : s \in ahead[r] <=> \/ number[s] < number[r]
                                               \/ number[s] = number[r] /\ s \in better[r]
      /\ list \in [1..n -> rows]
      /\ IsInjective(list)
      /\ \A r \in rows : \E k \in 1..n : list[k] = r
      /\ \A k, m \in 1..n : m < k <=> list[m] \in ahead[list[k]]
  BY NumberedLists
<1> HIDE DEF list, ahead
<1>2. ASSUME NEW k \in 1..n, NEW r \in rows, number[r] < number[list[k]]
      PROVE  \E m \in 1..(k - 1) : list[m] = r
  <2>1. PICK m \in 1..n : list[m] = r
    BY <1>1
  <2>2. list[k] \in rows
    BY <1>1
  <2>3. r \in ahead[list[k]]
    BY <1>1, <1>2, <2>2
  <2>4. m < k
    BY <1>1, <2>1, <2>3
  <2> QED BY <1>1, <2>1, <2>4
<1>3. \A limit \in DOMAIN list : TakesTurns(SubSeq(list, 1, limit), Best(key, better, rows), limit)
  BY <1>1, <1>2, ByNumberTakesTurns
<1> QED BY <1>3 DEF list

-----------------------------------------------------------------------------
(* What is kept of an ordered list for one key is the bucket of that key: its i-th has number
   i - 1. *)
LEMMA KeptNumbers ==
  ASSUME NEW rows, IsFiniteSet(rows), NEW better, Orders(better, rows), NEW key, NEW k
  PROVE  LET kept == Keep(InOrder(better, rows), OfKey(key, rows, k))
             number == Number(key, better, rows)
         IN  /\ kept \in Seq(rows)
             /\ \A i \in 1..Len(kept) : kept[i] \in rows /\ key[kept[i]] = k
                                        /\ number[kept[i]] = i - 1
             /\ \A r \in rows : key[r] = k => \E i \in 1..Len(kept) : kept[i] = r
<1> DEFINE list == InOrder(better, rows)
           wanted == OfKey(key, rows, k)
           kept == Keep(list, wanted)
           number == Number(key, better, rows)
           n == Cardinality(rows)
<1>1. /\ n \in Nat /\ list \in [1..n -> rows]
      /\ \A r \in rows : \E i \in 1..n : list[i] = r
      /\ \A i, m \in 1..n : m < i <=> list[m] \in better[list[i]]
  BY InOrderLists
<1>2. list \in Seq(rows) /\ Len(list) = n
  BY <1>1, ListOfLength
<1>3. wanted \subseteq rows /\ \A r \in rows : r \in wanted <=> key[r] = k
  BY DEF OfKey
<1> HIDE DEF list, wanted
<1>4. /\ kept \in Seq(rows \intersect wanted)
      /\ \A i \in 1..Len(list) : list[i] \in wanted => \E m \in 1..Len(kept) : kept[m] = list[i]
      /\ IsSublist(kept, list)
  BY <1>2, KeepFilters
<1> HIDE DEF kept
<1>5. kept \in Seq(rows) /\ Len(kept) \in Nat /\ \A i \in 1..Len(kept) : kept[i] \in rows /\ kept[i] \in wanted
  BY <1>4
<1>6. \A r \in rows : r \in wanted => \E i \in 1..Len(kept) : kept[i] = r
  BY <1>1, <1>2, <1>4
<1>7. PICK place \in [1..Len(kept) -> 1..Len(list)] :
         /\ \A i, m \in 1..Len(kept) : m < i <=> place[m] < place[i]
         /\ \A i \in 1..Len(kept) : kept[i] = list[place[i]]
  BY <1>4 DEF IsSublist
<1>8. \A i, m \in 1..Len(kept) : m < i <=> kept[m] \in better[kept[i]]
  BY <1>1, <1>2, <1>7
<1>9. \A i, m \in 1..Len(kept) : kept[i] = kept[m] => i = m
  <2> SUFFICES ASSUME NEW i \in 1..Len(kept), NEW m \in 1..Len(kept), kept[i] = kept[m]
               PROVE  i = m
    OBVIOUS
  <2>1. kept[i] \notin better[kept[m]] /\ kept[m] \notin better[kept[i]]
    BY <1>5 DEF Orders
  <2>2. ~(i < m) /\ ~(m < i)
    BY <1>8, <2>1
  <2> QED BY <1>5, <2>2
<1>10. ASSUME NEW i \in 1..Len(kept) PROVE number[kept[i]] = i - 1
  <2> DEFINE A == {s \in rows : key[s] = key[kept[i]] /\ s \in better[kept[i]]}
             nth == [m \in 1..(i - 1) |-> kept[m]]
  <2>1. key[kept[i]] = k /\ kept[i] \in rows
    BY <1>3, <1>5
  <2>2. i - 1 \in Nat /\ \A m \in 1..(i - 1) : m \in 1..Len(kept) /\ m < i
    BY <1>5
  <2>3. \A m \in 1..(i - 1) : kept[m] \in A
    BY <1>3, <1>5, <1>8, <2>1, <2>2
  <2>4. ASSUME NEW s \in A PROVE \E m \in 1..(i - 1) : kept[m] = s
    <3>1. s \in rows /\ s \in wanted /\ s \in better[kept[i]]
      BY <1>3, <2>1
    <3>2. PICK m \in 1..Len(kept) : kept[m] = s
      BY <1>6, <3>1
    <3>3. m < i
      BY <1>8, <3>1, <3>2
    <3> QED BY <1>5, <3>2, <3>3
  <2>5. number[kept[i]] = Cardinality(A)
    BY <2>1 DEF Number
  <2> HIDE DEF A
  <2>6. nth \in Bijection(1..(i - 1), A)
    <3>1. nth \in [1..(i - 1) -> A]
      BY <2>3
    <3>2. IsInjective(nth)
      BY <1>9, <2>2 DEF IsInjective
    <3>3. \A s \in A : \E m \in 1..(i - 1) : nth[m] = s
      BY <2>4
    <3> HIDE DEF nth
    <3> QED BY <3>1, <3>2, <3>3 DEF Bijection, Injection, Surjection
  <2>7. ExistsBijection(1..(i - 1), A)
    BY <2>6 DEF ExistsBijection
  <2>8. Cardinality(A) = i - 1
    BY <2>2, <2>7, FS_CountingElements
  <2> QED BY <2>5, <2>8
<1> QED BY <1>3, <1>5, <1>6, <1>10 DEF kept, list, wanted

(* The place at which a key comes first. *)
LEMMA FirstPlace ==
  ASSUME NEW T, NEW keys \in Seq(T), NEW i \in DOMAIN keys
  PROVE  \E f \in DOMAIN keys : keys[f] = keys[i] /\ \A j \in 1..(f - 1) : keys[j] # keys[f]
<1> DEFINE S == {j \in DOMAIN keys : keys[j] = keys[i]}
<1>1. S \subseteq Nat /\ S # {}
  OBVIOUS
<1>2. PICK f \in S : \A y \in S : ~(<<y, f>> \in OpToRel(<, Nat))
  BY <1>1, NatLessThanWellFounded, WFMin
<1>3. \A y \in S : ~(y < f)
  BY <1>1, <1>2 DEF OpToRel
<1>4. f \in DOMAIN keys /\ keys[f] = keys[i] /\ f \in 1..Len(keys)
  OBVIOUS
<1>5. ASSUME NEW j \in 1..(f - 1) PROVE keys[j] # keys[f]
  <2>1. j \in DOMAIN keys /\ j < f
    BY <1>4
  <2> QED BY <1>3, <1>4, <2>1
<1> QED BY <1>4, <1>5

(* Bucket b has what the list holds of key of[b]; no two buckets are of one key. *)
BucketsAre(buckets, of, list, key, rows) ==
    /\ \A b, c \in DOMAIN buckets : of[b] = of[c] => b = c
    /\ \A b \in DOMAIN buckets : buckets[b] = Keep(list, OfKey(key, rows, of[b]))
    /\ \A r \in rows : \E b \in DOMAIN buckets : of[b] = key[r]

(* The buckets of an ordered table: one for every key that is asked for or that a row has, with
   the rows of that key, the best first. *)
LEMMA BucketsOfTable ==
  ASSUME NEW rows, IsFiniteSet(rows), NEW better, Orders(better, rows), NEW key,
         NEW K, NEW order \in Seq(K)
  PROVE  LET buckets == BucketsBy(key, order, InOrder(better, rows))
         IN  /\ buckets \in Seq(Seq(rows))
             /\ \E of : BucketsAre(buckets, of, InOrder(better, rows), key, rows)
<1> DEFINE list == InOrder(better, rows)
           n == Cardinality(rows)
           tail == [i \in DOMAIN list |-> key[list[i]]]
           T == K \union {key[r] : r \in rows}
           keys == order \o tail
           first == {i \in DOMAIN keys : \A j \in 1..(i - 1) : keys[j] # keys[i]}
           once == Ascending(first)
           c == Cardinality(first)
           of == [b \in 1..c |-> keys[once[b]]]
           buckets == BucketsBy(key, order, list)
<1>1. /\ n \in Nat /\ list \in [1..n -> rows]
      /\ \A r \in rows : \E i \in 1..n : list[i] = r
  BY InOrderLists
<1>2. DOMAIN list = 1..n /\ Range(list) = rows
  BY <1>1 DEF Range
<1> HIDE DEF list
<1>3. tail \in [1..n -> T] /\ \A i \in 1..n : tail[i] = key[list[i]]
  BY <1>1, <1>2
<1>4. tail \in Seq(T) /\ Len(tail) = n /\ order \in Seq(T)
  BY <1>1, <1>3, ListOfLength
<1> HIDE DEF tail, T
<1>5. /\ keys \in Seq(T) /\ DOMAIN keys = 1..(Len(order) + n) /\ Len(order) \in Nat
      /\ \A i \in 1..n : Len(order) + i \in DOMAIN keys /\ keys[Len(order) + i] = tail[i]
  BY <1>1, <1>4
<1> HIDE DEF keys
<1>6. first \in SUBSET (1..(Len(order) + n)) /\ first \subseteq Nat
  BY <1>5
<1>7. IsFiniteSet(1..(Len(order) + n))
  BY <1>1, <1>5, FS_Interval
<1>8. IsFiniteSet(first)
  <2> HIDE DEF first
  <2> QED BY <1>6, <1>7, FS_Subset
<1>9. /\ \A i \in first : i \in DOMAIN keys /\ \A j \in 1..(i - 1) : keys[j] # keys[i]
      /\ \A i \in DOMAIN keys : (\A j \in 1..(i - 1) : keys[j] # keys[i]) => i \in first
  OBVIOUS
<1> HIDE DEF first
<1>10. /\ c \in Nat /\ once \in [1..c -> first]
       /\ \A x \in first : \E b \in 1..c : once[b] = x
       /\ \A b, m \in 1..c : m < b <=> once[m] < once[b]
  BY <1>6, <1>8, AscendingLists
<1>11. buckets = [b \in 1..c |-> Keep(list, OfKey(key, rows, of[b]))]
  <2>1. buckets = [b \in DOMAIN once |-> Keep(list, {x \in Range(list) : key[x] = keys[once[b]]})]
    BY DEF BucketsBy, tail, keys, first
  <2>2. DOMAIN once = 1..c
    BY <1>10
  <2>3. \A b \in 1..c : {x \in Range(list) : key[x] = keys[once[b]]} = OfKey(key, rows, of[b])
    BY <1>2 DEF OfKey
  <2> HIDE DEF once, of, buckets
  <2> QED BY <2>1, <2>2, <2>3
<1> HIDE DEF once, buckets
<1>12. \A b \in 1..c : Keep(list, OfKey(key, rows, of[b])) \in Seq(rows)
  BY KeptNumbers DEF list
<1>13. buckets \in Seq(Seq(rows)) /\ DOMAIN buckets = 1..c
  <2> HIDE DEF of
  <2>1. buckets \in [1..c -> Seq(rows)]
    BY <1>11, <1>12
  <2> QED BY <1>10, <2>1, ListOfLength
<1>14. ASSUME NEW b \in 1..c, NEW d \in 1..c, of[b] = of[d] PROVE b = d
  <2>1. /\ once[b] \in first /\ once[d] \in first /\ once[b] \in Nat /\ once[d] \in Nat
        /\ keys[once[b]] = keys[once[d]]
    BY <1>6, <1>10, <1>14
  <2>2. ASSUME NEW x \in first, NEW y \in first, x \in Nat, y \in Nat, keys[x] = keys[y] PROVE ~(x < y)
    <3> SUFFICES ASSUME x < y PROVE FALSE
      OBVIOUS
    <3>1. x \in 1..(y - 1)
      BY <1>6, <2>2
    <3> QED BY <1>9, <2>2, <3>1
  <2>3. ~(once[b] < once[d]) /\ ~(once[d] < once[b])
    BY <2>1, <2>2
  <2>4. ~(b < d) /\ ~(d < b)
    BY <1>10, <2>3
  <2> QED BY <1>10, <2>4
<1>15. ASSUME NEW r \in rows PROVE \E b \in 1..c : of[b] = key[r]
  <2>1. PICK i \in 1..n : list[i] = r
    BY <1>1
  <2>2. Len(order) + i \in DOMAIN keys /\ keys[Len(order) + i] = key[r]
    BY <1>3, <1>5, <2>1
  <2>3. PICK f \in DOMAIN keys : keys[f] = keys[Len(order) + i] /\ \A j \in 1..(f - 1) : keys[j] # keys[f]
    BY <1>5, <2>2, FirstPlace
  <2>4. f \in first
    BY <1>9, <2>3
  <2> QED BY <1>10, <2>2, <2>3, <2>4
<1>16. \A b \in DOMAIN buckets : buckets[b] = Keep(list, OfKey(key, rows, of[b]))
  BY <1>11, <1>13
<1> HIDE DEF of
<1>17. \E o : BucketsAre(buckets, o, list, key, rows)
  <2>1. /\ \A b, d \in DOMAIN buckets : of[b] = of[d] => b = d
        /\ \A b \in DOMAIN buckets : buckets[b] = Keep(list, OfKey(key, rows, of[b]))
        /\ \A r \in rows : \E b \in DOMAIN buckets : of[b] = key[r]
    BY <1>13, <1>14, <1>15, <1>16
  <2>2. BucketsAre(buckets, of, list, key, rows)
    BY <2>1 DEF BucketsAre
  <2> QED BY <2>2
<1> QED BY <1>13, <1>17 DEF buckets, list

(* Rows that are sorted and then interleaved are listed once each, and before a row come the
   rows of lower numbers. *)
LEMMA InterleavedLists ==
  ASSUME NEW rows, IsFiniteSet(rows), NEW better, Orders(better, rows), NEW key,
         NEW K, NEW order \in Seq(K)
  PROVE  LET page == InterleaveBy(key, order, InOrder(better, rows))
             n == Cardinality(rows)
             number == Number(key, better, rows)
         IN  /\ n \in Nat /\ page \in [1..n -> rows] /\ IsInjective(page)
             /\ \A k \in 1..n : \A r \in rows :
                   number[r] < number[page[k]] => \E m \in 1..(k - 1) : page[m] = r
<1> DEFINE list == InOrder(better, rows)
           n == Cardinality(rows)
           number == Number(key, better, rows)
           buckets == BucketsBy(key, order, list)
           turns == Turns(buckets)
           Item(t) == buckets[t[1]][t[2]]
           turnOrder == TurnOrder(buckets)
           page == InterleaveBy(key, order, list)
<1>1. n \in Nat /\ list \in [1..n -> rows] /\ \A r \in rows : number[r] \in Nat
  BY InOrderLists, NumberIsPlace
<1>2. Len(list) = n
  BY <1>1, ListOfLength
<1>a. buckets \in Seq(Seq(rows)) /\ \E of : BucketsAre(buckets, of, list, key, rows)
  BY BucketsOfTable
<1>b. PICK of : BucketsAre(buckets, of, list, key, rows)
  BY <1>a
<1>3. /\ buckets \in Seq(Seq(rows))
      /\ \A b, c \in DOMAIN buckets : of[b] = of[c] => b = c
      /\ \A b \in DOMAIN buckets : buckets[b] = Keep(list, OfKey(key, rows, of[b]))
      /\ \A r \in rows : \E b \in DOMAIN buckets : of[b] = key[r]
  <2> HIDE DEF buckets, list
  <2> QED BY <1>a, <1>b DEF BucketsAre
<1>4. ASSUME NEW b \in DOMAIN buckets
      PROVE  /\ buckets[b] \in Seq(rows)
             /\ \A i \in 1..Len(buckets[b]) : /\ buckets[b][i] \in rows /\ key[buckets[b][i]] = of[b]
                                              /\ number[buckets[b][i]] = i - 1
             /\ \A r \in rows : key[r] = of[b] => \E i \in 1..Len(buckets[b]) : buckets[b][i] = r
  <2> DEFINE kept == Keep(list, OfKey(key, rows, of[b]))
  <2>1. /\ kept \in Seq(rows)
        /\ \A i \in 1..Len(kept) : kept[i] \in rows /\ key[kept[i]] = of[b] /\ number[kept[i]] = i - 1
        /\ \A r \in rows : key[r] = of[b] => \E i \in 1..Len(kept) : kept[i] = r
    BY KeptNumbers
  <2>2. buckets[b] = kept
    BY <1>3, <1>4
  <2> HIDE DEF kept
  <2> QED BY <2>1, <2>2
<1>p. page = InterleaveBuckets(buckets, n)
  BY <1>2 DEF InterleaveBy
<1> HIDE DEF buckets, number, page
<1>5. \A t \in turns : /\ t[1] \in DOMAIN buckets /\ t[2] \in Nat
                       /\ Item(t) \in rows /\ key[Item(t)] = of[t[1]] /\ number[Item(t)] = t[2] - 1
  <2> SUFFICES ASSUME NEW t \in turns
               PROVE  /\ t[1] \in DOMAIN buckets /\ t[2] \in Nat
                      /\ Item(t) \in rows /\ key[Item(t)] = of[t[1]] /\ number[Item(t)] = t[2] - 1
    OBVIOUS
  <2>1. t[1] \in DOMAIN buckets /\ t[2] \in DOMAIN buckets[t[1]]
    BY TurnsAre
  <2>2. t[2] \in 1..Len(buckets[t[1]])
    BY <1>4, <2>1
  <2> QED BY <1>4, <2>1, <2>2
<1>6. \A s, t \in turns : Item(s) = Item(t) => s = t
  <2> SUFFICES ASSUME NEW s \in turns, NEW t \in turns, Item(s) = Item(t) PROVE s = t
    OBVIOUS
  <2>1. s[1] = t[1]
    <3>1. s[1] \in DOMAIN buckets /\ t[1] \in DOMAIN buckets
      BY <1>5
    <3>2. of[s[1]] = of[t[1]]
      BY <1>5
    <3> QED BY <1>3, <3>1, <3>2
  <2>2. s[2] = t[2]
    <3>1. s[2] \in Nat /\ t[2] \in Nat /\ s[2] - 1 = t[2] - 1
      BY <1>5
    <3> QED BY <3>1
  <2>3. s = <<s[1], s[2]>> /\ t = <<t[1], t[2]>>
    BY TurnsAre
  <2> QED BY <2>1, <2>2, <2>3
<1>7. \A r \in rows : \E t \in turns : Item(t) = r
  <2> SUFFICES ASSUME NEW r \in rows PROVE \E t \in turns : Item(t) = r
    OBVIOUS
  <2>1. PICK b \in DOMAIN buckets : of[b] = key[r]
    BY <1>3
  <2>2. PICK i \in 1..Len(buckets[b]) : buckets[b][i] = r
    BY <1>4, <2>1
  <2>3. i \in DOMAIN buckets[b]
    BY <1>4
  <2>4. <<b, i>> \in turns
    BY <2>1, <2>3, TurnsAre
  <2>5. Item(<<b, i>>) = r
    BY <2>2
  <2> QED BY <2>4, <2>5
<1>8. /\ Cardinality(turns) \in Nat
      /\ turnOrder \in [1..Cardinality(turns) -> turns]
      /\ IsInjective(turnOrder)
      /\ \A t \in turns : \E k \in 1..Cardinality(turns) : turnOrder[k] = t
      /\ \A k \in 1..Cardinality(turns) : \A s \in turns :
            s[2] < turnOrder[k][2] => \E m \in 1..(k - 1) : turnOrder[m] = s
  BY <1>3, TurnsInOrder
<1>9. Cardinality(turns) = n
  <2> DEFINE item == [t \in turns |-> Item(t)]
  <2>1. item \in Bijection(turns, rows)
    <3>1. item \in [turns -> rows]
      BY <1>5
    <3>2. IsInjective(item)
      BY <1>6 DEF IsInjective
    <3>3. \A r \in rows : \E t \in turns : item[t] = r
      BY <1>7
    <3> HIDE DEF item, turns
    <3> QED BY <3>1, <3>2, <3>3 DEF Bijection, Injection, Surjection
  <2>2. IsFiniteSet(turns)
    <3>1. turnOrder \in Surjection(1..Cardinality(turns), turns)
      <4> HIDE DEF turnOrder, turns
      <4> QED BY <1>8 DEF Surjection
    <3>2. IsFiniteSet(1..Cardinality(turns))
      BY <1>8, FS_Interval
    <3> HIDE DEF turnOrder, turns
    <3> QED BY <3>1, <3>2, FS_Surjection
  <2> HIDE DEF item, turns
  <2> QED BY <2>1, <2>2, FS_Bijection DEF ExistsBijection
<1>10. /\ page \in Seq(rows) /\ Len(page) = n
       /\ \A k \in 1..n : turnOrder[k] \in turns /\ page[k] = Item(turnOrder[k])
  <2>1. Min({n, Cardinality(turns)}) = n
    BY <1>1, <1>9, MinOfTwo
  <2>2. LET m == Min({n, Cardinality(turns)})
        IN  /\ InterleaveBuckets(buckets, n) \in Seq(rows)
            /\ Len(InterleaveBuckets(buckets, n)) = m
            /\ \A k \in 1..m : turnOrder[k] \in turns
                               /\ InterleaveBuckets(buckets, n)[k] = Item(turnOrder[k])
    BY <1>1, <1>3, InterleaveTakes
  <2> QED BY <1>p, <2>1, <2>2
<1> HIDE DEF turns, turnOrder
<1>11. page \in [1..n -> rows]
  BY <1>1, <1>10
<1>12. IsInjective(page)
  <2> SUFFICES ASSUME NEW k \in 1..n, NEW m \in 1..n, page[k] = page[m] PROVE k = m
    BY <1>11 DEF IsInjective
  <2>1. turnOrder[k] = turnOrder[m]
    <3>1. turnOrder[k] \in turns /\ turnOrder[m] \in turns /\ Item(turnOrder[k]) = Item(turnOrder[m])
      BY <1>10
    <3> HIDE DEF Item
    <3> QED BY <1>6, <3>1
  <2> QED BY <1>8, <1>9, <2>1 DEF IsInjective
<1>13. ASSUME NEW k \in 1..n, NEW r \in rows, number[r] < number[page[k]]
       PROVE  \E m \in 1..(k - 1) : page[m] = r
  <2>1. PICK s \in turns : Item(s) = r
    BY <1>7
  <2>2. turnOrder[k] \in turns /\ page[k] = Item(turnOrder[k])
    BY <1>10
  <2>3. /\ s[2] \in Nat /\ number[r] = s[2] - 1
        /\ turnOrder[k][2] \in Nat /\ number[page[k]] = turnOrder[k][2] - 1
    BY <1>5, <2>1, <2>2
  <2>4. s[2] < turnOrder[k][2]
    BY <1>13, <2>3
  <2>5. PICK m \in 1..(k - 1) : turnOrder[m] = s
    BY <1>8, <1>9, <2>4
  <2>6. m \in 1..n
    BY <1>1
  <2> QED BY <1>10, <2>1, <2>5, <2>6
<1> QED BY <1>1, <1>11, <1>12, <1>13 DEF page, number

(* The in-memory stores of article-service and feed-service, which sort their rows and then
   interleave them, take turns for every table and every order of the sources, as the queries
   do. *)
THEOREM InterleavedTakesTurns ==
  ASSUME NEW rows, IsFiniteSet(rows), NEW better, Orders(better, rows), NEW key,
         NEW K, NEW order \in Seq(K)
  PROVE  \A limit \in DOMAIN InterleaveBy(key, order, InOrder(better, rows)) :
            TakesTurns(SubSeq(InterleaveBy(key, order, InOrder(better, rows)), 1, limit),
                       Best(key, better, rows), limit)
BY InterleavedLists, ByNumberTakesTurns

-----------------------------------------------------------------------------
(* The numbers of the rows of one key are those from 0 on, each once, the better row first. *)
LEMMA NumbersOfKey ==
  ASSUME NEW rows, IsFiniteSet(rows), NEW better, Orders(better, rows), NEW key
  PROVE  LET number == Number(key, better, rows)
         IN  /\ \A r \in rows : number[r] \in 0..(Cardinality(OfKey(key, rows, key[r])) - 1)
             /\ \A r, s \in rows : key[r] = key[s] /\ number[r] = number[s] => r = s
             /\ \A r, s \in rows : key[r] = key[s] /\ s \in better[r] => number[s] < number[r]
             /\ \A r \in rows : \A p \in 0..(Cardinality(OfKey(key, rows, key[r])) - 1) :
                   \E d \in rows : key[d] = key[r] /\ number[d] = p
<1> DEFINE number == Number(key, better, rows)
           B(r) == OfKey(key, rows, key[r])
<1>1. ASSUME NEW r \in rows
      PROVE  /\ r \in B(r) /\ B(r) \subseteq rows
             /\ Place(better, B(r)) \in Bijection(B(r), 0..(Cardinality(B(r)) - 1))
             /\ \A s \in B(r) : key[s] = key[r] /\ number[s] = Place(better, B(r))[s]
             /\ \A s \in rows : key[s] = key[r] => s \in B(r)
             /\ \A s, t \in B(r) : s \in better[t] => Place(better, B(r))[s] < Place(better, B(r))[t]
  <2>1. /\ r \in B(r) /\ B(r) \in SUBSET rows /\ \A s \in B(r) : key[s] = key[r] /\ s \in rows
        /\ \A s \in rows : key[s] = key[r] => s \in B(r)
    BY DEF OfKey
  <2>2. IsFiniteSet(B(r)) /\ Orders(better, B(r))
    <3> HIDE DEF B
    <3> QED BY <2>1, SomeOrdered
  <2>3. Place(better, B(r)) \in Bijection(B(r), 0..(Cardinality(B(r)) - 1))
    <3> HIDE DEF B
    <3> QED BY <2>2, EveryPlaceOnce
  <2>4. \A s \in B(r) : number[s] = Place(better, B(r))[s]
    <3> SUFFICES ASSUME NEW s \in B(r) PROVE number[s] = Place(better, B(r))[s]
      OBVIOUS
    <3>1. s \in rows /\ key[s] = key[r]
      BY <2>1
    <3>2. number[s] = Place(better, OfKey(key, rows, key[s]))[s]
      BY <3>1, NumberIsPlace
    <3> QED BY <3>1, <3>2
  <2>5. \A s, t \in B(r) : s \in better[t] => Place(better, B(r))[s] < Place(better, B(r))[t]
    <3> HIDE DEF B
    <3> QED BY <2>2, PlaceGrows
  <2> QED BY <2>1, <2>3, <2>4, <2>5
<1> HIDE DEF number, B
<1>2. ASSUME NEW r \in rows
      PROVE  /\ Place(better, B(r)) \in [B(r) -> 0..(Cardinality(B(r)) - 1)]
             /\ \A s, t \in B(r) : Place(better, B(r))[s] = Place(better, B(r))[t] => s = t
             /\ \A p \in 0..(Cardinality(B(r)) - 1) : \E s \in B(r) : Place(better, B(r))[s] = p
  <2>1. DOMAIN Place(better, B(r)) = B(r)
    BY DEF Place
  <2> QED BY <1>1, <2>1 DEF Bijection, Injection, Surjection, IsInjective
<1>3. \A r \in rows : number[r] \in 0..(Cardinality(B(r)) - 1)
  BY <1>1, <1>2
<1>4. \A r, s \in rows : key[r] = key[s] /\ number[r] = number[s] => r = s
  BY <1>1, <1>2
<1>5. \A r, s \in rows : key[r] = key[s] /\ s \in better[r] => number[s] < number[r]
  BY <1>1
<1>6. \A r \in rows : \A p \in 0..(Cardinality(B(r)) - 1) : \E d \in rows : key[d] = key[r] /\ number[d] = p
  BY <1>1, <1>2
<1> QED BY <1>3, <1>4, <1>5, <1>6 DEF number, B

(* A row that is added, or that becomes better, takes no other row forward. *)
LEMMA NothingMovesForward ==
  ASSUME NEW rows, IsFiniteSet(rows), NEW better, Orders(better, rows), NEW key,
         NEW b, NEW rows2, rows \subseteq rows2, rows2 \subseteq rows \union {b},
         NEW better2, Orders(better2, rows2),
         \A x, y \in rows \ {b} : x \in better2[y] <=> x \in better[y],
         \A x \in rows \ {b} : b \in rows /\ b \in better[x] => b \in better2[x],
         NEW a \in rows, a # b
  PROVE  /\ IsFiniteSet(rows2)
         /\ Cardinality(AheadByNumber(key, better, rows)[a] \intersect rows)
              <= Cardinality(AheadByNumber(key, better2, rows2)[a] \intersect rows2)
<1> DEFINE number == Number(key, better, rows)
           number2 == Number(key, better2, rows2)
           A == {s \in rows : number[s] < number[a] \/ (number[s] = number[a] /\ s \in better[a])}
           A2 == {s \in rows2 : number2[s] < number2[a] \/ (number2[s] = number2[a] /\ s \in better2[a])}
<1>1. IsFiniteSet(rows2)
  <2>1. IsFiniteSet(rows \union {b})
    BY FS_AddElement
  <2> QED BY <2>1, FS_Subset
<1>2. /\ \A r \in rows : number[r] \in Nat
      /\ \A r \in rows2 : number2[r] \in Nat
  BY <1>1, NumberIsPlace
<1>3. /\ AheadByNumber(key, better, rows)[a] \intersect rows = A
      /\ AheadByNumber(key, better2, rows2)[a] \intersect rows2 = A2
  BY DEF AheadByNumber
<1>4. \A r, s \in rows : /\ key[r] = key[s] /\ number[r] = number[s] => r = s
                         /\ key[r] = key[s] /\ s \in better[r] => number[s] < number[r]
  BY NumbersOfKey
<1>5. \A r, s \in rows2 : /\ key[r] = key[s] /\ number2[r] = number2[s] => r = s
                          /\ key[r] = key[s] /\ s \in better2[r] => number2[s] < number2[r]
  BY <1>1, NumbersOfKey
<1>6. ASSUME NEW c \in rows PROVE \E d \in rows2 : key[d] = key[c] /\ number2[d] = number[c]
  <2> DEFINE B == OfKey(key, rows, key[c])
             B2 == OfKey(key, rows2, key[c])
  <2>1. B \subseteq B2 /\ B2 \in SUBSET rows2 /\ c \in rows2
    BY DEF OfKey
  <2>2. Cardinality(B) <= Cardinality(B2) /\ Cardinality(B) \in Nat /\ Cardinality(B2) \in Nat
    <3> HIDE DEF B, B2
    <3>1. IsFiniteSet(B2)
      BY <1>1, <2>1, FS_Subset
    <3> QED BY <2>1, <3>1, FS_Subset, FS_CardinalityType
  <2>3. number[c] \in 0..(Cardinality(B) - 1)
    BY NumbersOfKey
  <2>4. \A p \in 0..(Cardinality(B2) - 1) : \E d \in rows2 : key[d] = key[c] /\ number2[d] = p
    BY <1>1, <2>1, NumbersOfKey
  <2> HIDE DEF B, B2, number, number2
  <2>5. number[c] \in 0..(Cardinality(B2) - 1)
    BY <2>2, <2>3
  <2> QED BY <2>4, <2>5
<1>7. ASSUME NEW x \in rows, x # b PROVE number[x] <= number2[x]
  <2> DEFINE N == {s \in rows : key[s] = key[x] /\ s \in better[x]}
             N2 == {s \in rows2 : key[s] = key[x] /\ s \in better2[x]}
  <2>1. number[x] = Cardinality(N) /\ number2[x] = Cardinality(N2)
    BY DEF Number
  <2>2. N \subseteq N2
    BY <1>7
  <2>3. N2 \in SUBSET rows2
    OBVIOUS
  <2> HIDE DEF N, N2, number, number2
  <2>4. IsFiniteSet(N2)
    BY <1>1, <2>3, FS_Subset
  <2>5. Cardinality(N) <= Cardinality(N2)
    BY <2>2, <2>4, FS_Subset
  <2> QED BY <2>1, <2>5
<1> HIDE DEF number, number2
<1>8. ASSUME NEW c \in A, NEW d \in rows2, key[d] = key[c], number2[d] = number[c]
      PROVE  d \in A2
  <2>1. /\ c \in rows /\ c \in rows2 /\ a \in rows2 /\ number[c] \in Nat /\ number2[d] \in Nat
        /\ number[a] \in Nat /\ number2[a] \in Nat /\ number[a] <= number2[a]
    BY <1>2, <1>7
  <2>2. number[c] < number[a] \/ (number[c] = number[a] /\ c \in better[a])
    OBVIOUS
  <2>3. CASE number[c] < number2[a]
    BY <1>8, <2>3
  <2>4. CASE number[c] = number2[a]
    <3>1. number[c] = number[a] /\ c \in better[a] /\ number2[d] = number2[a]
      BY <1>8, <2>1, <2>2, <2>4
    <3>2. d \in better2[a]
      <4>1. CASE d = c
        <5>1. c # b => c \in better2[a]
          BY <2>1, <3>1
        <5>2. c = b => c \in better2[a]
          BY <2>1, <3>1
        <5> QED BY <4>1, <5>1, <5>2
      <4>2. CASE d # c /\ c # b
        <5>1. number[c] <= number2[c] /\ number2[c] \in Nat /\ c \in better2[a]
          BY <1>2, <1>7, <2>1, <3>1, <4>2
        <5>2. ~(number2[c] < number2[d])
          BY <1>8, <2>1, <5>1
        <5>3. c \notin better2[d]
          <6>1. key[d] = key[c] /\ c \in better2[d] => number2[c] < number2[d]
            BY <1>5, <2>1
          <6> QED BY <1>8, <5>2, <6>1
        <5>4. d \in better2[c]
          BY <2>1, <4>2, <5>3 DEF Orders
        <5> QED BY <2>1, <5>1, <5>4 DEF Orders
      <4>3. CASE d # c /\ c = b
        <5>1. d \in rows /\ d # b /\ number[d] \in Nat
          BY <1>2, <4>3
        <5>2. number[d] <= number2[d]
          BY <1>7, <5>1
        <5>3. ~(number[c] < number[d])
          BY <1>8, <2>1, <5>1, <5>2
        <5>4. c \notin better[d]
          BY <1>4, <1>8, <2>1, <5>1, <5>3
        <5>5. d \in better[c]
          BY <2>1, <4>3, <5>1, <5>4 DEF Orders
        <5>6. d \in better[a]
          BY <2>1, <3>1, <5>1, <5>5 DEF Orders
        <5> QED BY <5>1, <5>6
      <4> QED BY <4>1, <4>2, <4>3
    <3> QED BY <3>1, <3>2
  <2> QED BY <2>1, <2>2, <2>3, <2>4
<1>9. Cardinality(A) <= Cardinality(A2)
  <2> DEFINE f == [c \in A |-> CHOOSE d \in rows2 : key[d] = key[c] /\ number2[d] = number[c]]
  <2>1. \A c \in A : c \in rows
    OBVIOUS
  <2>2. \A c \in A : f[c] \in rows2 /\ key[f[c]] = key[c] /\ number2[f[c]] = number[c]
    BY <1>6, <2>1
  <2>3. A2 \in SUBSET rows2
    OBVIOUS
  <2>4. IsInjective(f) /\ DOMAIN f = A
    <3>1. \A c, e \in A : f[c] = f[e] => c = e
      <4> HIDE DEF f, A
      <4> QED BY <1>4, <2>1, <2>2
    <3> HIDE DEF A
    <3> QED BY <3>1 DEF IsInjective
  <2>5. \A c \in A : f[c] \in A2
    <3> HIDE DEF f, A, A2
    <3> QED BY <1>8, <2>2
  <2>6. f \in [A -> A2]
    BY <2>5
  <2> HIDE DEF f, A, A2
  <2>7. f \in Injection(A, A2)
    BY <2>4, <2>6 DEF Injection
  <2>8. IsFiniteSet(A2)
    BY <1>1, <2>3, FS_Subset
  <2> QED BY <2>7, <2>8, FS_Injection
<1> QED BY <1>1, <1>3, <1>9

(* A row that is removed, or that becomes worse, takes no row forward that was listed before it:
   what was ahead of such a row still is. *)
LEMMA NothingAheadMovesForward ==
  ASSUME NEW rows, IsFiniteSet(rows), NEW better, Orders(better, rows), NEW key,
         NEW b, NEW rows2, rows2 \subseteq rows, rows \ {b} \subseteq rows2,
         NEW better2, Orders(better2, rows2),
         \A x, y \in rows \ {b} : x \in better2[y] <=> x \in better[y],
         \A x \in rows \ {b} : b \in rows2 /\ b \in better2[x] => b \in better[x],
         NEW a \in rows, a # b, b \in rows, b \notin AheadByNumber(key, better, rows)[a]
  PROVE  Cardinality(AheadByNumber(key, better, rows)[a] \intersect rows)
           <= Cardinality(AheadByNumber(key, better2, rows2)[a] \intersect rows2)
<1> DEFINE number == Number(key, better, rows)
           number2 == Number(key, better2, rows2)
           A == {s \in rows : number[s] < number[a] \/ (number[s] = number[a] /\ s \in better[a])}
           A2 == {s \in rows2 : number2[s] < number2[a]
                                  \/ (number2[s] = number2[a] /\ s \in better2[a])}
           Ahead(x) == {s \in rows : key[s] = key[x] /\ s \in better[x]}
           Ahead2(x) == {s \in rows2 : key[s] = key[x] /\ s \in better2[x]}
<1>1. IsFiniteSet(rows2) /\ a \in rows2
  BY FS_Subset
<1>2. /\ \A r \in rows : number[r] \in Nat /\ number[r] = Cardinality(Ahead(r))
      /\ \A r \in rows2 : number2[r] \in Nat /\ number2[r] = Cardinality(Ahead2(r))
  <2>1. /\ \A r \in rows : number[r] \in Nat
        /\ \A r \in rows2 : number2[r] \in Nat
    BY <1>1, NumberIsPlace
  <2> QED BY <2>1 DEF Number
<1>3. /\ AheadByNumber(key, better, rows)[a] \intersect rows = A
      /\ AheadByNumber(key, better2, rows2)[a] \intersect rows2 = A2
      /\ b \notin A
  BY <1>1 DEF AheadByNumber
<1>4. \A r, s \in rows : key[r] = key[s] /\ s \in better[r] => number[s] < number[r]
  BY NumbersOfKey
<1>5. \A x : Ahead(x) \in SUBSET rows /\ Ahead2(x) \in SUBSET rows2
  OBVIOUS
<1>6. ASSUME NEW x \in rows, x # b PROVE number2[x] <= number[x]
  <2>1. Ahead2(x) \subseteq Ahead(x) /\ x \in rows2
    BY <1>6
  <2> HIDE DEF Ahead, Ahead2, number, number2
  <2>2. IsFiniteSet(Ahead(x))
    BY <1>5, FS_Subset
  <2>3. Cardinality(Ahead2(x)) <= Cardinality(Ahead(x))
    BY <2>1, <2>2, FS_Subset
  <2> QED BY <1>2, <2>1, <2>3
<1>7. number[a] <= number2[a]
  <2>1. b \notin Ahead(a)
    <3>1. ~(number[b] < number[a])
      BY <1>3
    <3> HIDE DEF number
    <3> QED BY <1>4, <3>1
  <2>2. Ahead(a) \subseteq Ahead2(a)
    BY <2>1
  <2> HIDE DEF Ahead, Ahead2, number, number2
  <2>3. IsFiniteSet(Ahead2(a))
    BY <1>1, <1>5, FS_Subset
  <2>4. Cardinality(Ahead(a)) <= Cardinality(Ahead2(a))
    BY <2>2, <2>3, FS_Subset
  <2> QED BY <1>1, <1>2, <2>4
<1>8. A \subseteq A2
  <2> SUFFICES ASSUME NEW s \in A PROVE s \in A2
    OBVIOUS
  <2>1. s \in rows /\ s # b /\ s \in rows2
    BY <1>3
  <2>2. number[s] < number[a] \/ (number[s] = number[a] /\ s \in better2[a])
    BY <2>1
  <2> HIDE DEF number, number2
  <2>3. number2[s] \in Nat /\ number[s] \in Nat /\ number2[a] \in Nat /\ number[a] \in Nat
    BY <1>1, <1>2, <2>1
  <2>4. number2[s] <= number[s]
    BY <1>6, <2>1
  <2>5. number2[s] < number2[a] \/ (number2[s] = number2[a] /\ s \in better2[a])
    BY <1>7, <2>2, <2>3, <2>4
  <2> QED BY <2>1, <2>5
<1>9. A2 \in SUBSET rows2
  OBVIOUS
<1>10. Cardinality(A) <= Cardinality(A2)
  <2> HIDE DEF A, A2
  <2>1. IsFiniteSet(A2)
    BY <1>1, <1>9, FS_Subset
  <2> QED BY <1>8, <2>1, FS_Subset
<1> QED BY <1>3, <1>10

=============================================================================
