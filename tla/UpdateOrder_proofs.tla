-------------------------- MODULE UpdateOrder_proofs --------------------------
(***************************************************************************)
(* Lemmas about the order of the processings by updated_at, for the proofs *)
(* about the models that keep one: what a write leaves of the order, and   *)
(* that a query ordered by it finds as many rows as there are, up to its   *)
(* limit.                                                                  *)
(***************************************************************************)
EXTENDS UpdateOrder, Integers, FiniteSetTheorems, SequenceTheorems,
        WellFoundedInduction, TLAPS

\* No row has two places.
Once(order) == \A m, n \in DOMAIN order : order[m] = order[n] => m = n

\* The rows that have a place.
Listed(order) == {order[n] : n \in DOMAIN order}

-----------------------------------------------------------------------------
(* A write. *)

\* A row that had no place gets the last one.
LEMMA TouchNew ==
    ASSUME NEW S, NEW order \in Seq(S), NEW id \in S, id \notin Listed(order)
    PROVE  Touch(order, id) = Append(order, id)
BY DEF Touch, Without, Listed

\* A row that had a place is taken out of it and gets the last one.
LEMMA TouchOld ==
    ASSUME NEW S, NEW order \in Seq(S), Once(order), NEW k \in 1 .. Len(order)
    PROVE  /\ Touch(order, order[k]) \in Seq(S)
           /\ Len(Touch(order, order[k])) = Len(order)
           /\ \A n \in 1 .. Len(order) :
                Touch(order, order[k])[n]
                  = IF n < k THEN order[n]
                    ELSE IF n < Len(order) THEN order[n + 1] ELSE order[k]
<1> DEFINE front == SubSeq(order, 1, k - 1)
           rest  == SubSeq(order, k + 1, Len(order))
           kept  == front \o rest
<1>1. (CHOOSE n \in DOMAIN order : order[n] = order[k]) = k
  BY DEF Once
<1>2. Without(order, order[k]) = kept
  <2> DEFINE at == CHOOSE n \in DOMAIN order : order[n] = order[k]
  <2>1. \E n \in DOMAIN order : order[n] = order[k]
    OBVIOUS
  <2>2. Without(order, order[k])
          = SubSeq(order, 1, at - 1) \o SubSeq(order, at + 1, Len(order))
    BY <2>1, Zenon DEF Without
  <2>3. at = k
    BY <1>1
  <2> HIDE DEF at
  <2> QED BY <2>2, <2>3
<1>3. /\ front \in Seq(S) /\ Len(front) = k - 1
      /\ \A n \in 1 .. k - 1 : front[n] = order[n]
  OBVIOUS
<1>4. /\ rest \in Seq(S) /\ Len(rest) = Len(order) - k
      /\ \A n \in 1 .. Len(order) - k : rest[n] = order[k + n]
  OBVIOUS
<1>5. /\ kept \in Seq(S) /\ Len(kept) = Len(order) - 1
      /\ \A n \in 1 .. Len(order) - 1 :
           kept[n] = IF n < k THEN order[n] ELSE order[n + 1]
  <2> HIDE DEF front, rest
  <2>1. kept \in Seq(S) /\ Len(kept) = Len(order) - 1
    BY <1>3, <1>4
  <2>2. ASSUME NEW n \in 1 .. Len(order) - 1
        PROVE  kept[n] = IF n < k THEN order[n] ELSE order[n + 1]
    <3>1. CASE n < k
      BY <1>3, <1>4, <3>1
    <3>2. CASE n >= k
      <4>1. kept[n] = rest[n - (k - 1)]
        BY <1>3, <1>4, <3>2
      <4>2. n - (k - 1) \in 1 .. Len(order) - k /\ k + (n - (k - 1)) = n + 1
        BY <3>2
      <4> QED BY <1>4, <3>2, <4>1, <4>2
    <3>3. n < k \/ n >= k
      OBVIOUS
    <3> QED BY <3>1, <3>2, <3>3
  <2> QED BY <2>1, <2>2
<1>6. Touch(order, order[k]) = Append(kept, order[k])
  BY <1>2 DEF Touch
<1> HIDE DEF kept
<1> QED BY <1>5, <1>6

\* A write keeps one place for each row, and gives one to the row written.
LEMMA TouchListed ==
    ASSUME NEW S, NEW order \in Seq(S), Once(order), NEW id \in S
    PROVE  /\ Touch(order, id) \in Seq(S)
           /\ Once(Touch(order, id))
           /\ Listed(Touch(order, id)) = Listed(order) \cup {id}
<1> DEFINE t == Touch(order, id)
<1>1. CASE id \notin Listed(order)
  <2>1. t = Append(order, id)
    BY <1>1, TouchNew
  <2>2. /\ t \in Seq(S) /\ Len(t) = Len(order) + 1 /\ t[Len(order) + 1] = id
        /\ \A n \in 1 .. Len(order) : t[n] = order[n]
    BY <2>1
  <2> HIDE DEF t
  <2>3. Once(t)
    BY <1>1, <2>2 DEF Once, Listed
  <2>4. Listed(t) = Listed(order) \cup {id}
    <3>1. \A n \in 1 .. Len(order) + 1 : n \in 1 .. Len(order) \/ n = Len(order) + 1
      OBVIOUS
    <3> QED BY <2>2, <3>1 DEF Listed
  <2> QED BY <2>2, <2>3, <2>4 DEF t
<1>2. CASE id \in Listed(order)
  <2>1. PICK k \in 1 .. Len(order) : order[k] = id
    BY <1>2 DEF Listed
  <2>2. /\ t \in Seq(S) /\ Len(t) = Len(order)
        /\ \A n \in 1 .. Len(order) :
             t[n] = IF n < k THEN order[n]
                    ELSE IF n < Len(order) THEN order[n + 1] ELSE order[k]
    BY <2>1, TouchOld
  <2> HIDE DEF t
  <2>3. Once(t)
    BY <2>2 DEF Once
  <2>4. Listed(t) \subseteq Listed(order)
    BY <2>2 DEF Listed
  <2>5. ASSUME NEW n \in 1 .. Len(order) PROVE order[n] \in Listed(t)
    <3>1. CASE n < k
      BY <2>2, <3>1 DEF Listed
    <3>2. CASE n = k
      BY <2>2, <3>2 DEF Listed
    <3>3. CASE n > k
      <4>1. n - 1 \in 1 .. Len(order) /\ t[n - 1] = order[n]
        BY <2>2, <3>3
      <4> QED BY <2>2, <4>1 DEF Listed
    <3> QED BY <3>1, <3>2, <3>3
  <2>6. Listed(t) = Listed(order) \cup {id}
    BY <1>2, <2>4, <2>5 DEF Listed
  <2> QED BY <2>2, <2>3, <2>6 DEF t
<1> QED BY <1>1, <1>2

\* A write leaves the order of the others, and puts its row after them.
LEMMA TouchEarlier ==
    ASSUME NEW S, NEW order \in Seq(S), Once(order), NEW id \in S,
           NEW i, NEW j
    PROVE  Earlier(Touch(order, id), i, j)
             <=> \/ i # id /\ j # id /\ Earlier(order, i, j)
                 \/ j = id /\ (i = id \/ i \in Listed(order))
<1> DEFINE t == Touch(order, id)
<1>0. t \in Seq(S) /\ Once(t) /\ Listed(t) = Listed(order) \cup {id}
  BY TouchListed
<1>1. t[Len(t)] = id /\ Len(t) \in 1 .. Len(t)
  <2>1. CASE id \notin Listed(order)
    BY <2>1, TouchNew
  <2>2. CASE id \in Listed(order)
    <3>1. PICK k \in 1 .. Len(order) : order[k] = id
      BY <2>2 DEF Listed
    <3> QED BY <3>1, TouchOld
  <2> QED BY <2>1, <2>2
<1>2. ASSUME j = id PROVE Earlier(t, i, j) <=> i \in Listed(order) \cup {id}
  <2> HIDE DEF t
  <2>1. Earlier(t, i, j) => i \in Listed(t)
    BY <1>0 DEF Earlier, Listed
  <2>2. i \in Listed(t) => Earlier(t, i, j)
    BY <1>0, <1>1, <1>2 DEF Earlier, Listed
  <2> QED BY <1>0, <2>1, <2>2
<1>3. ASSUME i = id, j # id PROVE ~Earlier(t, i, j)
  <2> HIDE DEF t
  <2> QED BY <1>0, <1>1, <1>3 DEF Earlier, Once
<1>4. ASSUME i # id, j # id PROVE Earlier(t, i, j) <=> Earlier(order, i, j)
  <2>1. CASE id \notin Listed(order)
    <3>1. /\ Len(t) = Len(order) + 1 /\ t[Len(order) + 1] = id
          /\ \A n \in 1 .. Len(order) : t[n] = order[n]
      BY <2>1, TouchNew
    <3> HIDE DEF t
    <3>2. \A n \in 1 .. Len(t) : n \in 1 .. Len(order) \/ n = Len(order) + 1
      BY <3>1
    <3>3. Earlier(t, i, j) => Earlier(order, i, j)
      BY <1>0, <1>4, <3>1, <3>2 DEF Earlier
    <3>4. Earlier(order, i, j) => Earlier(t, i, j)
      BY <1>0, <3>1 DEF Earlier
    <3> QED BY <3>3, <3>4
  <2>2. CASE id \in Listed(order)
    <3>1. PICK k \in 1 .. Len(order) : order[k] = id
      BY <2>2 DEF Listed
    <3>2. /\ Len(t) = Len(order)
          /\ \A n \in 1 .. Len(order) :
               t[n] = IF n < k THEN order[n]
                      ELSE IF n < Len(order) THEN order[n + 1] ELSE order[k]
      BY <3>1, TouchOld
    <3> HIDE DEF t
    <3> DEFINE Was(n) == IF n < k THEN n ELSE n + 1
               Is(n)  == IF n < k THEN n ELSE n - 1
    <3>3. ASSUME NEW n \in 1 .. Len(order), t[n] # id
          PROVE  Was(n) \in 1 .. Len(order) /\ t[n] = order[Was(n)]
      BY <3>1, <3>2, <3>3
    <3>4. ASSUME NEW n \in 1 .. Len(order), order[n] # id
          PROVE  Is(n) \in 1 .. Len(order) /\ order[n] = t[Is(n)]
      BY <3>1, <3>2, <3>4
    <3>5. ASSUME Earlier(t, i, j) PROVE Earlier(order, i, j)
      <4>1. PICK m, n \in 1 .. Len(order) : m <= n /\ t[m] = i /\ t[n] = j
        BY <1>0, <3>2, <3>5 DEF Earlier
      <4>2. /\ Was(m) \in 1 .. Len(order) /\ order[Was(m)] = i
            /\ Was(n) \in 1 .. Len(order) /\ order[Was(n)] = j
        BY <1>4, <3>3, <4>1
      <4>3. Was(m) <= Was(n)
        BY <4>1
      <4> HIDE DEF Was
      <4> QED BY <4>2, <4>3 DEF Earlier
    <3>6. ASSUME Earlier(order, i, j) PROVE Earlier(t, i, j)
      <4>1. PICK m, n \in 1 .. Len(order) : m <= n /\ order[m] = i /\ order[n] = j
        BY <3>6 DEF Earlier
      <4>2. /\ Is(m) \in 1 .. Len(order) /\ t[Is(m)] = i
            /\ Is(n) \in 1 .. Len(order) /\ t[Is(n)] = j
        BY <1>4, <3>4, <4>1
      <4>3. m # k /\ n # k
        BY <1>4, <3>1, <4>1
      <4>4. Is(m) <= Is(n)
        BY <4>1, <4>3
      <4> HIDE DEF Is
      <4> QED BY <1>0, <3>2, <4>2, <4>4 DEF Earlier
    <3> QED BY <3>5, <3>6
  <2> QED BY <2>1, <2>2
<1> HIDE DEF t
<1>5. Earlier(t, i, j)
        <=> \/ i # id /\ j # id /\ Earlier(order, i, j)
            \/ j = id /\ (i = id \/ i \in Listed(order))
  BY <1>2, <1>3, <1>4
<1> QED BY <1>5 DEF t

-----------------------------------------------------------------------------
(* Counting. *)

\* There are as many rows as places.
LEMMA ListedCounted ==
    ASSUME NEW S, NEW order \in Seq(S), Once(order)
    PROVE  IsFiniteSet(Listed(order)) /\ Cardinality(Listed(order)) = Len(order)
<1>1. order \in Bijection(1 .. Len(order), Listed(order))
  <2>1. order \in [1 .. Len(order) -> Listed(order)] /\ DOMAIN order = 1 .. Len(order)
    BY DEF Listed
  <2>2. IsInjective(order)
    BY <2>1 DEF Once, IsInjective
  <2>3. \A i \in Listed(order) : \E n \in 1 .. Len(order) : order[n] = i
    BY <2>1 DEF Listed
  <2> QED BY <2>1, <2>2, <2>3 DEF Bijection, Injection, Surjection
<1>2. ExistsBijection(1 .. Len(order), Listed(order))
  BY <1>1 DEF ExistsBijection
<1>3. Len(order) \in Nat
  OBVIOUS
<1> QED BY <1>2, <1>3, FS_NatBijection, FS_CountingElements

\* A set of naturals has a least element.
LEMMA LeastNatural ==
    ASSUME NEW T \in SUBSET Nat, T # {}
    PROVE  \E m \in T : \A n \in T : m <= n
<1> DEFINE R == OpToRel(<, Nat)
<1>1. IsWellFoundedOn(R, Nat)
  BY NatLessThanWellFounded
<1>2. \A m, n \in Nat : m < n => <<m, n>> \in R
  BY DEF OpToRel
<1> HIDE DEF R
<1>3. PICK m \in T : \A n \in T : ~(<<n, m>> \in R)
  BY <1>1, WFMin
<1>4. ASSUME NEW n \in T PROVE m <= n
  <2>1. m \in Nat /\ n \in Nat /\ ~(<<n, m>> \in R)
    BY <1>3
  <2>2. ~(n < m)
    BY <1>2, <2>1
  <2> QED BY <2>1, <2>2
<1> QED BY <1>4

-----------------------------------------------------------------------------
(* A query with a limit. *)

\* Of the rows a WHERE clause lets through there is, for each number up to
\* theirs, one before which that many were written.
LEMMA PlaceExists ==
    ASSUME NEW S, NEW order \in Seq(S), Once(order),
           NEW rows \in SUBSET Listed(order), NEW n \in 1 .. Cardinality(rows)
    PROVE  \E i \in rows : Cardinality({j \in rows : Earlier(order, j, i)}) = n
<1> DEFINE upto  == [m \in 0 .. Len(order) |-> {j \in rows : \E q \in 1 .. m : order[q] = j}]
           count == [m \in 0 .. Len(order) |-> Cardinality(upto[m])]
           T     == {m \in 0 .. Len(order) : n <= count[m]}
<1>1. IsFiniteSet(rows) /\ Cardinality(rows) \in Nat
  BY ListedCounted, FS_Subset, FS_CardinalityType
<1>2. \A m \in 0 .. Len(order) : upto[m] = {j \in rows : \E q \in 1 .. m : order[q] = j}
  OBVIOUS
<1> HIDE DEF upto
<1>3. \A m \in 0 .. Len(order) : count[m] = Cardinality(upto[m])
  OBVIOUS
<1> HIDE DEF count
<1>4. ASSUME NEW m \in 0 .. Len(order)
      PROVE  IsFiniteSet(upto[m]) /\ count[m] \in Nat
  <2>1. upto[m] \in SUBSET rows
    BY <1>2
  <2> QED BY <1>1, <1>3, <2>1, FS_Subset, FS_CardinalityType
<1>5. Len(order) \in 0 .. Len(order) /\ count[Len(order)] = Cardinality(rows)
  <2>1. \A j \in rows : \E q \in 1 .. Len(order) : order[q] = j
    BY DEF Listed
  <2>2. Len(order) \in 0 .. Len(order)
    OBVIOUS
  <2>3. upto[Len(order)] = rows
    BY <1>2, <2>1, <2>2
  <2> QED BY <1>3, <2>2, <2>3
<1>6. count[0] = 0
  <2>1. upto[0] = {} /\ 0 \in 0 .. Len(order)
    BY <1>2
  <2> QED BY <1>3, <2>1, FS_EmptySet
<1>7. PICK m \in T : \A k \in T : m <= k
  <2>1. T \in SUBSET Nat
    OBVIOUS
  <2>2. Len(order) \in T
    BY <1>1, <1>5
  <2> HIDE DEF T
  <2> QED BY <2>1, <2>2, LeastNatural
<1>8. m \in 1 .. Len(order) /\ n <= count[m]
  <2>1. m \in 0 .. Len(order) /\ n <= count[m]
    BY <1>7
  <2>2. m # 0
    BY <1>6, <2>1
  <2> QED BY <2>1, <2>2
<1>9. m - 1 \in 0 .. Len(order) /\ count[m - 1] < n
  <2>1. m - 1 \in 0 .. Len(order) /\ m - 1 \notin T
    BY <1>7, <1>8
  <2>2. ~(n <= count[m - 1])
    BY <2>1
  <2> QED BY <1>4, <2>1, <2>2
<1> DEFINE less == upto[m - 1]
           more == less \cup {order[m]}
<1>10. count[m] \in Nat /\ count[m - 1] \in Nat /\ IsFiniteSet(less)
  BY <1>4, <1>8, <1>9
<1>11. /\ upto[m] \in SUBSET more
       /\ order[m] \notin rows => upto[m] = less
  <2>1. /\ upto[m] = {j \in rows : \E q \in 1 .. m : order[q] = j}
        /\ less = {j \in rows : \E q \in 1 .. m - 1 : order[q] = j}
    BY <1>2, <1>8, <1>9
  <2> HIDE DEF less
  <2>2. \A q \in 1 .. m : q \in 1 .. m - 1 \/ q = m
    BY <1>8
  <2>3. 1 .. m - 1 \subseteq 1 .. m
    BY <1>8
  <2>4. upto[m] \in SUBSET more
    BY <2>1, <2>2
  <2>5. ASSUME order[m] \notin rows PROVE upto[m] = less
    BY <2>1, <2>2, <2>3, <2>5
  <2> QED BY <2>4, <2>5
<1> HIDE DEF less
<1>12. order[m] \in rows
  <2>1. order[m] \notin rows => count[m] = count[m - 1]
    BY <1>3, <1>8, <1>9, <1>11 DEF less
  <2> QED BY <1>8, <1>9, <1>10, <2>1
<1>13. count[m] <= count[m - 1] + 1
  <2>1. IsFiniteSet(more) /\ Cardinality(more)
          = IF order[m] \in less THEN Cardinality(less) ELSE Cardinality(less) + 1
    BY <1>10, FS_AddElement
  <2> HIDE DEF more
  <2>2. Cardinality(upto[m]) <= Cardinality(more)
    BY <1>11, <2>1, FS_Subset
  <2>3. count[m] = Cardinality(upto[m]) /\ count[m - 1] = Cardinality(less)
    BY <1>3, <1>8, <1>9 DEF less
  <2> QED BY <1>10, <2>1, <2>2, <2>3
<1>14. {j \in rows : Earlier(order, j, order[m])} = upto[m]
  <2>1. upto[m] = {j \in rows : \E q \in 1 .. m : order[q] = j}
    BY <1>2, <1>8
  <2>2. \A j : Earlier(order, j, order[m]) <=> \E q \in 1 .. m : order[q] = j
    BY <1>8 DEF Earlier, Once
  <2> QED BY <2>1, <2>2
<1>15. Cardinality(upto[m]) = n
  BY <1>3, <1>8, <1>9, <1>10, <1>13
<1> QED BY <1>12, <1>14, <1>15

\* A query finds rows of its WHERE clause, all of them or as many as its limit
\* (find_reconcilable).
LEMMA OldestFound ==
    ASSUME NEW S, NEW order \in Seq(S), Once(order),
           NEW rows \in SUBSET Listed(order), NEW limit \in Nat
    PROVE  /\ Oldest(order, rows, limit) \in Seq(rows)
           /\ Len(Oldest(order, rows, limit)) <= limit
           /\ DOMAIN Oldest(order, rows, limit) = 1 .. Len(Oldest(order, rows, limit))
<1> DEFINE size == Cardinality(rows)
           top  == IF size < limit THEN size ELSE limit
           Place(i) == Cardinality({j \in rows : Earlier(order, j, i)})
           found == [n \in 1 .. top |-> CHOOSE i \in rows : Place(i) = n]
<1>1. size \in Nat /\ top \in Nat /\ top <= limit /\ top <= size
  BY ListedCounted, FS_Subset, FS_CardinalityType
<1>2. ASSUME NEW n \in 1 .. top PROVE (CHOOSE i \in rows : Place(i) = n) \in rows
  <2>1. n \in 1 .. Cardinality(rows)
    BY <1>1
  <2>2. \E i \in rows : Place(i) = n
    BY <2>1, PlaceExists
  <2> HIDE DEF Place
  <2> QED BY <2>2
<1>3. found \in [1 .. top -> rows]
  <2> HIDE DEF Place, top
  <2> QED BY <1>2
<1>4. Oldest(order, rows, limit) = found
  BY DEF Oldest
<1> HIDE DEF found, top
<1>5. found \in Seq(rows) /\ Len(found) = top
  BY <1>1, <1>3, IsASeq, LenProperties
<1> QED BY <1>1, <1>3, <1>4, <1>5

\* Two orders that agree on the rows of a WHERE clause give the same answer.
LEMMA OldestSame ==
    ASSUME NEW first, NEW second, NEW rows, NEW limit,
           \A i, j \in rows : Earlier(first, i, j) <=> Earlier(second, i, j)
    PROVE  Oldest(first, rows, limit) = Oldest(second, rows, limit)
<1> DEFINE top  == IF Cardinality(rows) < limit THEN Cardinality(rows) ELSE limit
           One(i) == Cardinality({j \in rows : Earlier(first, j, i)})
           Two(i) == Cardinality({j \in rows : Earlier(second, j, i)})
<1>1. ASSUME NEW i \in rows PROVE One(i) = Two(i)
  <2>1. {j \in rows : Earlier(first, j, i)} = {j \in rows : Earlier(second, j, i)}
    OBVIOUS
  <2> QED BY <2>1
<1>2. ASSUME NEW n \in 1 .. top
      PROVE  (CHOOSE i \in rows : One(i) = n) = (CHOOSE i \in rows : Two(i) = n)
  <2>1. \A i \in rows : One(i) = n <=> Two(i) = n
    BY <1>1
  <2> HIDE DEF One, Two
  <2> QED BY <2>1, Zenon
<1>3. /\ Oldest(first, rows, limit) = [n \in 1 .. top |-> CHOOSE i \in rows : One(i) = n]
      /\ Oldest(second, rows, limit) = [n \in 1 .. top |-> CHOOSE i \in rows : Two(i) = n]
  BY Zenon DEF Oldest
<1> HIDE DEF One, Two, top
<1> QED BY <1>2, <1>3, Zenon
=============================================================================
