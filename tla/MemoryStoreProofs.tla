-------------------------- MODULE MemoryStoreProofs --------------------------
(***************************************************************************)
(* What holds of the table and of one page of it, whatever is stored: the  *)
(* order of the rows is strict and total, and a page is an initial part of *)
(* what remains after the cursor.                                          *)
(***************************************************************************)
EXTENDS MemoryStore, FiniteSetTheorems, WellFoundedInduction, TLAPS

-----------------------------------------------------------------------------
(***************************************************************************)
(* Types.                                                                  *)
(***************************************************************************)
StoreOK ==
    /\ present \subseteq Ids
    /\ created \in [Ids -> Times]
    /\ match \in [Ids -> [Queries -> Places]]
    /\ tagged \in [Ids -> BOOLEAN]
    /\ effective \subseteq AuthorityRows
    /\ changes \in 0..MaxChanges

\* The table starts as one of its populations.
LEMMA StoreInitOK == StoreInit => StoreOK
<1> SUFFICES ASSUME StoreInit PROVE StoreOK
  OBVIOUS
<1>1. PICK population \in Populations :
        /\ present = population.present
        /\ created = population.created
        /\ match = population.match
        /\ tagged = population.tagged
  BY DEF StoreInit
<1>2. population \in PopulationShape
  BY StoreAssumption
<1>3. /\ present \subseteq Ids /\ created \in [Ids -> Times]
      /\ match \in [Ids -> [Queries -> Places]] /\ tagged \in [Ids -> BOOLEAN]
  BY <1>1, <1>2 DEF PopulationShape
<1>4. effective \subseteq AuthorityRows /\ changes \in 0..MaxChanges
  BY StoreAssumption DEF StoreInit
<1>5. QED
  BY <1>3, <1>4 DEF StoreOK

\* What is written has its type.
LEMMA WriteOK ==
    ASSUME StoreOK, NEW i \in Ids, Write(i)
    PROVE  match' \in [Ids -> [Queries -> Places]] /\ tagged' \in [Ids -> BOOLEAN]
<1>1. match' \in [Ids -> [Queries -> Places]]
  BY DEF Write, StoreOK
<1>2. tagged' \in [Ids -> BOOLEAN]
  BY DEF Write, StoreOK
<1>3. QED
  BY <1>1, <1>2

\* Every change of rows or authority leaves a table.
LEMMA StoreStepOK == StoreOK /\ StoreNext => StoreOK'
<1> SUFFICES ASSUME StoreOK, StoreNext PROVE StoreOK'
  OBVIOUS
<1>0. Change => changes' \in 0..MaxChanges
  BY StoreAssumption DEF Change, StoreOK
<1>1. ASSUME NEW i \in Ids, Insert(i) PROVE StoreOK'
  <2>1. present' \subseteq Ids /\ effective' = effective
    BY <1>1 DEF Insert, StoreOK
  <2>2. created' \in [Ids -> Times]
    BY <1>1 DEF Insert, StoreOK
  <2>3. QED
    BY <1>0, <1>1, <2>1, <2>2, WriteOK DEF Insert, StoreOK
<1>2. ASSUME NEW i \in Ids, Delete(i) PROVE StoreOK'
  BY <1>0, <1>2 DEF Delete, StoreOK
<1>3. ASSUME NEW i \in Ids, Edit(i) PROVE StoreOK'
  BY <1>0, <1>3, WriteOK DEF Edit, StoreOK
<1>4. ASSUME NEW a \in AuthorityRows, ChangeAuthority(a) PROVE StoreOK'
  <2>1. effective' \subseteq AuthorityRows
    BY <1>4 DEF ChangeAuthority, StoreOK
  <2>2. QED
    BY <1>0, <1>4, <2>1 DEF ChangeAuthority, StoreOK, rows
<1>5. QED
  BY <1>1, <1>2, <1>3, <1>4 DEF StoreNext

\* Only rows of the table are eligible, remain and are on a page.
LEMMA RowsAreIds ==
    ASSUME StoreOK, NEW k, NEW c, NEW cur, NEW n
    PROVE  /\ eligible(k, c) \subseteq present
           /\ eligible(k, c) \subseteq Ids
           /\ remaining(k, c, cur) \subseteq eligible(k, c)
           /\ page(k, c, cur, n) \subseteq remaining(k, c, cur)
<1>1. eligible(k, c) \subseteq present
  BY DEF eligible, memory_read_intersection
<1>2. remaining(k, c, cur) \subseteq eligible(k, c)
  BY DEF remaining
<1>3. page(k, c, cur, n) \subseteq remaining(k, c, cur)
  BY DEF page
<1>4. QED
  BY <1>1, <1>2, <1>3 DEF StoreOK

\* created_at of a row changes only when it is inserted anew.
LEMMA CreatedOnce ==
    ASSUME StoreOK, StoreNext, NEW i \in present
    PROVE  created'[i] = created[i]
<1>1. ASSUME NEW j \in Ids, Insert(j) PROVE created'[i] = created[i]
  <2>1. j # i
    BY <1>1 DEF Insert
  <2>2. QED
    BY <1>1, <2>1 DEF Insert, StoreOK
<1>2. QED
  BY <1>1 DEF StoreNext, Delete, Edit, ChangeAuthority, rows

-----------------------------------------------------------------------------
(***************************************************************************)
(* Pages.                                                                  *)
(***************************************************************************)

\* The order of the pages is a strict total order of the rows.
LEMMA StrictOrder ==
    ASSUME StoreOK, NEW k, NEW c
    PROVE  /\ \A i, j, l \in Ids : Before(k, c, i, j) /\ Before(k, c, j, l) => Before(k, c, i, l)
           /\ \A i, j \in Ids : Before(k, c, i, j) => ~Before(k, c, j, i) /\ i # j
           /\ \A i, j \in Ids : i = j \/ Before(k, c, i, j) \/ Before(k, c, j, i)
<1>1. \A i \in Ids : rank(k, c, i) \in Nat /\ created[i] \in Nat /\ i \in Nat
  BY StoreAssumption DEF rank, StoreOK
<1>2. QED
  BY <1>1 DEF Before

\* A page is an initial part of what remains: all of it if it fits, and the rows that do not
\* come after its last one otherwise.
LEMMA PageIsInitial ==
    ASSUME StoreOK, NEW k, NEW c, NEW cur, NEW limit \in Nat
    PROVE  /\ ~has_more(k, c, cur, limit) => page(k, c, cur, limit) = remaining(k, c, cur)
           /\ \A last \in page(k, c, cur, limit) :
                (\A j \in page(k, c, cur, limit) : j = last \/ Before(k, c, j, last))
                  => \A i \in remaining(k, c, cur) :
                       i \in page(k, c, cur, limit) <=> ~Before(k, c, last, i)
<1> DEFINE R == remaining(k, c, cur)
           B(i) == {j \in R : Before(k, c, j, i)}
<1>1. R \subseteq Ids
  BY RowsAreIds
<1>2. IsFiniteSet(R) /\ Cardinality(R) \in Nat
  BY <1>1, StoreAssumption, FS_Subset, FS_CardinalityType
<1>3. \A i : IsFiniteSet(B(i)) /\ Cardinality(B(i)) \in Nat
  <2>1. \A i : B(i) \subseteq R
    OBVIOUS
  <2>2. QED
    BY <1>2, <2>1, FS_Subset, FS_CardinalityType
<1>4. \A i : i \in page(k, c, cur, limit) <=> i \in R /\ Cardinality(B(i)) < limit
  BY DEF page
<1>5. ASSUME ~has_more(k, c, cur, limit), NEW i \in R
      PROVE  i \in page(k, c, cur, limit)
  <2>1. Cardinality(R) <= limit
    BY <1>2, <1>5 DEF has_more
  <2>2. IsFiniteSet(R \ {i}) /\ Cardinality(R \ {i}) = Cardinality(R) - 1
    BY <1>2, FS_RemoveElement
  <2>3. B(i) \subseteq R \ {i}
    BY <1>1, StrictOrder
  <2>4. Cardinality(B(i)) <= Cardinality(R \ {i})
    BY <2>2, <2>3, FS_Subset
  <2>5. Cardinality(B(i)) \in Nat
    BY <1>3
  <2>6. Cardinality(B(i)) < limit
    <3> HIDE DEF B, R
    <3>1. QED
      BY <1>2, <2>1, <2>2, <2>4, <2>5
  <2>7. QED
    BY <1>4, <2>6
<1>6. ASSUME NEW last \in page(k, c, cur, limit),
             \A j \in page(k, c, cur, limit) : j = last \/ Before(k, c, j, last),
             NEW i \in R
      PROVE  i \in page(k, c, cur, limit) <=> ~Before(k, c, last, i)
  <2>0. last \in Ids /\ i \in Ids /\ last \in R
    BY <1>1, <1>4
  <2>1. i \in page(k, c, cur, limit) => ~Before(k, c, last, i)
    BY <1>6, <2>0, StrictOrder
  <2>2. ASSUME ~Before(k, c, last, i), i # last PROVE i \in page(k, c, cur, limit)
    <3>1. Before(k, c, i, last)
      BY <2>0, <2>2, StrictOrder
    <3>2. \A j \in R : Before(k, c, j, i) => Before(k, c, j, last)
      BY <1>1, <2>0, <3>1, StrictOrder
    <3>3. B(i) \subseteq B(last)
      BY <3>2
    <3>4. Cardinality(B(i)) <= Cardinality(B(last))
      BY <1>3, <3>3, FS_Subset
    <3>5. Cardinality(B(last)) < limit
      BY <1>4
    <3>6. Cardinality(B(i)) \in Nat /\ Cardinality(B(last)) \in Nat
      BY <1>3
    <3>7. Cardinality(B(i)) < limit
      <4> HIDE DEF B, R
      <4>1. QED
        BY <3>4, <3>5, <3>6
    <3>8. QED
      BY <1>4, <3>7
  <2>3. QED
    BY <2>1, <2>2
<1>7. QED
  BY <1>4, <1>5, <1>6

\* A nonempty set of natural numbers has a least one.
LEMMA LeastNatural ==
    ASSUME NEW T, T \subseteq Nat, T # {}
    PROVE  \E n \in T : \A m \in T : n <= m
<1>1. PICK n \in T : \A m \in T : ~(<<m, n>> \in OpToRel(<, Nat))
  BY NatLessThanWellFounded, WFMin
<1>2. \A m \in T : ~(m < n)
  BY <1>1 DEF OpToRel
<1>3. QED
  BY <1>2

\* A page of something is not empty: the first row, which none comes before, is on it.
LEMMA PageHasFirst ==
    ASSUME StoreOK, NEW k, NEW c, NEW cur, NEW limit \in Nat \ {0}, remaining(k, c, cur) # {}
    PROVE  page(k, c, cur, limit) # {}
<1> DEFINE R == remaining(k, c, cur)
           B(i) == {j \in R : Before(k, c, j, i)}
<1>1. R \subseteq Ids
  BY RowsAreIds
<1>2. IsFiniteSet(R)
  BY <1>1, StoreAssumption, FS_Subset
<1>3. \A i : IsFiniteSet(B(i)) /\ Cardinality(B(i)) \in Nat
  <2>1. \A i : B(i) \subseteq R
    OBVIOUS
  <2>2. QED
    BY <1>2, <2>1, FS_Subset, FS_CardinalityType
<1>4. PICK n \in {Cardinality(B(i)) : i \in R} : \A m \in {Cardinality(B(i)) : i \in R} : n <= m
  <2>1. {Cardinality(B(i)) : i \in R} \subseteq Nat /\ {Cardinality(B(i)) : i \in R} # {}
    BY <1>3
  <2>2. QED
    BY <2>1, LeastNatural
<1>5. PICK i \in R : n = Cardinality(B(i))
  BY <1>4
<1>6. \A j \in R : Cardinality(B(i)) <= Cardinality(B(j))
  BY <1>4, <1>5
<1>7. B(i) = {}
  <2>1. SUFFICES ASSUME NEW j \in B(i) PROVE FALSE
    OBVIOUS
  <2>2. j \in R /\ j \in Ids /\ i \in Ids /\ Before(k, c, j, i)
    BY <1>1
  <2>3. B(j) \subseteq B(i) \ {j}
    <3>1. ASSUME NEW l \in B(j) PROVE l \in B(i) \ {j}
      <4>1. l \in R /\ l \in Ids /\ Before(k, c, l, j)
        BY <1>1
      <4>2. Before(k, c, l, i) /\ l # j
        BY <2>2, <4>1, StrictOrder
      <4>3. QED
        BY <4>1, <4>2
    <3>2. QED
      BY <3>1
  <2>4. IsFiniteSet(B(i) \ {j}) /\ Cardinality(B(i) \ {j}) = Cardinality(B(i)) - 1
    BY <1>3, FS_RemoveElement
  <2>5. Cardinality(B(j)) <= Cardinality(B(i) \ {j})
    BY <2>3, <2>4, FS_Subset
  <2>6. /\ Cardinality(B(i)) <= Cardinality(B(j))
        /\ Cardinality(B(i)) \in Nat /\ Cardinality(B(j)) \in Nat
    BY <1>3, <1>6, <2>2
  <2> HIDE DEF B
  <2>7. QED
    BY <2>4, <2>5, <2>6
<1>8. Cardinality(B(i)) = 0
  BY <1>7, FS_EmptySet
<1>9. i \in page(k, c, cur, limit)
  BY <1>8 DEF page
<1>10. QED
  BY <1>9

\* A page that leaves something over does not hold all that remains: its rows have different
\* numbers of rows before them, all below the limit.
LEMMA PageLeavesRest ==
    ASSUME StoreOK, NEW k, NEW c, NEW cur, NEW limit \in Nat \ {0}, has_more(k, c, cur, limit)
    PROVE  page(k, c, cur, limit) # remaining(k, c, cur)
<1> DEFINE R == remaining(k, c, cur)
           B(i) == {j \in R : Before(k, c, j, i)}
           place == [i \in R |-> Cardinality(B(i))]
<1>1. R \subseteq Ids
  BY RowsAreIds
<1>2. IsFiniteSet(R) /\ Cardinality(R) \in Nat
  BY <1>1, StoreAssumption, FS_Subset, FS_CardinalityType
<1>3. \A i : IsFiniteSet(B(i)) /\ Cardinality(B(i)) \in Nat
  <2>1. \A i : B(i) \subseteq R
    OBVIOUS
  <2>2. QED
    BY <1>2, <2>1, FS_Subset, FS_CardinalityType
<1>4. ASSUME NEW i \in R, NEW j \in R, Before(k, c, i, j)
      PROVE  Cardinality(B(i)) < Cardinality(B(j))
  <2>1. i \in Ids /\ j \in Ids
    BY <1>1
  <2>2. B(i) \subseteq B(j) \ {i}
    <3>1. ASSUME NEW l \in B(i) PROVE l \in B(j) \ {i}
      <4>1. l \in R /\ l \in Ids /\ Before(k, c, l, i)
        BY <1>1
      <4>2. Before(k, c, l, j) /\ l # i
        BY <1>4, <2>1, <4>1, StrictOrder
      <4>3. QED
        BY <4>1, <4>2
    <3>2. QED
      BY <3>1
  <2>3. i \in B(j)
    BY <1>4
  <2>4. IsFiniteSet(B(j) \ {i}) /\ Cardinality(B(j) \ {i}) = Cardinality(B(j)) - 1
    BY <1>3, <2>3, FS_RemoveElement
  <2>5. Cardinality(B(i)) <= Cardinality(B(j) \ {i})
    BY <2>2, <2>4, FS_Subset
  <2>6. Cardinality(B(i)) \in Nat /\ Cardinality(B(j)) \in Nat
    BY <1>3
  <2> HIDE DEF B
  <2>7. QED
    BY <2>4, <2>5, <2>6
<1>5. SUFFICES ASSUME page(k, c, cur, limit) = R PROVE FALSE
  OBVIOUS
<1>6. ASSUME NEW i \in R PROVE Cardinality(B(i)) \in 0..(limit - 1)
  <2>1. Cardinality(B(i)) < limit
    BY <1>5, <1>6 DEF page
  <2>2. Cardinality(B(i)) \in Nat
    BY <1>3
  <2> HIDE DEF B
  <2>3. QED
    BY <2>1, <2>2
<1>7. place \in Injection(R, 0..(limit - 1))
  <2>1. place \in [R -> 0..(limit - 1)]
    BY <1>6
  <2>2. ASSUME NEW i \in R, NEW j \in R, place[i] = place[j] PROVE i = j
    <3>1. i \in Ids /\ j \in Ids
      BY <1>1
    <3>2. Cardinality(B(i)) = Cardinality(B(j)) /\ Cardinality(B(i)) \in Nat
      BY <1>3, <2>2
    <3>3. ~Before(k, c, i, j) /\ ~Before(k, c, j, i)
      <4>1. ~(Cardinality(B(i)) < Cardinality(B(j))) /\ ~(Cardinality(B(j)) < Cardinality(B(i)))
        <5> HIDE DEF B
        <5>1. QED
          BY <3>2
      <4>2. QED
        BY <1>4, <4>1
    <3>4. QED
      BY <3>1, <3>3, StrictOrder
  <2> HIDE DEF place
  <2>3. QED
    BY <2>1, <2>2 DEF Injection, IsInjective
<1>8. IsFiniteSet(0..(limit - 1)) /\ Cardinality(0..(limit - 1)) = limit
  <2>1. limit - 1 \in Int /\ 0 \in Int
    OBVIOUS
  <2>2. /\ IsFiniteSet(0..(limit - 1))
        /\ Cardinality(0..(limit - 1)) = IF 0 > limit - 1 THEN 0 ELSE limit - 1 - 0 + 1
    BY <2>1, FS_Interval
  <2>3. QED
    BY <2>2
<1>9. Cardinality(R) <= limit
  BY <1>7, <1>8, FS_Injection
<1>10. Cardinality(R) > limit
  BY DEF has_more
<1>11. QED
  BY <1>2, <1>9, <1>10

=============================================================================
