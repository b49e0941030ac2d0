-------------------------- MODULE GuiHistoryProofs ---------------------------
(***************************************************************************)
(* Theorems about GuiHistory, for every set of windows and entries and     *)
(* every length of the lists: what remember does to a list, and what the   *)
(* lists hold that the windows keep in memory and in the file.             *)
(***************************************************************************)
EXTENDS GuiHistory, FiniteSetTheorems, SequenceTheorems, TLAPS

-----------------------------------------------------------------------------
(***************************************************************************)
(* Positions of a list, counted in their order.                            *)
(***************************************************************************)
RankIn(K, i) == Cardinality({x \in K : x <= i})

LEMMA RanksEnumerate ==
    ASSUME NEW n \in Nat, NEW K \in SUBSET (1..n)
    PROVE  /\ IsFiniteSet(K) /\ Cardinality(K) \in Nat
           /\ \A i \in K : RankIn(K, i) \in 1..Cardinality(K)
           /\ \A i, j \in K : i < j => RankIn(K, i) < RankIn(K, j)
           /\ \A r \in 1..Cardinality(K) : \E i \in K : RankIn(K, i) = r
<1> DEFINE Upto(i) == {x \in K : x <= i}
<1>1. IsFiniteSet(K) /\ Cardinality(K) \in Nat
  <2>1. IsFiniteSet(1..n)
    BY FS_Interval
  <2> QED BY <2>1, FS_Subset, FS_CardinalityType
<1>2. ASSUME NEW i \in K
      PROVE  /\ IsFiniteSet(Upto(i)) /\ Cardinality(Upto(i)) \in Nat
             /\ RankIn(K, i) = Cardinality(Upto(i))
             /\ RankIn(K, i) \in 1..Cardinality(K)
  <2>1. Upto(i) \in SUBSET K /\ i \in Upto(i)
    OBVIOUS
  <2> HIDE DEF Upto
  <2>2. /\ IsFiniteSet(Upto(i)) /\ Cardinality(Upto(i)) <= Cardinality(K)
        /\ Cardinality(Upto(i)) \in Nat
    BY <1>1, <2>1, FS_Subset, FS_CardinalityType
  <2>3. Cardinality(Upto(i)) # 0
    BY <2>1, <2>2, FS_EmptySet
  <2>4. RankIn(K, i) = Cardinality(Upto(i))
    BY DEF RankIn, Upto
  <2> QED BY <1>1, <2>2, <2>3, <2>4
<1>3. ASSUME NEW i \in K, NEW j \in K, i < j
      PROVE  RankIn(K, i) < RankIn(K, j)
  <2>1. Upto(i) \in SUBSET Upto(j) /\ j \in Upto(j) /\ j \notin Upto(i)
    <3>1. i \in Int /\ j \in Int /\ \A x \in K : x \in Int
      OBVIOUS
    <3>2. \A x \in K : x <= i => x <= j
      BY <1>3, <3>1
    <3>3. j <= j /\ ~(j <= i)
      BY <1>3, <3>1
    <3> QED BY <3>2, <3>3
  <2> HIDE DEF Upto
  <2>2. Upto(i) # Upto(j)
    BY <2>1
  <2>3. Cardinality(Upto(i)) <= Cardinality(Upto(j)) /\ Cardinality(Upto(i)) # Cardinality(Upto(j))
    BY <1>2, <2>1, <2>2, FS_Subset
  <2> QED BY <1>2, <2>3
<1>4. ASSUME NEW r \in 1..Cardinality(K)
      PROVE  \E i \in K : RankIn(K, i) = r
  <2> DEFINE rank == [i \in K |-> RankIn(K, i)]
             m == Cardinality(K)
  <2>1. rank \in [K -> 1..m]
    BY <1>2
  <2>2. \A i, j \in K : rank[i] = rank[j] => i = j
    <3>1. \A i, j \in K : i \in Int /\ j \in Int /\ (i # j => i < j \/ j < i)
      OBVIOUS
    <3>2. ASSUME NEW i \in K, NEW j \in K, i < j
          PROVE  rank[i] # rank[j]
      <4>1. RankIn(K, i) < RankIn(K, j) /\ RankIn(K, i) \in Int
        <5>1. RankIn(K, i) \in 1..Cardinality(K)
          BY <1>2
        <5>2. RankIn(K, i) < RankIn(K, j)
          BY <1>3, <3>2
        <5> QED BY <1>1, <5>1, <5>2
      <4> QED BY <4>1
    <3> QED BY <3>1, <3>2
  <2>3. rank \in Injection(K, 1..m)
    <3> HIDE DEF rank, m
    <3> QED BY <2>1, <2>2 DEF Injection, IsInjective
  <2>4. IsFiniteSet(1..m) /\ Cardinality(1..m) = m
    BY <1>1, FS_Interval
  <2>5. rank \in Surjection(K, 1..m)
    <3> HIDE DEF rank
    <3> QED BY <2>3, <2>4, FS_Injection
  <2> HIDE DEF rank
  <2>6. PICK i \in K : rank[i] = r
    BY <2>5 DEF Surjection
  <2> QED BY <2>6 DEF rank
<1> QED BY <1>1, <1>2, <1>3, <1>4

\* A set of positions that is not empty has a last one.
LEMMA HasLast ==
    ASSUME NEW n \in Nat, NEW K \in SUBSET (1..n), K # {}
    PROVE  \E i \in K : \A j \in K : j <= i
<1>1. /\ IsFiniteSet(K) /\ Cardinality(K) \in Nat
      /\ \A i \in K : RankIn(K, i) \in 1..Cardinality(K)
      /\ \A i, j \in K : i < j => RankIn(K, i) < RankIn(K, j)
      /\ \A r \in 1..Cardinality(K) : \E i \in K : RankIn(K, i) = r
  BY RanksEnumerate
<1>2. Cardinality(K) \in 1..Cardinality(K)
  <2>1. Cardinality(K) # 0
    BY <1>1, FS_EmptySet
  <2> QED BY <1>1, <2>1
<1>3. PICK i \in K : RankIn(K, i) = Cardinality(K)
  BY <1>1, <1>2
<1>4. ASSUME NEW j \in K, ~(j <= i)
      PROVE  FALSE
  <2>1. i < j
    BY <1>4
  <2>2. RankIn(K, i) < RankIn(K, j) /\ RankIn(K, j) \in 1..Cardinality(K)
    BY <1>1, <2>1
  <2> QED BY <1>1, <1>3, <2>2
<1> QED BY <1>4

-----------------------------------------------------------------------------
(***************************************************************************)
(* remember.                                                               *)
(***************************************************************************)
Distinct(list) == \A i, j \in 1..Len(list) : i # j => list[i] # list[j]

\* at[j] is where the j-th of the n entries that stay was.
Keeps(list, value, n, at) ==
    /\ n \in Nat /\ at \in [1..n -> 1..Len(list)]
    /\ \A j \in 1..n : list[at[j]] # value
    /\ \A i, j \in 1..n : i < j => at[i] < at[j]
    /\ \A i \in 1..Len(list) : list[i] # value => \E j \in 1..n : at[j] = i
    /\ Distinct(list) => Len(list) <= n + 1

LEMMA WithoutKeeps ==
    ASSUME NEW S, NEW list \in Seq(S), NEW value
    PROVE  /\ Without(list, value) \in Seq(S)
           /\ \E at : /\ Keeps(list, value, Len(Without(list, value)), at)
                      /\ \A j \in 1..Len(Without(list, value)) :
                            Without(list, value)[j] = list[at[j]]
<1> DEFINE kept == {i \in 1..Len(list) : list[i] # value}
           n == Cardinality(kept)
           at == [j \in 1..n |-> CHOOSE i \in kept : RankIn(kept, i) = j]
<1>1. /\ Len(list) \in Nat /\ \A i \in 1..Len(list) : list[i] \in S
  OBVIOUS
<1>2. /\ IsFiniteSet(kept) /\ n \in Nat
      /\ \A i \in kept : RankIn(kept, i) \in 1..n
      /\ \A i, j \in kept : i < j => RankIn(kept, i) < RankIn(kept, j)
      /\ \A r \in 1..n : \E i \in kept : RankIn(kept, i) = r
  <2>1. kept \in SUBSET (1..Len(list))
    OBVIOUS
  <2> HIDE DEF kept
  <2> QED BY <1>1, <2>1, RanksEnumerate
<1>3. Without(list, value) = [j \in 1..n |-> list[at[j]]]
  BY DEF Without, RankIn
<1>4. \A i \in kept : i \in 1..Len(list) /\ list[i] # value
  OBVIOUS
<1>5. \A i \in 1..Len(list) : list[i] # value => i \in kept
  OBVIOUS
<1>6. ASSUME NEW j \in 1..n
      PROVE  at[j] \in kept /\ RankIn(kept, at[j]) = j
  <2> HIDE DEF kept
  <2> QED BY <1>2
<1>7. at \in [1..n -> 1..Len(list)]
  <2> SUFFICES ASSUME NEW j \in 1..n PROVE at[j] \in 1..Len(list)
    OBVIOUS
  <2> HIDE DEF at, kept
  <2> QED BY <1>4, <1>6
<1>8. Without(list, value) \in Seq(S) /\ Len(Without(list, value)) = n
  <2>1. [j \in 1..n |-> list[at[j]]] \in [1..n -> S]
    <3> HIDE DEF at, kept
    <3> QED BY <1>1, <1>7
  <2> HIDE DEF at, n
  <2> QED BY <1>2, <1>3, <2>1
<1>9. ASSUME NEW i \in 1..n, NEW j \in 1..n, i < j
      PROVE  at[i] < at[j]
  <2> HIDE DEF at, kept
  <2>1. at[i] \in Int /\ at[j] \in Int /\ i \in Int /\ j \in Int
    BY <1>7
  <2>2. ~(at[j] < at[i]) /\ at[i] # at[j]
    <3>1. RankIn(kept, at[i]) = i /\ RankIn(kept, at[j]) = j
      BY <1>6
    <3>2. at[j] < at[i] => RankIn(kept, at[j]) < RankIn(kept, at[i])
      BY <1>2, <1>6
    <3> QED BY <1>9, <2>1, <3>1, <3>2
  <2> QED BY <2>1, <2>2
<1>10. ASSUME NEW i \in kept
       PROVE  \E j \in 1..n : at[j] = i
  <2> HIDE DEF at, kept
  <2>1. PICK j : j = RankIn(kept, i)
    OBVIOUS
  <2>2. j \in 1..n
    BY <1>2, <2>1
  <2>3. at[j] \in kept /\ RankIn(kept, at[j]) = RankIn(kept, i)
    BY <1>6, <2>1, <2>2
  <2>4. i \in Int /\ at[j] \in Int
    BY <1>4, <2>3
  <2>5. ~(i < at[j]) /\ ~(at[j] < i)
    <3>1. RankIn(kept, i) \in Int
      BY <2>1, <2>2
    <3>2. /\ i < at[j] => RankIn(kept, i) < RankIn(kept, at[j])
          /\ at[j] < i => RankIn(kept, at[j]) < RankIn(kept, i)
      BY <1>2, <2>3
    <3> QED BY <2>3, <3>1, <3>2
  <2> QED BY <2>2, <2>4, <2>5
<1>11. ASSUME Distinct(list)
       PROVE  Len(list) <= n + 1
  <2>1. IsFiniteSet(1..Len(list)) /\ Cardinality(1..Len(list)) = Len(list)
    <3>1. PICK m \in Nat : m = Len(list)
      BY <1>1
    <3>2. IsFiniteSet(1..m) /\ Cardinality(1..m) = IF 1 > m THEN 0 ELSE m - 1 + 1
      BY FS_Interval
    <3> QED BY <3>1, <3>2
  <2>2. CASE \E p \in 1..Len(list) : list[p] = value
    <3>1. PICK p \in 1..Len(list) : list[p] = value
      BY <2>2
    <3>2. 1..Len(list) \in SUBSET (kept \cup {p})
      BY <1>5, <1>11, <3>1 DEF Distinct
    <3>3. IsFiniteSet(kept \cup {p}) /\ Cardinality(kept \cup {p}) <= n + 1
                                     /\ Cardinality(kept \cup {p}) \in Nat
      <4> HIDE DEF kept
      <4>1. Cardinality(kept \cup {p}) = IF p \in kept THEN n ELSE n + 1
        BY <1>2, FS_AddElement
      <4>2. IsFiniteSet(kept \cup {p})
        BY <1>2, FS_AddElement
      <4> QED BY <1>2, <4>1, <4>2
    <3>4. Cardinality(1..Len(list)) <= Cardinality(kept \cup {p})
      <4> HIDE DEF kept
      <4> QED BY <3>2, <3>3, FS_Subset
    <3> HIDE DEF n
    <3> QED BY <1>1, <1>2, <2>1, <3>3, <3>4
  <2>3. CASE ~\E p \in 1..Len(list) : list[p] = value
    <3>1. kept = 1..Len(list)
      BY <2>3
    <3>2. n = Len(list)
      BY <2>1, <3>1
    <3> HIDE DEF n
    <3> QED BY <1>1, <3>2
  <2> QED BY <2>2, <2>3
<1>12. /\ Keeps(list, value, n, at)
       /\ \A j \in 1..n : Without(list, value)[j] = list[at[j]]
  <2>1. \A j \in 1..n : list[at[j]] # value
    <3> HIDE DEF at, kept
    <3> QED BY <1>4, <1>6
  <2>2. \A i \in 1..Len(list) : list[i] # value => \E j \in 1..n : at[j] = i
    BY <1>5, <1>10
  <2> HIDE DEF at, n
  <2> QED BY <1>2, <1>3, <1>7, <1>9, <1>11, <2>1, <2>2 DEF Keeps
<1> HIDE DEF at, n, kept
<1> QED BY <1>8, <1>12

\* The value is first, and the others follow in the order they had.
Moved(new, list, value) ==
    \E n, at : 
        /\ Keeps(list, value, n, at)
        /\ Len(new) = IF n + 1 < MAX_RECENTS THEN n + 1 ELSE MAX_RECENTS
        /\ Len(new) \in Nat \ {0} /\ new[1] = value
        /\ \A j \in 2..Len(new) : j - 1 \in 1..n /\ new[j] = list[at[j - 1]]

LEMMA RememberMoves ==
    ASSUME NEW S, NEW list \in Seq(S), NEW value \in S
    PROVE  remember(list, value) \in Seq(S) /\ Moved(remember(list, value), list, value)
<1> DEFINE rest == Without(list, value)
           all == <<value>> \o rest
           m == IF Len(all) < MAX_RECENTS THEN Len(all) ELSE MAX_RECENTS
<1>1. rest \in Seq(S) /\ \E at : /\ Keeps(list, value, Len(rest), at)
                                 /\ \A j \in 1..Len(rest) : rest[j] = list[at[j]]
  BY WithoutKeeps
<1>2. remember(list, value) = SubSeq(all, 1, m)
  BY DEF remember, Shortened
<1> HIDE DEF rest
<1>3. PICK at : /\ Keeps(list, value, Len(rest), at)
                /\ \A j \in 1..Len(rest) : rest[j] = list[at[j]]
  BY <1>1
<1>4. Len(rest) \in Nat
  BY <1>1
<1>5. /\ all \in Seq(S) /\ Len(all) = Len(rest) + 1 /\ all[1] = value
      /\ \A j \in 2..Len(all) : all[j] = rest[j - 1]
  <2>1. <<value>> \in Seq(S) /\ Len(<<value>>) = 1
    OBVIOUS
  <2>2. /\ all \in Seq(S) /\ Len(all) = 1 + Len(rest)
        /\ \A i \in 1..(1 + Len(rest)) :
              all[i] = IF i <= 1 THEN <<value>>[i] ELSE rest[i - 1]
    BY <1>1, <2>1, ConcatProperties
  <2> HIDE DEF all
  <2> QED BY <1>4, <2>2
<1> HIDE DEF all
<1>6. /\ m \in 1..Len(all) /\ m <= Len(all)
      /\ m = IF Len(rest) + 1 < MAX_RECENTS THEN Len(rest) + 1 ELSE MAX_RECENTS
  BY <1>4, <1>5, GuiHistoryAssumption
<1> HIDE DEF m
<1>7. /\ SubSeq(all, 1, m) \in Seq(S) /\ Len(SubSeq(all, 1, m)) = m
      /\ \A j \in 1..m : SubSeq(all, 1, m)[j] = all[j]
  <2>1. \A i \in 1..m : all[i] \in S
    BY <1>5, <1>6
  <2>2. 1 \in Int /\ m \in Int /\ 1 <= m
    BY <1>4, <1>5, <1>6
  <2>3. /\ SubSeq(all, 1, m) \in Seq(S)
        /\ Len(SubSeq(all, 1, m)) = IF 1 <= m THEN m - 1 + 1 ELSE 0
        /\ \A i \in 1..(m - 1 + 1) : SubSeq(all, 1, m)[i] = all[1 + i - 1]
    BY <2>1, <2>2, SubSeqProperties
  <2> QED BY <2>2, <2>3
<1>8. /\ Len(remember(list, value)) = m /\ remember(list, value)[1] = value
      /\ \A j \in 2..m : j - 1 \in 1..Len(rest)
                         /\ remember(list, value)[j] = list[at[j - 1]]
  <2>1. 1 \in 1..m
    BY <1>4, <1>5, <1>6
  <2>2. ASSUME NEW j \in 2..m
        PROVE  j - 1 \in 1..Len(rest) /\ j \in 1..m /\ j \in 2..Len(all)
    BY <1>4, <1>5, <1>6
  <2> QED BY <1>2, <1>3, <1>5, <1>7, <2>1, <2>2
<1>9. m \in Nat \ {0}
  BY <1>4, <1>5, <1>6
<1>10. remember(list, value) \in Seq(S)
  BY <1>2, <1>7
<1>11. Moved(remember(list, value), list, value)
  <2>1. PICK new : new = remember(list, value)
    OBVIOUS
  <2>2. PICK n : n = Len(rest)
    OBVIOUS
  <2> QED BY <1>3, <1>6, <1>8, <1>9, <2>1, <2>2 DEF Moved
<1> QED BY <1>10, <1>11

-----------------------------------------------------------------------------
(***************************************************************************)
(* The lists hold what was used.                                           *)
(***************************************************************************)
Chosen == [Keys -> Entries]
Lists  == [Keys -> Seq(Entries)]

UsedIn(us, key) == {us[i][key] : i \in 1..Len(us)}

Good(us, key, list) == Distinct(list) /\ RangeOf(list) \subseteq UsedIn(us, key)

LEMMA OneMoreUse ==
    ASSUME NEW us \in Seq(Chosen), NEW chosen \in Chosen, NEW key \in Keys
    PROVE  /\ Append(us, chosen) \in Seq(Chosen)
           /\ Len(us) \in Nat /\ Len(Append(us, chosen)) = Len(us) + 1
           /\ \A i \in 1..Len(us) : Append(us, chosen)[i] = us[i]
           /\ Append(us, chosen)[Len(us) + 1] = chosen
           /\ UsedIn(Append(us, chosen), key) = UsedIn(us, key) \cup {chosen[key]}
<1> DEFINE more == Append(us, chosen)
<1>1. /\ more \in Seq(Chosen) /\ Len(us) \in Nat /\ Len(more) = Len(us) + 1
      /\ \A i \in 1..Len(us) : more[i] = us[i]
      /\ more[Len(us) + 1] = chosen
  OBVIOUS
<1> HIDE DEF more
<1>2. /\ \A i \in 1..Len(more) : i \in 1..Len(us) \/ i = Len(us) + 1
      /\ \A i \in 1..Len(us) : i \in 1..Len(more)
      /\ Len(us) + 1 \in 1..Len(more)
  BY <1>1
<1>3. UsedIn(more, key) = UsedIn(us, key) \cup {chosen[key]}
  BY <1>1, <1>2 DEF UsedIn
<1> QED BY <1>1, <1>3 DEF more

\* Where the entries of the new list come from.
LEMMA MovedFrom ==
    ASSUME NEW S, NEW list \in Seq(S), NEW value, NEW new, Moved(new, list, value),
           NEW i \in 1..Len(new)
    PROVE  \/ i = 1 /\ new[i] = value
           \/ i \in 2..Len(new) /\ new[i] # value
              /\ \E p \in 1..Len(list) : new[i] = list[p]
<1>1. PICK n, at :
        /\ Keeps(list, value, n, at)
        /\ Len(new) \in Nat \ {0} /\ new[1] = value
        /\ \A j \in 2..Len(new) : j - 1 \in 1..n /\ new[j] = list[at[j - 1]]
  BY DEF Moved
<1>2. i = 1 \/ i \in 2..Len(new)
  BY <1>1
<1>3. ASSUME i \in 2..Len(new)
      PROVE  new[i] # value /\ \E p \in 1..Len(list) : new[i] = list[p]
  <2>1. i - 1 \in 1..n /\ new[i] = list[at[i - 1]]
    BY <1>1, <1>3
  <2>2. PICK j : j = i - 1
    OBVIOUS
  <2> QED BY <1>1, <2>1, <2>2 DEF Keeps
<1> QED BY <1>1, <1>2, <1>3

LEMMA RememberGood ==
    ASSUME NEW us \in Seq(Chosen), NEW chosen \in Chosen, NEW key \in Keys,
           NEW list \in Seq(Entries), Good(us, key, list)
    PROVE  /\ Good(Append(us, chosen), key, list)
           /\ Good(Append(us, chosen), key, remember(list, chosen[key]))
<1>1. PICK value \in Entries : value = chosen[key]
  BY DEF Chosen
<1>2. UsedIn(Append(us, chosen), key) = UsedIn(us, key) \cup {value}
  BY <1>1, OneMoreUse
<1>3. PICK new : new = remember(list, value)
  OBVIOUS
<1>4. new \in Seq(Entries) /\ Moved(new, list, value)
  BY <1>3, RememberMoves
<1>5. \A i \in 1..Len(new) : \/ i = 1 /\ new[i] = value
                             \/ i \in 2..Len(new) /\ new[i] # value
                                /\ \E p \in 1..Len(list) : new[i] = list[p]
  BY <1>4, MovedFrom
<1>6. RangeOf(new) \subseteq RangeOf(list) \cup {value}
  BY <1>5 DEF RangeOf
<1>7. ASSUME NEW i \in 1..Len(new), NEW j \in 1..Len(new), i < j
      PROVE  new[i] # new[j]
  <2>1. PICK n, at :
          /\ Keeps(list, value, n, at)
          /\ \A x \in 2..Len(new) : x - 1 \in 1..n /\ new[x] = list[at[x - 1]]
    BY <1>4 DEF Moved
  <2>2. CASE i = 1
    <3>1. j # 1
      BY <1>7, <2>2
    <3> QED BY <1>5, <2>2, <3>1
  <2>3. CASE i \in 2..Len(new)
    <3>1. j \in 2..Len(new) /\ i - 1 < j - 1
      BY <1>7, <2>3
    <3>2. PICK x, y : x = i - 1 /\ y = j - 1
      OBVIOUS
    <3>3. x \in 1..n /\ y \in 1..n /\ new[i] = list[at[x]] /\ new[j] = list[at[y]] /\ x < y
      BY <2>1, <2>3, <3>1, <3>2
    <3>4. at[x] \in 1..Len(list) /\ at[y] \in 1..Len(list) /\ at[x] < at[y]
      BY <2>1, <3>3 DEF Keeps
    <3>5. at[x] # at[y]
      BY <3>4
    <3> QED BY <3>3, <3>4, <3>5 DEF Good, Distinct
  <2> QED BY <1>5, <2>2, <2>3
<1>8. Distinct(new)
  <2>1. \A i, j \in 1..Len(new) : i # j => i < j \/ j < i
    OBVIOUS
  <2> QED BY <1>7, <2>1 DEF Distinct
<1> QED BY <1>1, <1>2, <1>3, <1>6, <1>8 DEF Good

-----------------------------------------------------------------------------
(***************************************************************************)
(* When an entry was last used.                                            *)
(***************************************************************************)
IsLast(us, key, value, i) ==
    /\ i \in 1..Len(us) /\ us[i][key] = value
    /\ \A j \in (i + 1)..Len(us) : us[j][key] # value

LastIn(us, key, value) ==
    CHOOSE i \in 1..Len(us) :
        /\ us[i][key] = value
        /\ \A j \in (i + 1)..Len(us) : us[j][key] # value

LEMMA LastIs ==
    ASSUME NEW us \in Seq(Chosen), NEW key, NEW value, NEW i, IsLast(us, key, value, i)
    PROVE  LastIn(us, key, value) = i
<1>1. PICK last : last = LastIn(us, key, value)
  OBVIOUS
<1>2. IsLast(us, key, value, last)
  BY <1>1 DEF IsLast, LastIn
<1>3. Len(us) \in Nat /\ i \in Int /\ last \in Int
  BY <1>2 DEF IsLast
<1>4. ~(i < last) /\ ~(last < i)
  <2>1. i < last => last \in (i + 1)..Len(us)
    BY <1>2, <1>3 DEF IsLast
  <2>2. last < i => i \in (last + 1)..Len(us)
    BY <1>3 DEF IsLast
  <2> QED BY <1>2, <2>1, <2>2 DEF IsLast
<1> QED BY <1>1, <1>3, <1>4

LEMMA LastExists ==
    ASSUME NEW us \in Seq(Chosen), NEW key, NEW value \in UsedIn(us, key)
    PROVE  \E i : IsLast(us, key, value, i)
<1> DEFINE K == {i \in 1..Len(us) : us[i][key] = value}
<1>1. K # {} /\ K \in SUBSET (1..Len(us)) /\ Len(us) \in Nat
  BY DEF UsedIn
<1>2. PICK i \in K : \A j \in K : j <= i
  <2> HIDE DEF K
  <2> QED BY <1>1, HasLast
<1>3. ASSUME NEW j \in (i + 1)..Len(us)
      PROVE  us[j][key] # value
  <2>1. j \in 1..Len(us) /\ ~(j <= i)
    BY <1>1
  <2> QED BY <1>2, <2>1
<1> QED BY <1>3 DEF IsLast

LEMMA LastAfterUse ==
    ASSUME NEW us \in Seq(Chosen), NEW chosen \in Chosen, NEW key \in Keys
    PROVE  /\ LastIn(Append(us, chosen), key, chosen[key]) = Len(us) + 1
           /\ \A value \in UsedIn(us, key) :
                 /\ LastIn(us, key, value) \in 1..Len(us)
                 /\ value # chosen[key] =>
                       LastIn(Append(us, chosen), key, value) = LastIn(us, key, value)
<1>1. PICK more : more = Append(us, chosen)
  OBVIOUS
<1>2. /\ more \in Seq(Chosen) /\ Len(us) \in Nat /\ Len(more) = Len(us) + 1
      /\ \A i \in 1..Len(us) : more[i] = us[i]
      /\ more[Len(us) + 1] = chosen
  BY <1>1, OneMoreUse
<1>3. LastIn(more, key, chosen[key]) = Len(us) + 1
  <2>1. Len(us) + 1 \in 1..Len(more) /\ \A j \in ((Len(us) + 1) + 1)..Len(more) : FALSE
    BY <1>2
  <2>2. IsLast(more, key, chosen[key], Len(us) + 1)
    BY <1>2, <2>1 DEF IsLast
  <2> QED BY <1>2, <2>2, LastIs
<1>4. ASSUME NEW value \in UsedIn(us, key)
      PROVE  /\ LastIn(us, key, value) \in 1..Len(us)
             /\ value # chosen[key] => LastIn(more, key, value) = LastIn(us, key, value)
  <2>1. PICK i : IsLast(us, key, value, i)
    BY LastExists
  <2>2. LastIn(us, key, value) = i
    BY <2>1, LastIs
  <2>3. i \in 1..Len(us)
    BY <2>1 DEF IsLast
  <2>4. ASSUME value # chosen[key]
        PROVE  IsLast(more, key, value, i)
    <3>1. i \in 1..Len(more) /\ more[i][key] = value
      BY <1>2, <2>1, <2>3 DEF IsLast
    <3>2. ASSUME NEW j \in (i + 1)..Len(more)
          PROVE  more[j][key] # value
      <4>1. (j \in (i + 1)..Len(us) /\ j \in 1..Len(us)) \/ j = Len(us) + 1
        BY <1>2, <2>3
      <4> QED BY <1>2, <2>1, <2>4, <4>1 DEF IsLast
    <3> QED BY <3>1, <3>2 DEF IsLast
  <2> QED BY <1>2, <2>2, <2>3, <2>4, LastIs
<1> QED BY <1>1, <1>3, <1>4

-----------------------------------------------------------------------------
(***************************************************************************)
(* The list holds the entries that were used last.                         *)
(***************************************************************************)
RecentsOf(us, key, list) ==
    /\ RangeOf(list) \subseteq UsedIn(us, key) /\ Len(list) <= MAX_RECENTS
    /\ Len(list) < MAX_RECENTS => RangeOf(list) = UsedIn(us, key)
    /\ \A i, j \in 1..Len(list) :
          i < j => LastIn(us, key, list[i]) > LastIn(us, key, list[j])
    /\ \A v \in UsedIn(us, key) \ RangeOf(list), i \in 1..Len(list) :
          LastIn(us, key, v) < LastIn(us, key, list[i])

LEMMA RecentsAreDistinct ==
    ASSUME NEW us \in Seq(Chosen), NEW key \in Keys, NEW list \in Seq(Entries),
           RecentsOf(us, key, list)
    PROVE  Distinct(list)
<1>1. ASSUME NEW i \in 1..Len(list), NEW j \in 1..Len(list), i < j
      PROVE  list[i] # list[j]
  <2>1. LastIn(us, key, list[i]) > LastIn(us, key, list[j])
    BY <1>1 DEF RecentsOf
  <2>2. LastIn(us, key, list[i]) \in 1..Len(us)
    <3>1. list[i] \in UsedIn(us, key)
      BY DEF RecentsOf, RangeOf
    <3>2. PICK last : IsLast(us, key, list[i], last)
      BY <3>1, LastExists
    <3> QED BY <3>2, LastIs DEF IsLast
  <2> QED BY <2>1, <2>2
<1>2. \A i, j \in 1..Len(list) : i # j => i < j \/ j < i
  OBVIOUS
<1> QED BY <1>1, <1>2 DEF Distinct

\* The entries behind the first, and where they were in the old list.
LEMMA RestOfMoved ==
    ASSUME NEW S, NEW list \in Seq(S), NEW value, NEW new, Moved(new, list, value),
           Distinct(list)
    PROVE  \E from \in [2..Len(new) -> 1..Len(list)] :
              /\ \A i \in 2..Len(new) : new[i] = list[from[i]] /\ new[i] # value
              /\ \A i, j \in 2..Len(new) : i < j => from[i] < from[j]
              /\ \A p \in 1..Len(list) :
                    \/ list[p] = value
                    \/ \E i \in 2..Len(new) : from[i] = p
                    \/ Len(new) = MAX_RECENTS /\ \A i \in 2..Len(new) : from[i] < p
              /\ Len(new) < MAX_RECENTS => Len(list) < MAX_RECENTS
<1>1. PICK n, at :
        /\ Keeps(list, value, n, at)
        /\ Len(new) = IF n + 1 < MAX_RECENTS THEN n + 1 ELSE MAX_RECENTS
        /\ Len(new) \in Nat \ {0}
        /\ \A j \in 2..Len(new) : j - 1 \in 1..n /\ new[j] = list[at[j - 1]]
  BY DEF Moved
<1>2. n \in Nat /\ at \in [1..n -> 1..Len(list)] /\ Len(list) \in Nat /\ Len(list) <= n + 1
  BY <1>1 DEF Keeps
<1> DEFINE from == [i \in 2..Len(new) |-> at[i - 1]]
<1>3. from \in [2..Len(new) -> 1..Len(list)]
  BY <1>1, <1>2
<1>4. ASSUME NEW i \in 2..Len(new)
      PROVE  new[i] = list[from[i]] /\ new[i] # value
  <2>1. PICK j : j = i - 1
    OBVIOUS
  <2>2. j \in 1..n /\ new[i] = list[at[j]] /\ from[i] = at[j]
    BY <1>1, <2>1
  <2> QED BY <1>1, <2>2 DEF Keeps
<1>5. ASSUME NEW i \in 2..Len(new), NEW j \in 2..Len(new), i < j
      PROVE  from[i] < from[j]
  <2>1. PICK x, y : x = i - 1 /\ y = j - 1
    OBVIOUS
  <2>2. x \in 1..n /\ y \in 1..n /\ x < y /\ from[i] = at[x] /\ from[j] = at[y]
    BY <1>1, <1>5, <2>1
  <2> QED BY <1>1, <2>2 DEF Keeps
<1>6. ASSUME NEW p \in 1..Len(list), list[p] # value
      PROVE  \/ \E i \in 2..Len(new) : from[i] = p
             \/ Len(new) = MAX_RECENTS /\ \A i \in 2..Len(new) : from[i] < p
  <2>1. PICK j \in 1..n : at[j] = p
    BY <1>1, <1>6 DEF Keeps
  <2>2. CASE j + 1 <= Len(new)
    <3>1. j + 1 \in 2..Len(new) /\ (j + 1) - 1 = j
      BY <1>1, <2>2
    <3>2. PICK i : i = j + 1
      OBVIOUS
    <3>3. i \in 2..Len(new) /\ from[i] = at[j]
      BY <3>1, <3>2
    <3> QED BY <2>1, <3>3
  <2>3. CASE ~(j + 1 <= Len(new))
    <3>1. Len(new) = MAX_RECENTS
      BY <1>1, <1>2, <2>3, GuiHistoryAssumption
    <3>2. ASSUME NEW i \in 2..Len(new)
          PROVE  from[i] < p
      <4>1. PICK x : x = i - 1
        OBVIOUS
      <4>2. x \in 1..n /\ x < j /\ from[i] = at[x]
        BY <1>1, <2>3, <4>1
      <4> QED BY <1>1, <2>1, <4>2 DEF Keeps
    <3> QED BY <3>1, <3>2
  <2> QED BY <2>2, <2>3
<1>7. Len(new) < MAX_RECENTS => Len(list) < MAX_RECENTS
  BY <1>1, <1>2, GuiHistoryAssumption
<1> HIDE DEF from
<1> QED BY <1>3, <1>4, <1>5, <1>6, <1>7

LEMMA RememberRecents ==
    ASSUME NEW us \in Seq(Chosen), NEW chosen \in Chosen, NEW key \in Keys,
           NEW list \in Seq(Entries), RecentsOf(us, key, list)
    PROVE  RecentsOf(Append(us, chosen), key, remember(list, chosen[key]))
<1>1. PICK value \in Entries : value = chosen[key]
  BY DEF Chosen
<1>2. PICK more, all : more = Append(us, chosen) /\ all = UsedIn(us, key)
  OBVIOUS
<1>3. UsedIn(more, key) = all \cup {value}
  BY <1>1, <1>2, OneMoreUse
<1>4. PICK new : new = remember(list, value)
  OBVIOUS
<1>5. new \in Seq(Entries) /\ Moved(new, list, value) /\ Distinct(list)
  BY <1>4, RememberMoves, RecentsAreDistinct
<1>6. PICK from \in [2..Len(new) -> 1..Len(list)] :
        /\ \A i \in 2..Len(new) : new[i] = list[from[i]] /\ new[i] # value
        /\ \A i, j \in 2..Len(new) : i < j => from[i] < from[j]
        /\ \A p \in 1..Len(list) :
              \/ list[p] = value
              \/ \E i \in 2..Len(new) : from[i] = p
              \/ Len(new) = MAX_RECENTS /\ \A i \in 2..Len(new) : from[i] < p
        /\ Len(new) < MAX_RECENTS => Len(list) < MAX_RECENTS
  BY <1>5, RestOfMoved
<1>7. /\ Len(new) \in Nat \ {0} /\ new[1] = value /\ Len(new) <= MAX_RECENTS
      /\ \A i \in 1..Len(new) : i = 1 \/ i \in 2..Len(new)
  <2>1. PICK n \in Nat : Len(new) = IF n + 1 < MAX_RECENTS THEN n + 1 ELSE MAX_RECENTS
    BY <1>5 DEF Moved, Keeps
  <2> QED BY <1>5, <2>1, GuiHistoryAssumption DEF Moved
<1>8. /\ LastIn(more, key, value) = Len(us) + 1
      /\ \A v \in all :
            /\ LastIn(us, key, v) \in 1..Len(us)
            /\ v # value => LastIn(more, key, v) = LastIn(us, key, v)
  BY <1>1, <1>2, LastAfterUse
<1>9. /\ \A p \in 1..Len(list) : list[p] \in all
      /\ Len(list) < MAX_RECENTS => RangeOf(list) = all
      /\ \A p, q \in 1..Len(list) :
            p < q => LastIn(us, key, list[p]) > LastIn(us, key, list[q])
      /\ \A v \in all \ RangeOf(list), p \in 1..Len(list) :
            LastIn(us, key, v) < LastIn(us, key, list[p])
  BY <1>2 DEF RecentsOf, RangeOf
<1>10. \A i \in 2..Len(new) : new[i] \in all /\ LastIn(more, key, new[i]) = LastIn(us, key, new[i])
  BY <1>6, <1>8, <1>9
<1>11. RangeOf(new) \subseteq all \cup {value}
  BY <1>7, <1>10 DEF RangeOf
<1>12. ASSUME Len(new) < MAX_RECENTS
       PROVE  RangeOf(new) = all \cup {value}
  <2>1. RangeOf(list) = all
    BY <1>6, <1>9, <1>12
  <2>2. ASSUME NEW v \in all, v # value
        PROVE  v \in RangeOf(new)
    <3>1. PICK p \in 1..Len(list) : list[p] = v
      BY <2>1 DEF RangeOf
    <3>2. PICK i \in 2..Len(new) : from[i] = p
      BY <1>6, <1>7, <1>12, <2>2, <3>1, GuiHistoryAssumption
    <3>3. new[i] = v /\ i \in 1..Len(new)
      BY <1>6, <1>7, <3>1, <3>2
    <3> QED BY <3>3 DEF RangeOf
  <2>3. value \in RangeOf(new)
    <3>1. 1 \in 1..Len(new)
      BY <1>7
    <3> QED BY <1>7, <3>1 DEF RangeOf
  <2> QED BY <1>11, <2>2, <2>3
<1>13. ASSUME NEW i \in 1..Len(new), NEW j \in 1..Len(new), i < j
       PROVE  LastIn(more, key, new[i]) > LastIn(more, key, new[j])
  <2>1. j \in 2..Len(new) /\ new[j] \in all
    BY <1>7, <1>10, <1>13
  <2>2. LastIn(more, key, new[j]) = LastIn(us, key, new[j]) /\ LastIn(us, key, new[j]) \in 1..Len(us)
    BY <1>8, <1>10, <2>1
  <2>3. CASE i = 1
    BY <1>7, <1>8, <2>2, <2>3
  <2>4. CASE i \in 2..Len(new)
    <3>1. /\ from[i] \in 1..Len(list) /\ from[j] \in 1..Len(list) /\ from[i] < from[j]
          /\ new[i] = list[from[i]] /\ new[j] = list[from[j]]
      BY <1>6, <1>13, <2>1, <2>4
    <3>2. LastIn(us, key, new[i]) > LastIn(us, key, new[j])
      BY <1>9, <3>1
    <3> QED BY <1>10, <2>2, <2>4, <3>2
  <2> QED BY <1>7, <2>3, <2>4
<1>14. ASSUME NEW v \in (all \cup {value}) \ RangeOf(new), NEW i \in 1..Len(new)
       PROVE  LastIn(more, key, v) < LastIn(more, key, new[i])
  <2>1. v # value /\ v \in all
    <3>1. 1 \in 1..Len(new)
      BY <1>7
    <3> QED BY <1>7, <3>1 DEF RangeOf
  <2>2. LastIn(more, key, v) = LastIn(us, key, v) /\ LastIn(us, key, v) \in 1..Len(us)
    BY <1>8, <2>1
  <2>3. CASE i = 1
    BY <1>7, <1>8, <2>2, <2>3
  <2>4. CASE i \in 2..Len(new)
    <3>1. /\ from[i] \in 1..Len(list) /\ new[i] = list[from[i]]
          /\ LastIn(more, key, new[i]) = LastIn(us, key, new[i])
      BY <1>6, <1>10, <2>4
    <3>2. CASE v \in RangeOf(list)
      <4>1. PICK p \in 1..Len(list) : list[p] = v
        BY <3>2 DEF RangeOf
      <4>2. \A x \in 2..Len(new) : from[x] # p
        <5>1. \A x \in 2..Len(new) : new[x] # v
          BY <1>7 DEF RangeOf
        <5> QED BY <1>6, <4>1, <5>1
      <4>3. from[i] < p
        BY <1>6, <2>1, <2>4, <4>1, <4>2
      <4>4. LastIn(us, key, list[from[i]]) > LastIn(us, key, list[p])
        BY <1>9, <3>1, <4>3
      <4>5. LastIn(us, key, new[i]) \in 1..Len(us)
        BY <1>8, <1>10, <2>4
      <4> QED BY <2>2, <3>1, <4>1, <4>4, <4>5
    <3>3. CASE v \notin RangeOf(list)
      BY <1>9, <2>1, <2>2, <3>1, <3>3
    <3> QED BY <3>2, <3>3
  <2> QED BY <1>7, <2>3, <2>4
<1>15. RecentsOf(more, key, new)
  BY <1>3, <1>7, <1>11, <1>12, <1>13, <1>14 DEF RecentsOf
<1> QED BY <1>1, <1>2, <1>4, <1>15

LEMMA NothingUsedYet ==
    ASSUME NEW key \in Keys
    PROVE  RecentsOf(<<>>, key, <<>>)
<1>1. Len(<<>>) = 0 /\ \A i \in 1..Len(<<>>) : FALSE
  OBVIOUS
<1>2. RangeOf(<<>>) = {} /\ UsedIn(<<>>, key) = {}
  BY <1>1 DEF RangeOf, UsedIn
<1> QED BY <1>1, <1>2, GuiHistoryAssumption DEF RecentsOf

-----------------------------------------------------------------------------
(***************************************************************************)
(* The types.                                                              *)
(***************************************************************************)
GuiTypeOK ==
    /\ file \in [parses : BOOLEAN, lists : Lists]
    /\ window \in [Windows -> {"closed", "idle", "saving"}]
    /\ history \in [Windows -> Lists]
    /\ shown \in [Windows -> Lists]
    /\ uses \in Seq(Chosen)
    /\ disturbed \in BOOLEAN

LEMMA NoEntriesAreLists == NoEntries \in Lists /\ NoFile \in [parses : BOOLEAN, lists : Lists]
<1>1. <<>> \in Seq(Entries)
  OBVIOUS
<1>2. NoEntries \in Lists
  BY <1>1 DEF NoEntries, Lists
<1> QED BY <1>2 DEF NoFile

LEMMA HoldsLists ==
    ASSUME NEW lists \in Lists
    PROVE  /\ Holds(lists) \in [parses : BOOLEAN, lists : Lists]
           /\ Holds(lists).parses = TRUE /\ Holds(lists).lists = lists
BY DEF Holds

\* What a window has in memory after a preview or a knock.
Remembered(lists, chosen) == [key \in Keys |-> remember(lists[key], chosen[key])]

LEMMA RememberedIsLists ==
    ASSUME NEW lists \in Lists, NEW chosen \in Chosen
    PROVE  Remembered(lists, chosen) \in Lists
<1>1. ASSUME NEW key \in Keys
      PROVE  remember(lists[key], chosen[key]) \in Seq(Entries)
  <2>1. lists[key] \in Seq(Entries) /\ chosen[key] \in Entries
    BY DEF Lists, Chosen
  <2> QED BY <2>1, RememberMoves
<1> QED BY <1>1 DEF Remembered, Lists

LEMMA UseRemembers ==
    ASSUME GuiTypeOK, NEW w \in Windows, NEW chosen \in [Keys -> Entries], Use(w, chosen)
    PROVE  /\ chosen \in Chosen
           /\ uses' = Append(uses, chosen) /\ uses' \in Seq(Chosen)
           /\ history' = [history EXCEPT ![w] = Remembered(history[w], chosen)]
           /\ history' \in [Windows -> Lists]
<1>1. chosen \in Chosen
  BY DEF Chosen
<1>2. uses' = Append(uses, chosen) /\ uses' \in Seq(Chosen)
  BY <1>1 DEF Use, GuiTypeOK
<1>3. history' = [history EXCEPT ![w] = Remembered(history[w], chosen)]
  BY DEF Use, Remembered
<1>4. Remembered(history[w], chosen) \in Lists
  <2>1. history[w] \in Lists
    BY DEF GuiTypeOK
  <2> QED BY <1>1, <2>1, RememberedIsLists
<1> QED BY <1>1, <1>2, <1>3, <1>4 DEF GuiTypeOK

LEMMA GuiTypesKept ==
    ASSUME GuiTypeOK, [Next]_vars
    PROVE  GuiTypeOK'
<1> USE NoEntriesAreLists
<1>1. ASSUME NEW w \in Windows, Open(w)
      PROVE  GuiTypeOK'
  <2>1. file.lists \in Lists
    BY DEF GuiTypeOK
  <2> QED BY <1>1, <2>1 DEF GuiTypeOK, Open
<1>2. ASSUME NEW w \in Windows, Close(w)
      PROVE  GuiTypeOK'
  BY <1>2 DEF GuiTypeOK, Close
<1>3. ASSUME NEW w \in Windows, EndSave(w)
      PROVE  GuiTypeOK'
  <2>1. history[w] \in Lists /\ Holds(history[w]) \in [parses : BOOLEAN, lists : Lists]
    BY HoldsLists DEF GuiTypeOK
  <2> QED BY <1>3, <2>1 DEF GuiTypeOK, EndSave
<1>4. ASSUME NEW w \in Windows, SaveBreaks(w)
      PROVE  GuiTypeOK'
  BY <1>4 DEF GuiTypeOK, SaveBreaks
<1>5. ASSUME NEW w \in Windows, NEW chosen \in [Keys -> Entries],
             BeginSave(w, chosen) \/ SaveRefused(w, chosen)
      PROVE  GuiTypeOK'
  <2>1. Use(w, chosen)
    BY <1>5 DEF BeginSave, SaveRefused
  <2>2. uses' \in Seq(Chosen) /\ history' \in [Windows -> Lists] /\ shown' = shown
    BY <2>1, UseRemembers DEF Use
  <2> QED BY <1>5, <2>2 DEF GuiTypeOK, BeginSave, SaveRefused
<1>6. CASE UNCHANGED vars
  BY <1>6 DEF GuiTypeOK, vars
<1> QED BY <1>1, <1>2, <1>3, <1>4, <1>5, <1>6 DEF Next

LEMMA GuiTypesHold == Spec => []GuiTypeOK
<1>1. Init => GuiTypeOK
  <2> SUFFICES ASSUME Init
               PROVE  GuiTypeOK
    OBVIOUS
  <2>1. uses \in Seq(Chosen)
    BY DEF Init
  <2>2. /\ file \in [parses : BOOLEAN, lists : Lists]
        /\ window \in [Windows -> {"closed", "idle", "saving"}]
    BY NoEntriesAreLists DEF Init
  <2>3. history \in [Windows -> Lists] /\ shown \in [Windows -> Lists] /\ disturbed \in BOOLEAN
    BY NoEntriesAreLists DEF Init
  <2> QED BY <2>1, <2>2, <2>3 DEF GuiTypeOK
<1>2. GuiTypeOK /\ [Next]_vars => GuiTypeOK'
  BY GuiTypesKept
<1> QED BY <1>1, <1>2, PTL DEF Spec

-----------------------------------------------------------------------------
(***************************************************************************)
(* No list holds an entry twice, nor one that nobody used.                 *)
(***************************************************************************)
AllGood(us, lists) == \A key \in Keys : Good(us, key, lists[key])

GoodInv == AllGood(uses, file.lists) /\ \A w \in Windows : AllGood(uses, history[w])

LEMMA NoEntriesAreGood ==
    ASSUME NEW us
    PROVE  AllGood(us, NoEntries) /\ NoFile.lists = NoEntries
<1>1. Len(<<>>) = 0 /\ \A i \in 1..Len(<<>>) : FALSE
  OBVIOUS
<1>2. RangeOf(<<>>) = {} /\ Distinct(<<>>)
  BY <1>1 DEF RangeOf, Distinct
<1> QED BY <1>2 DEF AllGood, Good, NoEntries, NoFile

LEMMA RememberedIsGood ==
    ASSUME NEW us \in Seq(Chosen), NEW chosen \in Chosen, NEW lists \in Lists,
           AllGood(us, lists)
    PROVE  /\ AllGood(Append(us, chosen), lists)
           /\ AllGood(Append(us, chosen), Remembered(lists, chosen))
<1>1. ASSUME NEW key \in Keys
      PROVE  /\ Good(Append(us, chosen), key, lists[key])
             /\ Good(Append(us, chosen), key, remember(lists[key], chosen[key]))
  <2>1. lists[key] \in Seq(Entries) /\ Good(us, key, lists[key])
    BY DEF Lists, AllGood
  <2> QED BY <2>1, RememberGood
<1> QED BY <1>1 DEF AllGood, Remembered

LEMMA UseKeepsGood ==
    ASSUME GuiTypeOK, GoodInv, NEW w \in Windows, NEW chosen \in [Keys -> Entries],
           Use(w, chosen)
    PROVE  /\ AllGood(uses', file.lists)
           /\ \A x \in Windows : AllGood(uses', history'[x])
<1>1. /\ chosen \in Chosen /\ uses \in Seq(Chosen)
      /\ uses' = Append(uses, chosen)
      /\ history' = [history EXCEPT ![w] = Remembered(history[w], chosen)]
  BY UseRemembers DEF GuiTypeOK
<1>2. AllGood(uses', file.lists)
  <2>1. file.lists \in Lists /\ AllGood(uses, file.lists)
    BY DEF GuiTypeOK, GoodInv
  <2> QED BY <1>1, <2>1, RememberedIsGood
<1>3. ASSUME NEW x \in Windows
      PROVE  AllGood(uses', history'[x])
  <2>1. history[x] \in Lists /\ AllGood(uses, history[x])
    BY DEF GuiTypeOK, GoodInv
  <2>2. history'[x] = IF x = w THEN Remembered(history[x], chosen) ELSE history[x]
    BY <1>1 DEF GuiTypeOK
  <2> QED BY <1>1, <2>1, <2>2, RememberedIsGood
<1> QED BY <1>2, <1>3

LEMMA GoodKept ==
    ASSUME GuiTypeOK, GoodInv, [Next]_vars
    PROVE  GoodInv'
<1> USE NoEntriesAreGood
<1>1. ASSUME NEW w \in Windows, Open(w)
      PROVE  GoodInv'
  <2>1. \A x \in Windows : history'[x] = history[x] \/ history'[x] = file.lists
    BY <1>1 DEF GuiTypeOK, Open
  <2>2. uses' = uses /\ file' = file
    BY <1>1 DEF Open
  <2> QED BY <2>1, <2>2 DEF GoodInv
<1>2. ASSUME NEW w \in Windows, Close(w)
      PROVE  GoodInv'
  BY <1>2 DEF GoodInv, Close
<1>3. ASSUME NEW w \in Windows, EndSave(w)
      PROVE  GoodInv'
  <2>1. file'.lists = history[w] \/ file'.lists = NoEntries
    BY <1>3, HoldsLists DEF EndSave, GuiTypeOK
  <2>2. uses' = uses /\ history' = history
    BY <1>3 DEF EndSave
  <2> QED BY <2>1, <2>2 DEF GoodInv
<1>4. ASSUME NEW w \in Windows, SaveBreaks(w)
      PROVE  GoodInv'
  <2>1. file' = NoFile /\ uses' = uses /\ history' = history
    BY <1>4 DEF SaveBreaks
  <2> QED BY <2>1 DEF GoodInv
<1>5. ASSUME NEW w \in Windows, NEW chosen \in [Keys -> Entries],
             BeginSave(w, chosen) \/ SaveRefused(w, chosen)
      PROVE  GoodInv'
  <2>1. Use(w, chosen)
    BY <1>5 DEF BeginSave, SaveRefused
  <2>2. AllGood(uses', file.lists) /\ \A x \in Windows : AllGood(uses', history'[x])
    BY <2>1, UseKeepsGood
  <2>3. file' = NoFile \/ file' = file
    BY <1>5 DEF BeginSave, SaveRefused
  <2>4. AllGood(uses', file'.lists)
    BY <2>2, <2>3
  <2> QED BY <2>2, <2>4 DEF GoodInv
<1>6. CASE UNCHANGED vars
  BY <1>6 DEF GoodInv, vars
<1> QED BY <1>1, <1>2, <1>3, <1>4, <1>5, <1>6 DEF Next

\* However many windows are open and whatever happens to their saves, no
\* list of remember holds an entry twice or one that was never used.
THEOREM EntriesAppearOnce == Spec => []NoneTwice
<1>1. Init => GoodInv
  <2> SUFFICES ASSUME Init
               PROVE  GoodInv
    OBVIOUS
  <2>1. \A w \in Windows : history[w] = NoEntries
    BY DEF Init
  <2> QED BY <2>1, NoEntriesAreGood DEF Init, GoodInv
<1>2. GuiTypeOK /\ GoodInv /\ [Next]_vars => GoodInv'
  BY GoodKept
<1>3. GoodInv => NoneTwice
  <2> SUFFICES ASSUME GoodInv, NEW key \in Keys,
                      NEW list \in {file.lists[key]} \cup {history[w][key] : w \in Windows}
               PROVE  Good(uses, key, list)
    BY DEF NoneTwice, Good, Distinct, UsedIn
  <2> QED BY DEF GoodInv, AllGood
<1> QED BY <1>1, <1>2, <1>3, GuiTypesHold, PTL DEF Spec

-----------------------------------------------------------------------------
(***************************************************************************)
(* Windows that are open one after the other: what is in the memory of the *)
(* open one, or in the file when none is open, are the last entries used.  *)
(***************************************************************************)
AllRecent(us, lists) == \A key \in Keys : RecentsOf(us, key, lists[key])

\* Between the two steps of a save the file does not parse.
SavingInv ==
    /\ \A w \in Windows : window[w] = "saving" => uses # <<>>
    /\ uses = <<>> => file = NoFile

OneOpen ==
    \A w, x \in Windows : window[w] # "closed" /\ window[x] # "closed" => w = x

OpenIsRecent(w) ==
    /\ AllRecent(uses, history[w])
    /\ window[w] = "saving" => ~file.parses
    /\ file.parses => shown[w] = file.lists

ClosedIsSaved == AllRecent(uses, file.lists) /\ (uses # <<>> => file.parses)

AloneInv ==
    /\ SavingInv
    /\ ~disturbed =>
          /\ OneOpen
          /\ \A w \in Windows : window[w] # "closed" => OpenIsRecent(w)
          /\ AllClosed => ClosedIsSaved

LEMMA RecentMeansRecent ==
    ASSUME NEW lists
    PROVE  AreRecents(lists) <=> AllRecent(uses, lists)
BY DEF AreRecents, AllRecent, RecentsOf, UsedIn, LastUse, LastIn

LEMMA NothingIsRecent == AllRecent(<<>>, NoEntries) /\ NoFile.lists = NoEntries /\ ~NoFile.parses
BY NothingUsedYet DEF AllRecent, NoEntries, NoFile

LEMMA RememberedIsRecent ==
    ASSUME NEW us \in Seq(Chosen), NEW chosen \in Chosen, NEW lists \in Lists,
           AllRecent(us, lists)
    PROVE  AllRecent(Append(us, chosen), Remembered(lists, chosen))
<1>1. ASSUME NEW key \in Keys
      PROVE  RecentsOf(Append(us, chosen), key, remember(lists[key], chosen[key]))
  <2>1. lists[key] \in Seq(Entries) /\ RecentsOf(us, key, lists[key])
    BY DEF Lists, AllRecent
  <2> QED BY <2>1, RememberRecents
<1> QED BY <1>1 DEF AllRecent, Remembered

LEMMA AppendedIsNotEmpty ==
    ASSUME NEW us \in Seq(Chosen), NEW chosen \in Chosen
    PROVE  Append(us, chosen) # <<>>
<1>1. Len(Append(us, chosen)) = Len(us) + 1 /\ Len(us) \in Nat /\ Len(<<>>) = 0
  OBVIOUS
<1> QED BY <1>1

LEMMA OpenKeepsAlone ==
    ASSUME GuiTypeOK, AloneInv, NEW w \in Windows, Open(w)
    PROVE  AloneInv'
<1>1. /\ file' = file /\ uses' = uses
      /\ \A x \in Windows : window'[x] = IF x = w THEN "idle" ELSE window[x]
      /\ \A x \in Windows : x = w => history'[x] = file.lists /\ shown'[x] = file.lists
  BY DEF GuiTypeOK, Open
<1>2. SavingInv'
  BY <1>1 DEF AloneInv, SavingInv
<1>3. ASSUME ~disturbed'
      PROVE  /\ OneOpen'
             /\ \A x \in Windows : window'[x] # "closed" => OpenIsRecent(x)'
             /\ ~AllClosed'
  <2>1. ~disturbed /\ \A x \in Windows : window[x] = "closed"
    BY <1>3 DEF Open
  <2>2. \A x \in Windows : window'[x] # "closed" => x = w
    BY <1>1, <2>1
  <2>3. AllRecent(uses, file.lists)
    BY <2>1 DEF AloneInv, AllClosed, ClosedIsSaved
  <2>4. ASSUME NEW x \in Windows, x = w
        PROVE  OpenIsRecent(x)'
    BY <1>1, <2>3, <2>4 DEF OpenIsRecent
  <2>5. ~AllClosed'
    BY <1>1 DEF AllClosed
  <2> QED BY <2>2, <2>4, <2>5 DEF OneOpen
<1> QED BY <1>2, <1>3 DEF AloneInv

LEMMA CloseKeepsAlone ==
    ASSUME GuiTypeOK, AloneInv, NEW w \in Windows, Close(w)
    PROVE  AloneInv'
<1>1. /\ file' = file /\ uses' = uses /\ history' = history /\ shown' = shown
      /\ window[w] = "idle"
      /\ \A x \in Windows : window'[x] = IF x = w THEN "closed" ELSE window[x]
  BY DEF GuiTypeOK, Close
<1>2. SavingInv'
  BY <1>1 DEF AloneInv, SavingInv
<1>3. ASSUME ~disturbed'
      PROVE  /\ OneOpen'
             /\ \A x \in Windows : window'[x] # "closed" => OpenIsRecent(x)'
             /\ ClosedIsSaved'
  <2>1. ~disturbed /\ (uses = <<>> \/ file = Holds(history[w]))
    BY <1>3 DEF Close
  <2>2. OneOpen /\ OpenIsRecent(w) /\ SavingInv
    BY <1>1, <2>1 DEF AloneInv
  <2>3. \A x \in Windows : window'[x] = "closed"
    BY <1>1, <2>2 DEF OneOpen
  <2>4. AllRecent(uses, file.lists) /\ (uses # <<>> => file.parses)
    <3>1. CASE uses = <<>>
      BY <2>2, <3>1, NothingIsRecent DEF SavingInv
    <3>2. CASE file = Holds(history[w])
      <4>1. file.parses /\ file.lists = history[w]
        BY <3>2, HoldsLists DEF GuiTypeOK
      <4> QED BY <2>2, <4>1 DEF OpenIsRecent
    <3> QED BY <2>1, <3>1, <3>2
  <2>5. ClosedIsSaved'
    BY <1>1, <2>4 DEF ClosedIsSaved
  <2> QED BY <2>3, <2>5 DEF OneOpen
<1> QED BY <1>2, <1>3 DEF AloneInv

LEMMA EndSaveKeepsAlone ==
    ASSUME GuiTypeOK, AloneInv, NEW w \in Windows, EndSave(w)
    PROVE  AloneInv'
<1>1. /\ uses' = uses /\ history' = history /\ disturbed' = disturbed
      /\ window[w] = "saving"
      /\ \A x \in Windows : window'[x] = IF x = w THEN "idle" ELSE window[x]
      /\ shown'[w] = history[w]
  BY DEF GuiTypeOK, EndSave
<1>2. uses # <<>>
  BY <1>1 DEF AloneInv, SavingInv
<1>3. SavingInv'
  BY <1>1, <1>2 DEF AloneInv, SavingInv
<1>4. ASSUME ~disturbed'
      PROVE  /\ OneOpen'
             /\ \A x \in Windows : window'[x] # "closed" => OpenIsRecent(x)'
             /\ ~AllClosed'
  <2>1. OneOpen /\ OpenIsRecent(w)
    BY <1>1, <1>4 DEF AloneInv
  <2>2. \A x \in Windows : window'[x] # "closed" => x = w
    BY <1>1, <2>1 DEF OneOpen
  <2>3. file' = Holds(history[w])
    BY <1>1, <2>1 DEF OpenIsRecent, EndSave
  <2>4. file'.lists = history[w]
    BY <2>3, HoldsLists DEF GuiTypeOK
  <2>5. ASSUME NEW x \in Windows, x = w
        PROVE  OpenIsRecent(x)'
    BY <1>1, <2>1, <2>4, <2>5 DEF OpenIsRecent
  <2>6. ~AllClosed'
    BY <1>1 DEF AllClosed
  <2> QED BY <2>2, <2>5, <2>6 DEF OneOpen
<1> QED BY <1>3, <1>4 DEF AloneInv

LEMMA SaveBreaksKeepsAlone ==
    ASSUME GuiTypeOK, AloneInv, NEW w \in Windows, SaveBreaks(w)
    PROVE  AloneInv'
<1>1. /\ uses' = uses /\ history' = history /\ shown' = shown /\ file' = NoFile
      /\ window[w] = "saving"
      /\ \A x \in Windows : x # w => window'[x] = window[x]
      /\ window'[w] \in {"idle", "closed"}
  BY DEF GuiTypeOK, SaveBreaks
<1>2. SavingInv'
  BY <1>1 DEF AloneInv, SavingInv
<1>3. ASSUME ~disturbed'
      PROVE  /\ OneOpen'
             /\ \A x \in Windows : window'[x] # "closed" => OpenIsRecent(x)'
             /\ ~AllClosed'
  <2>1. ~disturbed /\ window'[w] = "idle"
    BY <1>3 DEF SaveBreaks, GuiTypeOK
  <2>2. OneOpen /\ OpenIsRecent(w)
    BY <1>1, <2>1 DEF AloneInv
  <2>3. \A x \in Windows : window'[x] # "closed" => x = w
    BY <1>1, <2>2 DEF OneOpen
  <2>4. ASSUME NEW x \in Windows, x = w
        PROVE  OpenIsRecent(x)'
    BY <1>1, <2>2, <2>4, NothingIsRecent DEF OpenIsRecent
  <2>5. ~AllClosed'
    BY <2>1 DEF AllClosed
  <2> QED BY <2>3, <2>4, <2>5 DEF OneOpen
<1> QED BY <1>2, <1>3 DEF AloneInv

LEMMA UseKeepsAlone ==
    ASSUME GuiTypeOK, AloneInv, NEW w \in Windows, NEW chosen \in [Keys -> Entries],
           BeginSave(w, chosen) \/ SaveRefused(w, chosen)
    PROVE  AloneInv'
<1>1. /\ window[w] = "idle" /\ shown' = shown /\ disturbed' = disturbed
      /\ \A x \in Windows : x # w => window'[x] = window[x]
      /\ \/ window'[w] = "saving" /\ file' = NoFile
         \/ window'[w] = "idle" /\ file' = file
  BY DEF GuiTypeOK, BeginSave, SaveRefused, Use
<1>2. /\ chosen \in Chosen /\ uses \in Seq(Chosen)
      /\ uses' = Append(uses, chosen)
      /\ history[w] \in Lists
      /\ history' = [history EXCEPT ![w] = Remembered(history[w], chosen)]
  <2>1. Use(w, chosen)
    BY DEF BeginSave, SaveRefused
  <2> QED BY <2>1, UseRemembers DEF GuiTypeOK
<1>3. history'[w] = Remembered(history[w], chosen) /\ uses' # <<>>
  BY <1>2, AppendedIsNotEmpty DEF GuiTypeOK
<1>4. SavingInv'
  BY <1>3 DEF SavingInv
<1>5. ASSUME ~disturbed'
      PROVE  /\ OneOpen'
             /\ \A x \in Windows : window'[x] # "closed" => OpenIsRecent(x)'
             /\ ~AllClosed'
  <2>1. OneOpen /\ OpenIsRecent(w)
    BY <1>1, <1>5 DEF AloneInv
  <2>2. \A x \in Windows : window'[x] # "closed" => x = w
    BY <1>1, <2>1 DEF OneOpen
  <2>3. AllRecent(uses', history'[w])
    BY <1>2, <1>3, <2>1, RememberedIsRecent DEF OpenIsRecent
  <2>4. ASSUME NEW x \in Windows, x = w
        PROVE  OpenIsRecent(x)'
    BY <1>1, <2>1, <2>3, <2>4, NothingIsRecent DEF OpenIsRecent
  <2>5. ~AllClosed'
    BY <1>1 DEF AllClosed
  <2> QED BY <2>2, <2>4, <2>5 DEF OneOpen
<1> QED BY <1>4, <1>5 DEF AloneInv

LEMMA AloneKept ==
    ASSUME GuiTypeOK, AloneInv, [Next]_vars
    PROVE  AloneInv'
<1>1. CASE Next
  BY <1>1, OpenKeepsAlone, CloseKeepsAlone, EndSaveKeepsAlone, SaveBreaksKeepsAlone,
     UseKeepsAlone DEF Next
<1>2. CASE UNCHANGED vars
  BY <1>2 DEF vars, AloneInv, SavingInv, OneOpen, OpenIsRecent, ClosedIsSaved, AllClosed
<1> QED BY <1>1, <1>2

THEOREM AloneInvariance == Spec => []AloneInv
<1>1. Init => AloneInv
  <2> SUFFICES ASSUME Init
               PROVE  AloneInv
    OBVIOUS
  <2>1. SavingInv /\ OneOpen
    BY DEF Init, SavingInv, OneOpen
  <2>2. ClosedIsSaved /\ \A w \in Windows : window[w] = "closed"
    BY NothingIsRecent DEF Init, ClosedIsSaved
  <2> QED BY <2>1, <2>2 DEF AloneInv
<1>2. GuiTypeOK /\ AloneInv /\ [Next]_vars => AloneInv'
  BY AloneKept
<1> QED BY <1>1, <1>2, GuiTypesHold, PTL DEF Spec

\* For windows that are open one after the other, the last MAX_RECENTS
\* distinct entries are in the open window's memory, in the dropdowns after
\* a save, and in the file when no window is open, whichever saves failed.
THEOREM RecentsAreKept == Spec => []KeepsRecentsAlone
<1>1. GuiTypeOK /\ AloneInv => KeepsRecentsAlone
  <2> SUFFICES ASSUME GuiTypeOK, AloneInv, ~disturbed
               PROVE  /\ \A w \in Windows : window[w] # "closed" =>
                            /\ AreRecents(history[w])
                            /\ file = Holds(history[w]) => shown[w] = history[w]
                      /\ AllClosed /\ uses # <<>> => file.parses /\ AreRecents(file.lists)
    BY DEF KeepsRecentsAlone
  <2>1. ASSUME NEW w \in Windows, window[w] # "closed"
        PROVE  /\ AreRecents(history[w])
               /\ file = Holds(history[w]) => shown[w] = history[w]
    <3>1. OpenIsRecent(w)
      BY <2>1 DEF AloneInv
    <3>2. Holds(history[w]).parses /\ Holds(history[w]).lists = history[w]
      BY HoldsLists DEF GuiTypeOK
    <3> QED BY <3>1, <3>2, RecentMeansRecent DEF OpenIsRecent
  <2>2. AllClosed /\ uses # <<>> => file.parses /\ AreRecents(file.lists)
    BY RecentMeansRecent DEF AloneInv, ClosedIsSaved
  <2> QED BY <2>1, <2>2
<1> QED BY <1>1, AloneInvariance, GuiTypesHold, PTL
=============================================================================
