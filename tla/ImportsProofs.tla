--------------------------- MODULE ImportsProofs ----------------------------
(***************************************************************************)
(* The proofs about Imports and Registry: the selection of an import is    *)
(* current, what a locked user works with runs, the storage of a locked    *)
(* DynDependencies is backed, and no Singleton starves.                    *)
(*                                                                         *)
(* The list of the entry is shown to stay sorted first.  PartInv then says *)
(* what holds of one import beside the listed interfaces and the phases of *)
(* their services, with one lemma for each callback of a part; EntryInv    *)
(* says what holds of the entry alone.  The actions combine the two.       *)
(***************************************************************************)
EXTENDS Imports, FiniteSetTheorems, SequenceTheorems, WellFoundedInduction, TLAPS

-----------------------------------------------------------------------------
(* The list of the published interfaces. *)

\* The list is ordered by UniqueGreaterPred.
Sorted(list) == \A k, l \in DOMAIN list : k < l => GreaterPred(list[k], list[l])

Lists == Seq(Interfaces)

\* No member of S has priority over h.
IsTop(h, S) == h \in S /\ \A i \in S : ~Greater(i, h)

\* UniqueGreaterPred is a strict total order that agrees with the priorities.
LEMMA Order ==
  ASSUME NEW i \in Interfaces, NEW j \in Interfaces, NEW k \in Interfaces
  PROVE  /\ ~GreaterPred(i, i)
         /\ GreaterPred(i, j) /\ GreaterPred(j, k) => GreaterPred(i, k)
         /\ i # j => GreaterPred(i, j) \/ GreaterPred(j, i)
         /\ GreaterPred(i, j) => ~Greater(j, i)
<1>1. /\ Prio[i] \in Nat /\ Prio[j] \in Nat /\ Prio[k] \in Nat
      /\ Addr[i] \in Nat /\ Addr[j] \in Nat /\ Addr[k] \in Nat
      /\ i # j => Addr[i] # Addr[j]
  BY RegistryAssumption
<1> QED
  BY <1>1 DEF GreaterPred, Greater

Below == {p \in Nat \X Nat : p[1] < p[2]}

\* A set of numbers that is not empty has a least one.
LEMMA Least ==
  ASSUME NEW S \in SUBSET Nat, S # {}
  PROVE  \E m \in S : \A k \in S : m <= k
<1>1. Below = OpToRel(<, Nat)
  BY DEF Below, OpToRel
<1>2. IsWellFoundedOn(Below, Nat)
  BY <1>1, NatLessThanWellFounded, Zenon
<1>3. PICK m \in S : \A k \in S : ~(<<k, m>> \in Below)
  BY <1>2, WFMin
<1>4. ASSUME NEW k \in S PROVE m <= k
  <2>1. <<k, m>> \in Nat \X Nat /\ <<k, m>>[1] = k /\ <<k, m>>[2] = m
    OBVIOUS
  <2>2. ~(k < m)
    BY <1>3, <2>1 DEF Below
  <2> QED
    BY <2>2
<1> QED
  BY <1>4

\* What a sorted list says of its members.
LEMMA ListFacts ==
  ASSUME NEW list \in Lists, Sorted(list)
  PROVE  /\ IsInjective(list) /\ Range(list) \subseteq Interfaces
         /\ list = <<>> <=> Range(list) = {}
         /\ list # <<>> => IsTop(Head(list), Range(list))
<1>1. PICK n \in Nat : n = Len(list)
  BY DEF Lists
<1>2. /\ DOMAIN list = 1..n /\ \A k \in 1..n : list[k] \in Interfaces
      /\ list = <<>> <=> n = 0
  BY <1>1 DEF Lists
<1>3. IsInjective(list)
  <2>1. ASSUME NEW k \in 1..n, NEW l \in 1..n, list[k] = list[l], k < l PROVE FALSE
    BY <1>2, <2>1, Order DEF Sorted
  <2>2. ASSUME NEW k \in 1..n, NEW l \in 1..n, list[k] = list[l] PROVE k = l
    BY <2>1, <2>2
  <2> QED
    BY <1>2, <2>2 DEF IsInjective
<1>4. Range(list) = {list[k] : k \in 1..n}
  BY <1>2 DEF Range
<1>5. list = <<>> <=> Range(list) = {}
  <2>1. n # 0 => 1 \in 1..n
    OBVIOUS
  <2> QED
    BY <1>2, <1>4, <2>1
<1>6. ASSUME list # <<>> PROVE IsTop(Head(list), Range(list))
  <2>1. 1 \in 1..n /\ Head(list) = list[1]
    BY <1>1, <1>2, <1>6 DEF Lists
  <2>2. ASSUME NEW k \in 1..n PROVE ~Greater(list[k], list[1])
    <3>1. CASE k = 1
      <4>1. Prio[list[1]] \in Nat
        BY <1>2, <2>1, RegistryAssumption
      <4> QED
        BY <3>1, <4>1 DEF Greater
    <3>2. CASE k # 1
      BY <1>2, <2>1, <3>2, Order DEF Sorted
    <3> QED
      BY <3>1, <3>2
  <2> QED
    BY <1>4, <2>1, <2>2 DEF IsTop
<1> QED
  BY <1>2, <1>3, <1>4, <1>5, <1>6

\* The members that go before i are a prefix of the list.
LEMMA Prefix ==
  ASSUME NEW list \in Lists, Sorted(list), NEW i \in Interfaces,
         NEW n \in Nat, n = Len(list)
  PROVE  \E m \in 0..n :
           /\ Cardinality({k \in DOMAIN list : GreaterPred(list[k], i)}) = m
           /\ \A k \in 1..n : GreaterPred(list[k], i) <=> k <= m
<1> DEFINE A == {k \in DOMAIN list : GreaterPred(list[k], i)}
           B == {k \in 1..n : ~GreaterPred(list[k], i)}
<1>1. DOMAIN list = 1..n /\ \A k \in 1..n : list[k] \in Interfaces
  BY DEF Lists
<1>2. \E m \in 0..n : \A k \in 1..n : GreaterPred(list[k], i) <=> k <= m
  <2>1. CASE B = {}
    <3>1. \A k \in 1..n : GreaterPred(list[k], i) <=> k <= n
      BY <2>1
    <3>2. n \in 0..n
      OBVIOUS
    <3> QED
      BY <3>1, <3>2
  <2>2. CASE B # {}
    <3>1. B \in SUBSET Nat
      OBVIOUS
    <3>2. PICK b \in B : \A k \in B : b <= k
      BY <2>2, <3>1, Least
    <3>3. ASSUME NEW k \in 1..n PROVE GreaterPred(list[k], i) <=> k <= b - 1
      <4>1. CASE k < b
        <5>1. k \notin B
          BY <3>2, <4>1
        <5> QED
          BY <4>1, <5>1
      <4>2. CASE k = b
        BY <4>2
      <4>3. CASE b < k
        <5>1. GreaterPred(list[b], list[k]) /\ ~GreaterPred(list[b], i) /\ b \in 1..n
          BY <1>1, <4>3 DEF Sorted
        <5>2. ~GreaterPred(list[k], i)
          BY <1>1, <5>1, Order
        <5> QED
          BY <4>3, <5>2
      <4> QED
        BY <4>1, <4>2, <4>3
    <3>4. b - 1 \in 0..n
      OBVIOUS
    <3> QED
      BY <3>3, <3>4
  <2> QED
    BY <2>1, <2>2
<1>3. PICK m \in 0..n : \A k \in 1..n : GreaterPred(list[k], i) <=> k <= m
  BY <1>2
<1>4. A = 1..m
  BY <1>1, <1>3
<1>5. Cardinality(1..m) = m
  BY FS_Interval
<1> QED
  BY <1>3, <1>4, <1>5

\* insert_sorted keeps the list sorted and adds one interface to it.
LEMMA InsertFacts ==
  ASSUME NEW list \in Lists, Sorted(list), NEW i \in Interfaces, i \notin Range(list)
  PROVE  LET new == InsertSorted(list, i)
         IN  /\ new \in Lists /\ Sorted(new)
             /\ Range(new) = Range(list) \cup {i}
             /\ new # <<>>
             /\ Head(new) = i \/ (list # <<>> /\ Head(new) = Head(list))
<1> DEFINE new == InsertSorted(list, i)
<1>1. PICK n \in Nat : n = Len(list)
  BY DEF Lists
<1>2. DOMAIN list = 1..n /\ \A k \in 1..n : list[k] \in Interfaces /\ list[k] # i
  BY <1>1 DEF Lists, Range
<1>3. PICK m \in 0..n :
        /\ Cardinality({k \in DOMAIN list : GreaterPred(list[k], i)}) = m
        /\ \A k \in 1..n : GreaterPred(list[k], i) <=> k <= m
  BY <1>1, Prefix
<1> DEFINE s1 == SubSeq(list, 1, m)
           s2 == SubSeq(list, m + 1, n)
<1>4. new = (s1 \o <<i>>) \o s2
  <2>1. new = InsertAt(list, 1 + m, i)
    BY <1>3 DEF InsertSorted
  <2>2. (1 + m) - 1 = m /\ 1 + m = m + 1
    OBVIOUS
  <2> QED
    BY <1>1, <2>1, <2>2 DEF InsertAt
<1>5. s1 \in Lists /\ Len(s1) = m /\ \A k \in 1..m : s1[k] = list[k]
  <2>1. \A k \in 1..m : list[k] \in Interfaces
    BY <1>2
  <2>2. /\ s1 \in Seq(Interfaces) /\ Len(s1) = IF 1 <= m THEN m - 1 + 1 ELSE 0
        /\ \A k \in 1..m - 1 + 1 : s1[k] = list[1 + k - 1]
    BY <2>1, SubSeqProperties
  <2> QED
    BY <2>2 DEF Lists
<1>6. s2 \in Lists /\ Len(s2) = n - m /\ \A k \in 1..n - m : s2[k] = list[m + k]
  <2>1. \A k \in m + 1..n : list[k] \in Interfaces
    BY <1>2
  <2>2. /\ s2 \in Seq(Interfaces)
        /\ Len(s2) = IF m + 1 <= n THEN n - (m + 1) + 1 ELSE 0
        /\ \A k \in 1..n - (m + 1) + 1 : s2[k] = list[(m + 1) + k - 1]
    BY <2>1, SubSeqProperties
  <2> QED
    BY <2>2 DEF Lists
<1> HIDE DEF s1, s2
<1>7. /\ s1 \o <<i>> \in Lists /\ Len(s1 \o <<i>>) = m + 1
      /\ \A k \in 1..m : (s1 \o <<i>>)[k] = list[k]
      /\ (s1 \o <<i>>)[m + 1] = i
  <2>1. <<i>> \in Seq(Interfaces) /\ Len(<<i>>) = 1 /\ <<i>>[1] = i
    OBVIOUS
  <2>2. PICK t \in Seq(Interfaces) : t = <<i>> /\ Len(t) = 1 /\ t[1] = i
    BY <2>1
  <2>3. s1 \in Seq(Interfaces) /\ Len(s1) = m
    BY <1>5 DEF Lists
  <2>4. /\ s1 \o t \in Seq(Interfaces) /\ Len(s1 \o t) = Len(s1) + Len(t)
        /\ \A k \in 1 .. Len(s1) + Len(t) :
             (s1 \o t)[k] = IF k <= Len(s1) THEN s1[k] ELSE t[k - Len(s1)]
    BY <2>2, <2>3, ConcatProperties
  <2>5. s1 \o t \in Lists /\ Len(s1 \o t) = m + 1
    BY <2>2, <2>3, <2>4 DEF Lists
  <2>6. ASSUME NEW k \in 1..m PROVE (s1 \o t)[k] = list[k]
    <3>1. k \in 1 .. Len(s1) + Len(t) /\ k <= Len(s1)
      BY <2>2, <2>3
    <3> QED
      BY <1>5, <2>4, <3>1
  <2>7. (s1 \o t)[m + 1] = i
    <3>1. m + 1 \in 1 .. Len(s1) + Len(t) /\ ~(m + 1 <= Len(s1)) /\ (m + 1) - Len(s1) = 1
      BY <2>2, <2>3
    <3> QED
      BY <2>2, <2>4, <3>1
  <2> QED
    BY <2>2, <2>5, <2>6, <2>7
<1> DEFINE s3 == s1 \o <<i>>
<1> HIDE DEF s3, new
<1>8. /\ new \in Lists /\ Len(new) = n + 1
      /\ \A k \in 1..n + 1 : new[k] = IF k <= m + 1 THEN s3[k] ELSE s2[k - (m + 1)]
  <2>1. s3 \in Seq(Interfaces) /\ s2 \in Seq(Interfaces) /\ Len(s3) = m + 1
    BY <1>6, <1>7 DEF Lists, s3
  <2>2. new = s3 \o s2
    BY <1>4 DEF s3
  <2>3. (m + 1) + (n - m) = n + 1
    OBVIOUS
  <2>4. /\ s3 \o s2 \in Seq(Interfaces) /\ Len(s3 \o s2) = Len(s3) + Len(s2)
        /\ \A k \in 1 .. Len(s3) + Len(s2) :
             (s3 \o s2)[k] = IF k <= Len(s3) THEN s3[k] ELSE s2[k - Len(s3)]
    BY <2>1, ConcatProperties
  <2> QED
    BY <1>6, <2>1, <2>2, <2>3, <2>4 DEF Lists
<1>9. /\ \A k \in 1..m : new[k] = list[k]
      /\ new[m + 1] = i
      /\ \A k \in m + 2..n + 1 : new[k] = list[k - 1]
  <2>1. \A k \in 1..m : new[k] = list[k]
    BY <1>7, <1>8 DEF s3
  <2>2. new[m + 1] = i
    BY <1>7, <1>8 DEF s3
  <2>3. ASSUME NEW k \in m + 2..n + 1 PROVE new[k] = list[k - 1]
    <3>1. k - (m + 1) \in 1..n - m /\ m + (k - (m + 1)) = k - 1 /\ k \in 1..n + 1 /\ ~(k <= m + 1)
      OBVIOUS
    <3> QED
      BY <1>6, <1>8, <3>1
  <2> QED
    BY <2>1, <2>2, <2>3
<1>10. DOMAIN new = 1..n + 1
  BY <1>8 DEF Lists
<1>11. Sorted(new)
  <2>1. ASSUME NEW k \in 1..n + 1, NEW l \in 1..n + 1, k < l
        PROVE  GreaterPred(new[k], new[l])
    <3>1. CASE l <= m
      BY <1>2, <1>9, <2>1, <3>1 DEF Sorted
    <3>2. CASE l = m + 1
      <4>1. k \in 1..m /\ k \in 1..n
        BY <2>1, <3>2
      <4> QED
        BY <1>3, <1>9, <3>2, <4>1
    <3>3. CASE l > m + 1 /\ k <= m
      <4>1. k \in 1..m /\ k \in 1..n /\ l - 1 \in 1..n /\ l \in m + 2..n + 1 /\ k < l - 1
        BY <2>1, <3>3
      <4> QED
        BY <1>2, <1>9, <4>1 DEF Sorted
    <3>4. CASE l > m + 1 /\ k = m + 1
      <4>1. l - 1 \in 1..n /\ l \in m + 2..n + 1 /\ ~(l - 1 <= m)
        BY <2>1, <3>4
      <4>2. ~GreaterPred(list[l - 1], i) /\ list[l - 1] # i /\ list[l - 1] \in Interfaces
        BY <1>2, <1>3, <4>1
      <4>3. GreaterPred(i, list[l - 1])
        BY <4>2, Order
      <4> QED
        BY <1>9, <3>4, <4>1, <4>3
    <3>5. CASE l > m + 1 /\ k > m + 1
      <4>1. /\ l - 1 \in 1..n /\ l \in m + 2..n + 1
            /\ k - 1 \in 1..n /\ k \in m + 2..n + 1 /\ k - 1 < l - 1
        BY <2>1, <3>5
      <4> QED
        BY <1>2, <1>9, <4>1 DEF Sorted
    <3> QED
      BY <3>1, <3>2, <3>3, <3>4, <3>5
  <2> QED
    BY <1>10, <2>1 DEF Sorted
<1>12. Range(new) = Range(list) \cup {i}
  <2>1. ASSUME NEW k \in 1..n + 1 PROVE new[k] = i \/ \E l \in 1..n : new[k] = list[l]
    <3>1. k \in 1..m \/ k = m + 1 \/ (k \in m + 2..n + 1 /\ k - 1 \in 1..n)
      OBVIOUS
    <3> QED
      BY <1>9, <3>1
  <2>2. ASSUME NEW l \in 1..n PROVE \E k \in 1..n + 1 : new[k] = list[l]
    <3>1. CASE l <= m
      BY <1>9, <3>1
    <3>2. CASE l > m
      <4>1. l + 1 \in m + 2..n + 1 /\ (l + 1) - 1 = l /\ l + 1 \in 1..n + 1
        BY <3>2
      <4> QED
        BY <1>9, <4>1
    <3> QED
      BY <3>1, <3>2
  <2>3. m + 1 \in 1..n + 1 /\ new[m + 1] = i
    BY <1>9
  <2>4. Range(new) = {new[k] : k \in 1..n + 1} /\ Range(list) = {list[k] : k \in 1..n}
    BY <1>2, <1>10 DEF Range
  <2> QED
    BY <2>1, <2>2, <2>3, <2>4
<1>13. new # <<>> /\ Head(new) = new[1]
  <2>1. new \in Seq(Interfaces) /\ Len(new) > 0
    BY <1>8 DEF Lists
  <2> QED
    BY <2>1
<1>14. Head(new) = i \/ (list # <<>> /\ Head(new) = Head(list))
  <2>1. CASE m = 0
    BY <1>9, <1>13, <2>1
  <2>2. CASE m # 0
    <3>1. 1 \in 1..m /\ list \in Seq(Interfaces) /\ Len(list) > 0
      BY <1>1, <2>2 DEF Lists
    <3>2. list # <<>> /\ Head(list) = list[1]
      BY <3>1
    <3> QED
      BY <1>9, <1>13, <3>1, <3>2
  <2> QED
    BY <2>1, <2>2
<1> QED
  BY <1>8, <1>11, <1>12, <1>13, <1>14 DEF new

\* Taking an interface out keeps the list sorted.
LEMMA UnlinkFacts ==
  ASSUME NEW list \in Lists, Sorted(list), NEW i \in Range(list)
  PROVE  /\ Unlink(list, i) \in Lists /\ Sorted(Unlink(list, i))
         /\ Range(Unlink(list, i)) = Range(list) \ {i}
<1> DEFINE new == Unlink(list, i)
<1>1. PICK n \in Nat : n = Len(list)
  BY DEF Lists
<1>2. DOMAIN list = 1..n /\ \A k \in 1..n : list[k] \in Interfaces
  BY <1>1 DEF Lists
<1>3. PICK m \in 1..n : m = CHOOSE k \in DOMAIN list : list[k] = i
  BY <1>2 DEF Range
<1>4. list[m] = i
  BY <1>2, <1>3 DEF Range
<1> DEFINE s1 == SubSeq(list, 1, m - 1)
           s2 == SubSeq(list, m + 1, n)
<1>5. new = s1 \o s2
  BY <1>1, <1>3 DEF Unlink, RemoveAt
<1>6. s1 \in Lists /\ Len(s1) = m - 1 /\ \A k \in 1..m - 1 : s1[k] = list[k]
  <2>1. \A k \in 1..m - 1 : list[k] \in Interfaces
    BY <1>2
  <2>2. /\ s1 \in Seq(Interfaces) /\ Len(s1) = IF 1 <= m - 1 THEN (m - 1) - 1 + 1 ELSE 0
        /\ \A k \in 1..(m - 1) - 1 + 1 : s1[k] = list[1 + k - 1]
    BY <2>1, SubSeqProperties
  <2> QED
    BY <2>2 DEF Lists
<1>7. s2 \in Lists /\ Len(s2) = n - m /\ \A k \in 1..n - m : s2[k] = list[m + k]
  <2>1. \A k \in m + 1..n : list[k] \in Interfaces
    BY <1>2
  <2>2. /\ s2 \in Seq(Interfaces)
        /\ Len(s2) = IF m + 1 <= n THEN n - (m + 1) + 1 ELSE 0
        /\ \A k \in 1..n - (m + 1) + 1 : s2[k] = list[(m + 1) + k - 1]
    BY <2>1, SubSeqProperties
  <2> QED
    BY <2>2 DEF Lists
<1> HIDE DEF s1, s2, new
<1>8. /\ new \in Lists /\ Len(new) = n - 1
      /\ \A k \in 1..n - 1 : new[k] = IF k <= m - 1 THEN s1[k] ELSE s2[k - (m - 1)]
  <2>1. (m - 1) + (n - m) = n - 1
    OBVIOUS
  <2>2. /\ s1 \o s2 \in Seq(Interfaces) /\ Len(s1 \o s2) = Len(s1) + Len(s2)
        /\ \A k \in 1 .. Len(s1) + Len(s2) :
             (s1 \o s2)[k] = IF k <= Len(s1) THEN s1[k] ELSE s2[k - Len(s1)]
    BY <1>6, <1>7, ConcatProperties DEF Lists
  <2> QED
    BY <1>5, <1>6, <1>7, <2>1, <2>2 DEF Lists
<1>9. /\ \A k \in 1..m - 1 : new[k] = list[k]
      /\ \A k \in m..n - 1 : new[k] = list[k + 1]
  <2>1. \A k \in 1..m - 1 : new[k] = list[k]
    BY <1>6, <1>8
  <2>2. ASSUME NEW k \in m..n - 1 PROVE new[k] = list[k + 1]
    <3>1. k - (m - 1) \in 1..n - m /\ m + (k - (m - 1)) = k + 1 /\ k \in 1..n - 1 /\ ~(k <= m - 1)
      OBVIOUS
    <3> QED
      BY <1>7, <1>8, <3>1
  <2> QED
    BY <2>1, <2>2
<1>10. DOMAIN new = 1..n - 1
  BY <1>8 DEF Lists
<1>11. Sorted(new)
  <2>1. ASSUME NEW k \in 1..n - 1, NEW l \in 1..n - 1, k < l
        PROVE  GreaterPred(new[k], new[l])
    <3>1. CASE l <= m - 1
      BY <1>2, <1>9, <2>1, <3>1 DEF Sorted
    <3>2. CASE l >= m /\ k <= m - 1
      <4>1. k \in 1..m - 1 /\ k \in 1..n /\ l + 1 \in 1..n /\ l \in m..n - 1 /\ k < l + 1
        BY <2>1, <3>2
      <4> QED
        BY <1>2, <1>9, <4>1 DEF Sorted
    <3>3. CASE k >= m
      <4>1. /\ k + 1 \in 1..n /\ k \in m..n - 1
            /\ l + 1 \in 1..n /\ l \in m..n - 1 /\ k + 1 < l + 1
        BY <2>1, <3>3
      <4> QED
        BY <1>2, <1>9, <4>1 DEF Sorted
    <3> QED
      BY <3>1, <3>2, <3>3
  <2> QED
    BY <1>10, <2>1 DEF Sorted
<1>12. IsInjective(list)
  BY ListFacts
<1>13. Range(new) = Range(list) \ {i}
  <2>1. ASSUME NEW k \in 1..n - 1
        PROVE  \E l \in 1..n : new[k] = list[l] /\ list[l] # i
    <3>1. CASE k <= m - 1
      <4>1. k \in 1..n /\ k # m
        BY <3>1
      <4>2. list[k] # i
        BY <1>2, <1>4, <1>12, <4>1 DEF IsInjective
      <4> QED
        BY <1>9, <3>1, <4>1, <4>2
    <3>2. CASE k >= m
      <4>1. k + 1 \in 1..n /\ k + 1 # m /\ k \in m..n - 1
        BY <3>2
      <4>2. list[k + 1] # i
        BY <1>2, <1>4, <1>12, <4>1 DEF IsInjective
      <4> QED
        BY <1>9, <4>1, <4>2
    <3> QED
      BY <3>1, <3>2
  <2>2. ASSUME NEW l \in 1..n, list[l] # i PROVE \E k \in 1..n - 1 : new[k] = list[l]
    <3>1. CASE l <= m - 1
      <4>1. l \in 1..m - 1 /\ l \in 1..n - 1
        BY <3>1
      <4> QED
        BY <1>9, <4>1
    <3>2. CASE l > m
      <4>1. l - 1 \in m..n - 1 /\ (l - 1) + 1 = l /\ l - 1 \in 1..n - 1
        BY <3>2
      <4> QED
        BY <1>9, <4>1
    <3>3. l # m
      BY <1>4, <2>2
    <3> QED
      BY <3>1, <3>2, <3>3
  <2>3. Range(new) = {new[k] : k \in 1..n - 1} /\ Range(list) = {list[k] : k \in 1..n}
    BY <1>2, <1>10 DEF Range
  <2> QED
    BY <2>1, <2>2, <2>3
<1> QED
  BY <1>8, <1>11, <1>13 DEF new
-----------------------------------------------------------------------------
(* What holds of an import, beside the interfaces S the entry lists, the   *)
(* phases ph of their services and the interfaces st that shall stop.      *)

Maybe == Interfaces \cup {None}
Maps == UNION {[D -> Uses] : D \in SUBSET Interfaces}

Records ==
  [kind : Kinds, default : BOOLEAN, swaps : BOOLEAN,
   phase : {"absent", "stopped", "locked", "running"},
   marked : BOOLEAN, sat : BOOLEAN, active : Maybe, pref : Maybe,
   pending : BOOLEAN, ptr : Maybe, task : {None, "offered", "granted", "applied"},
   map : Maps, asked : SUBSET Interfaces,
   failed : {None, "onUsedDestroy", "onSubscribedCreated", "finalize",
             "post_start_actions"}]

\* Only DynDependencies has usages of its own.
Part == {r \in Records : r.kind # "DynDependencies" => DOMAIN r.map = {}}

NoSwap(r) == r.pref = None /\ r.ptr = None /\ ~r.pending /\ r.task = None

AbsentInv(r) == r.active = None /\ NoSwap(r) /\ r.sat /\ r.asked = {}

StoppedInv(r, S) ==
  /\ NoSwap(r)
  /\ (r.sat <=> S # {}) /\ (r.sat <=> r.active # None)
  /\ r.active # None => r.active \in S
  /\ r.kind = "Dependency" => \A i \in S : ~Greater(i, r.active)

\* A swap is pending only to a preferred interface whose service runs.
HeldInv(r, S, ph) ==
  /\ r.sat /\ r.active \in S /\ ph[r.active] = "running"
  /\ r.kind = "Dependency" => NoSwap(r)
  /\ r.pref # None => r.pref \in S
  /\ r.pending => r.pref # None /\ ph[r.pref] = "running"
  /\ r.task # None => r.pending
  /\ r.task \in {"granted", "applied"} => r.phase = "running"
  /\ IsDyn(r) => r.ptr = IF r.task = "applied" THEN r.pref ELSE r.active

SelectorInv(r, S, ph) ==
  /\ r.phase = "absent" => AbsentInv(r)
  /\ r.phase = "stopped" => StoppedInv(r, S)
  /\ Held(r) => HeldInv(r, S, ph)

\* The use i of a part that is not locked: only a weak use can be released, for
\* a service that is about to stop.
Idle(use, i, st) ==
  use.connected \/ (i \in st /\ use.stored = "erased" /\ Flags[i] = "weak")

UsesInv(r, S, ph, st) ==
  /\ ~r.default /\ r.active = None /\ NoSwap(r)
  /\ DOMAIN r.map \subseteq S
  /\ r.phase = "absent" => DOMAIN r.map = {}
  /\ Alive(r) => {i \in S : Flags[i] # "ignore"} \subseteq DOMAIN r.map
  /\ r.phase = "stopped" => \A i \in DOMAIN r.map : Idle(r.map[i], i, st)
  /\ Held(r) => \A i \in DOMAIN r.map : r.map[i].stored # "erased" =>
                  /\ r.map[i].connected
                  /\ r.map[i].stored = "inserted" => ph[i] # "pending"

PartInv(r, S, ph, st) ==
  /\ r \in Part
  /\ r.kind # "DynDependencies" /\ r.failed = None => SelectorInv(r, S, ph)
  /\ r.kind = "DynDependencies" => UsesInv(r, S, ph, st)

PhaseMap == [Interfaces -> Phases]

\* An import does not mind the steps of a service that is not running, nor of
\* one it does not use while it is locked.
LEMMA PhaseKept ==
  ASSUME NEW r, NEW S \in SUBSET Interfaces, NEW ph \in PhaseMap, NEW st, NEW new \in PhaseMap,
         PartInv(r, S, ph, st), r.failed = None,
         \A j \in Interfaces :
           \/ new[j] = ph[j]
           \/ ph[j] # "running" /\ new[j] \notin {"running", "pending"}
           \/ Held(r) => j \notin Connected(r)
  PROVE  PartInv(r, S, new, st)
<1>1. r \in Part
  BY DEF PartInv
<1>2. CASE r.kind # "DynDependencies"
  <2>1. SelectorInv(r, S, ph)
    BY <1>2 DEF PartInv
  <2>2. ASSUME Held(r) PROVE HeldInv(r, S, new)
    <3>1. HeldInv(r, S, ph) /\ Connected(r) = {r.active, r.pref} \ {None}
      BY <1>2, <2>1, <2>2 DEF SelectorInv, Connected
    <3>2. r.active \in Interfaces /\ r.active # None /\ r.active \in Connected(r)
      BY <3>1, ImportsAssumption DEF HeldInv
    <3>3. new[r.active] = "running"
      BY <2>2, <3>1, <3>2 DEF HeldInv
    <3>4. ASSUME r.pending PROVE new[r.pref] = "running"
      <4>1. r.pref \in Interfaces /\ r.pref \in Connected(r) /\ ph[r.pref] = "running"
        BY <3>1, <3>4 DEF HeldInv
      <4> QED
        BY <2>2, <4>1
    <3> QED
      BY <3>1, <3>3, <3>4 DEF HeldInv
  <2> QED
    BY <1>1, <1>2, <2>1, <2>2 DEF PartInv, SelectorInv
<1>3. CASE r.kind = "DynDependencies"
  <2>1. UsesInv(r, S, ph, st)
    BY <1>3 DEF PartInv
  <2>2. ASSUME Held(r), NEW i \in DOMAIN r.map, r.map[i].stored = "inserted"
        PROVE  new[i] # "pending"
    <3>1. r.map[i].connected /\ ph[i] # "pending" /\ i \in Interfaces
      BY <2>1, <2>2 DEF UsesInv
    <3>2. i \in Connected(r)
      BY <1>3, <3>1 DEF Connected
    <3> QED
      BY <2>2, <3>1, <3>2
  <2> QED
    BY <1>1, <1>3, <2>1, <2>2 DEF PartInv, UsesInv
<1> QED
  BY <1>2, <1>3

\* What SetUse does to the map.
LEMMA SetUseFacts ==
  ASSUME NEW r \in Part, NEW i \in Interfaces, NEW use \in Uses,
         r.kind = "DynDependencies"
  PROVE  LET new == SetUse(r, i, use)
         IN  /\ new \in Part
             /\ DOMAIN new.map = DOMAIN r.map \cup {i}
             /\ new.map[i] = use
             /\ \A j \in DOMAIN r.map \ {i} : new.map[j] = r.map[j]
             /\ \A f \in {"kind", "default", "swaps", "phase", "marked", "sat", "active",
                          "pref", "pending", "ptr", "task", "asked", "failed"} : new[f] = r[f]
<1> DEFINE map == [j \in DOMAIN r.map \cup {i} |-> IF j = i THEN use ELSE r.map[j]]
<1>1. PICK D \in SUBSET Interfaces : r.map \in [D -> Uses]
  BY DEF Part, Records, Maps
<1>2. map \in [D \cup {i} -> Uses]
  BY <1>1
<1>3. map \in Maps
  BY <1>2 DEF Maps
<1>4. SetUse(r, i, use) = [r EXCEPT !.map = map]
  BY DEF SetUse
<1> HIDE DEF map
<1>5. [r EXCEPT !.map = map] \in Part
  BY <1>3 DEF Part, Records
<1>6. /\ [r EXCEPT !.map = map].map = map
      /\ \A f \in {"kind", "default", "swaps", "phase", "marked", "sat", "active",
                          "pref", "pending", "ptr", "task", "asked", "failed"} :
           [r EXCEPT !.map = map][f] = r[f]
  BY DEF Part, Records
<1> QED
  BY <1>4, <1>5, <1>6 DEF map

-----------------------------------------------------------------------------
(* The operations of DynDependencies. *)

\* What an import part knows of an interface.
LEMMA UseFacts ==
  ASSUME NEW r \in Part
  PROVE  /\ \A i \in DOMAIN r.map : i \in Interfaces /\ r.map[i] \in Uses
         /\ NewUse \in Uses /\ \A i \in Interfaces : UseOf(r, i) \in Uses
<1>1. PICK D \in SUBSET Interfaces : r.map \in [D -> Uses]
  BY DEF Part, Records, Maps
<1>2. NewUse \in Uses
  BY DEF NewUse, Uses, UseReplies
<1> QED
  BY <1>1, <1>2 DEF UseOf

\* A change of one use keeps the invariant when the new use is sound.
LEMMA SetUseKeeps ==
  ASSUME NEW r \in Part, NEW S \in SUBSET Interfaces, NEW T \in SUBSET Interfaces,
         NEW ph \in PhaseMap, NEW i \in T, T = S \cup {i}, NEW use \in Uses,
         NEW st, NEW now, st \subseteq now \cup {i},
         r.kind = "DynDependencies", UsesInv(r, S, ph, st), Alive(r),
         r.phase = "stopped" => Idle(use, i, now),
         use.stored # "erased" => use.connected /\ (use.stored = "inserted" => ph[i] # "pending")
  PROVE  PartInv(SetUse(r, i, use), T, ph, now)
<1> DEFINE new == SetUse(r, i, use)
<1>1. /\ new \in Part
      /\ DOMAIN new.map = DOMAIN r.map \cup {i}
      /\ new.map[i] = use
      /\ \A j \in DOMAIN r.map \ {i} : new.map[j] = r.map[j]
      /\ \A f \in {"kind", "default", "swaps", "phase", "marked", "sat", "active",
                   "pref", "pending", "ptr", "task", "asked", "failed"} : new[f] = r[f]
  BY SetUseFacts
<1>2. /\ new.kind = r.kind /\ new.default = r.default /\ new.phase = r.phase
      /\ new.active = r.active /\ new.pref = r.pref /\ new.pending = r.pending
      /\ new.ptr = r.ptr /\ new.task = r.task /\ new.failed = r.failed
  BY <1>1
<1> HIDE DEF new
<1>3. DOMAIN new.map \subseteq T /\ {j \in T : Flags[j] # "ignore"} \subseteq DOMAIN new.map
  BY <1>1 DEF UsesInv
<1>4. ASSUME r.phase = "stopped", NEW j \in DOMAIN new.map
      PROVE  Idle(new.map[j], j, now)
  <2>1. CASE j = i
    BY <1>1, <1>4, <2>1
  <2>2. CASE j # i
    BY <1>1, <1>4, <2>2 DEF UsesInv, Idle
  <2> QED
    BY <2>1, <2>2
<1>5. Held(r) => \A j \in DOMAIN new.map : new.map[j].stored # "erased" =>
                  /\ new.map[j].connected
                  /\ new.map[j].stored = "inserted" => ph[j] # "pending"
  BY <1>1 DEF UsesInv
<1>6. UsesInv(new, T, ph, now)
  BY <1>2, <1>3, <1>4, <1>5 DEF UsesInv, NoSwap, Held, Alive
<1> QED
  BY <1>1, <1>2, <1>6 DEF PartInv, new

\* process_availability, for a new interface and for one that was unlocked.
LEMMA ProcessKeeps ==
  ASSUME NEW r, NEW S \in SUBSET Interfaces, NEW T \in SUBSET Interfaces,
         NEW ph \in PhaseMap, NEW i \in T, T = S \cup {i}, ph[i] # "pending",
         NEW st, NEW now, st \subseteq now \cup {i},
         r.kind = "DynDependencies", PartInv(r, S, ph, st), Alive(r), NEW reply \in UseReplies
  PROVE  PartInv(ProcessAvailability(r, i, reply), T, ph, now)
<1>1. r \in Part /\ UsesInv(r, S, ph, st) /\ i \in Interfaces
  BY DEF PartInv
<1>2. PICK use \in Uses : use = UseOf(r, i)
  BY <1>1, UseFacts
<1>3. /\ use.connected \in BOOLEAN /\ use.stored \in {"erased", "inserted", "unknown"}
      /\ use.reply \in UseReplies
  BY DEF Uses
<1>4. use.stored # "erased" => use.connected \/ r.phase = "stopped"
  BY <1>1, <1>2 DEF UsesInv, UseOf, NewUse, Part, Records, Held, Alive
<1>5. i \in DOMAIN r.map /\ r.phase = "stopped" => Idle(use, i, st)
  BY <1>1, <1>2 DEF UsesInv, UseOf
<1>6. ~(i \in DOMAIN r.map) => use.stored = "erased"
  BY <1>2 DEF UseOf, NewUse
<1> DEFINE joined == [use EXCEPT !.connected = TRUE]
           in == [joined EXCEPT !.stored = "inserted"]
           never == [use EXCEPT !.reply = reply]
           later == [joined EXCEPT !.reply = reply]
<1>7. /\ joined \in Uses /\ joined.connected /\ joined.stored = use.stored
      /\ in \in Uses /\ in.connected
      /\ never \in Uses /\ never.connected = use.connected /\ never.stored = use.stored
      /\ later \in Uses /\ later.connected /\ later.stored = use.stored
  BY DEF Uses
<1> HIDE DEF joined, in, never, later
<1>8. CASE Flags[i] = "ignore" \/ use.connected
  <2>1. use.connected => i \in DOMAIN r.map
    BY <1>2 DEF UseOf, NewUse
  <2>2. UsesInv(r, T, ph, now)
    <3>1. DOMAIN r.map \subseteq T
      BY <1>1 DEF UsesInv
    <3>2. Alive(r) => {j \in T : Flags[j] # "ignore"} \subseteq DOMAIN r.map
      BY <1>1, <1>8, <2>1 DEF UsesInv
    <3>3. ASSUME r.phase = "stopped", NEW j \in DOMAIN r.map PROVE Idle(r.map[j], j, now)
      <4>1. Idle(r.map[j], j, st)
        BY <1>1, <3>3 DEF UsesInv
      <4>2. j = i => r.map[j] = use
        BY <1>2, <3>3 DEF UseOf
      <4> QED
        BY <1>8, <4>1, <4>2 DEF Idle
    <3> QED
      BY <1>1, <3>1, <3>2, <3>3 DEF UsesInv
  <2>3. ProcessAvailability(r, i, reply) = r
    BY <1>2, <1>8 DEF ProcessAvailability
  <2> QED
    BY <1>1, <2>2, <2>3 DEF PartInv
<1>9. CASE ~(Flags[i] = "ignore" \/ use.connected)
  <2>1. \/ ProcessAvailability(r, i, reply) \in
             {SetUse(r, i, joined), SetUse(r, i, in), SetUse(r, i, later)}
        \/ ProcessAvailability(r, i, reply) = SetUse(r, i, never) /\ Held(r)
    BY <1>2, <1>9 DEF ProcessAvailability, joined, in, never, later
  <2>2. Held(r) => r.phase # "stopped"
    BY DEF Held
  <2>3. use.stored = "erased"
    BY <1>4, <1>5, <1>6, <1>9 DEF Idle
  <2>4. PartInv(SetUse(r, i, joined), T, ph, now)
    BY <1>1, <1>7, <2>3, SetUseKeeps DEF Idle
  <2>5. PartInv(SetUse(r, i, in), T, ph, now)
    BY <1>1, <1>7, SetUseKeeps DEF Idle
  <2>6. r.phase # "stopped" => PartInv(SetUse(r, i, never), T, ph, now)
    BY <1>1, <1>7, <2>3, SetUseKeeps
  <2>7. PartInv(SetUse(r, i, later), T, ph, now)
    BY <1>1, <1>7, <2>3, SetUseKeeps DEF Idle
  <2> QED
    BY <2>1, <2>2, <2>4, <2>5, <2>6, <2>7
<1> QED
  BY <1>8, <1>9

\* An interface that a DynDependencies no longer knows.
LEMMA ForgetKeeps ==
  ASSUME NEW r, NEW S \in SUBSET Interfaces, NEW ph \in PhaseMap, NEW st, NEW i \in S,
         r.kind = "DynDependencies", PartInv(r, S, ph, st)
  PROVE  PartInv(Forget(r, i), S \ {i}, ph, st)
<1> DEFINE map == [j \in DOMAIN r.map \ {i} |-> r.map[j]]
           new == [r EXCEPT !.map = map, !.asked = r.asked \ {i}]
<1>1. r \in Part /\ UsesInv(r, S, ph, st)
  BY DEF PartInv
<1>2. map \in Maps
  <2>1. PICK D \in SUBSET Interfaces : r.map \in [D -> Uses]
    BY <1>1 DEF Part, Records, Maps
  <2>2. map \in [D \ {i} -> Uses]
    BY <2>1
  <2> QED
    BY <2>2 DEF Maps
<1>3. Forget(r, i) = new
  BY DEF Forget
<1>4. DOMAIN map = DOMAIN r.map \ {i} /\ \A j \in DOMAIN map : map[j] = r.map[j]
  OBVIOUS
<1> HIDE DEF map
<1>5. /\ new \in Part /\ new.map = map
      /\ new.kind = r.kind /\ new.default = r.default /\ new.phase = r.phase
      /\ new.active = r.active /\ new.pref = r.pref /\ new.pending = r.pending
      /\ new.ptr = r.ptr /\ new.task = r.task /\ new.failed = r.failed
  BY <1>1, <1>2 DEF Part, Records
<1> HIDE DEF new
<1>6. UsesInv(new, S \ {i}, ph, st)
  BY <1>1, <1>4, <1>5 DEF UsesInv, NoSwap, Held, Alive
<1> QED
  BY <1>3, <1>5, <1>6 DEF PartInv

\* onImportLock and onImportUnlock give every use of the map a new value.
LEMMA NewMap ==
  ASSUME NEW r \in Part, NEW S \in SUBSET Interfaces, NEW ph \in PhaseMap, NEW st,
         r.kind = "DynDependencies", UsesInv(r, S, ph, st), Alive(r),
         NEW map \in [DOMAIN r.map -> Uses],
         NEW to \in {"stopped", "locked"}, NEW mark \in BOOLEAN,
         to = "stopped" => \A i \in DOMAIN r.map : map[i].connected,
         \A i \in DOMAIN r.map : map[i].stored # "erased" =>
            map[i].connected /\ (to = "locked" => ph[i] # "pending")
  PROVE  PartInv([[r EXCEPT !.map = map] EXCEPT !.phase = to, !.marked = mark], S, ph, st)
<1> DEFINE new == [[r EXCEPT !.map = map] EXCEPT !.phase = to, !.marked = mark]
<1>1. map \in Maps
  BY UseFacts DEF Maps
<1>2. /\ new \in Part /\ new.map = map /\ new.phase = to
      /\ new.kind = r.kind /\ new.default = r.default
      /\ new.active = r.active /\ new.pref = r.pref /\ new.pending = r.pending
      /\ new.ptr = r.ptr /\ new.task = r.task /\ new.failed = r.failed
  BY <1>1 DEF Part, Records
<1> HIDE DEF new
<1>3. UsesInv(new, S, ph, st)
  BY <1>2 DEF UsesInv, NoSwap, Held, Alive, Idle
<1> QED
  BY <1>2, <1>3 DEF PartInv, new

\* onImportLock of DynDependencies puts what runs into the storage.
LEMMA UsesLockKeeps ==
  ASSUME NEW r, NEW S \in SUBSET Interfaces, NEW ph \in PhaseMap, NEW st,
         PartInv(r, S, ph, st),
         r.kind = "DynDependencies", r.phase = "stopped"
  PROVE  PartInv([UsesLock(r, ph) EXCEPT !.phase = "locked"], S, ph, st)
<1>1. r \in Part /\ UsesInv(r, S, ph, st) /\ Alive(r)
  BY DEF PartInv, Alive
<1> DEFINE map == [i \in DOMAIN r.map |->
                     IF ~r.map[i].connected THEN r.map[i]
                     ELSE IF ph[i] = "running" THEN [r.map[i] EXCEPT !.stored = "inserted"]
                     ELSE [r.map[i] EXCEPT !.reply = "LaterAndNotify", !.stored = "erased"]]
<1>2. UsesLock(r, ph) = [r EXCEPT !.map = map]
  BY DEF UsesLock
<1>3. ASSUME NEW i \in DOMAIN r.map
      PROVE  /\ map[i] \in Uses
             /\ map[i].stored # "erased" => map[i].connected /\ ph[i] # "pending"
  <2>1. PICK use \in Uses : use = r.map[i]
    BY <1>1, UseFacts
  <2>2. Idle(use, i, st)
    BY <1>1, <2>1 DEF UsesInv
  <2>3. map[i] = IF ~use.connected THEN use
                 ELSE IF ph[i] = "running" THEN [use EXCEPT !.stored = "inserted"]
                 ELSE [use EXCEPT !.reply = "LaterAndNotify", !.stored = "erased"]
    BY <2>1
  <2> HIDE DEF map
  <2> QED
    BY <2>2, <2>3 DEF Uses, UseReplies, Idle
<1>4. map \in [DOMAIN r.map -> Uses]
  BY <1>3
<1> HIDE DEF map
<1>5. r.marked \in BOOLEAN
  BY <1>1 DEF Part, Records
<1>6. PartInv([[r EXCEPT !.map = map] EXCEPT !.phase = "locked", !.marked = r.marked], S, ph, st)
  BY <1>1, <1>3, <1>4, <1>5, NewMap
<1>7. [[r EXCEPT !.map = map] EXCEPT !.phase = "locked", !.marked = r.marked]
        = [[r EXCEPT !.map = map] EXCEPT !.phase = "locked"]
  BY <1>1 DEF Part, Records
<1> QED
  BY <1>2, <1>6, <1>7

\* onImportUnlock of DynDependencies connects what was declined again.
LEMMA UsesUnlockKeeps ==
  ASSUME NEW r, NEW S \in SUBSET Interfaces, NEW ph \in PhaseMap, NEW st,
         PartInv(r, S, ph, st),
         r.kind = "DynDependencies", r.phase = "running"
  PROVE  PartInv([UsesUnlock(r) EXCEPT !.phase = "stopped", !.marked = FALSE], S, ph, st)
<1>1. r \in Part /\ UsesInv(r, S, ph, st) /\ Alive(r)
  BY DEF PartInv, Alive
<1> DEFINE map == [i \in DOMAIN r.map |->
                     [connected |-> TRUE, stored |-> "inserted",
                      reply |-> IF r.map[i].connected THEN r.map[i].reply ELSE "Later"]]
<1>2. UsesUnlock(r) = [r EXCEPT !.map = map]
  BY DEF UsesUnlock
<1>3. ASSUME NEW i \in DOMAIN r.map
      PROVE  map[i] \in Uses /\ map[i].connected
  <2>1. PICK use \in Uses : use = r.map[i]
    BY <1>1, UseFacts
  <2>2. map[i] = [connected |-> TRUE, stored |-> "inserted",
                  reply |-> IF use.connected THEN use.reply ELSE "Later"]
    BY <2>1
  <2> HIDE DEF map
  <2> QED
    BY <2>2 DEF Uses, UseReplies
<1>4. map \in [DOMAIN r.map -> Uses]
  BY <1>3
<1> HIDE DEF map
<1>5. PartInv([[r EXCEPT !.map = map] EXCEPT !.phase = "stopped", !.marked = FALSE], S, ph, st)
  BY <1>1, <1>3, <1>4, NewMap
<1> QED
  BY <1>2, <1>5

\* onUsedStarted of a use, when the service i has been started.
LEMMA UseStartedKeeps ==
  ASSUME NEW r, NEW S \in SUBSET Interfaces, NEW ph \in PhaseMap, NEW st,
         PartInv(r, S, ph, st),
         r.kind = "DynDependencies", Held(r), NEW i \in Connected(r), ph[i] = "running",
         NEW reply \in UseReplies
  PROVE  PartInv(UseStarted(r, i, reply), S, ph, st)
<1>1. r \in Part /\ UsesInv(r, S, ph, st) /\ Alive(r)
  BY DEF PartInv, Alive, Held
<1>2. i \in DOMAIN r.map /\ r.map[i].connected
  BY DEF Connected
<1>3. PICK use \in Uses : use = r.map[i]
  BY <1>1, <1>2, UseFacts
<1>4. i \in S /\ S = S \cup {i} /\ r.phase # "stopped"
  BY <1>1, <1>2 DEF UsesInv, Held
<1> DEFINE in == [use EXCEPT !.stored = "inserted"]
<1>5. in \in Uses /\ in.connected
  BY <1>2, <1>3 DEF Uses
<1>6. UseStarted(r, i, reply) \in {SetUse(r, i, in), r}
  BY <1>3 DEF UseStarted
<1> HIDE DEF in
<1>7. PartInv(SetUse(r, i, in), S, ph, st)
  BY <1>1, <1>4, <1>5, SetUseKeeps
<1> QED
  BY <1>6, <1>7

\* doAcquireUsage
LEMMA AcquireKeeps ==
  ASSUME NEW r, NEW S \in SUBSET Interfaces, NEW ph \in PhaseMap, NEW st,
         PartInv(r, S, ph, st),
         r.kind = "DynDependencies", Held(r), NEW i \in S
  PROVE  PartInv(SetUse(r, i, [UseOf(r, i) EXCEPT !.connected = TRUE, !.stored = "unknown"]),
                 S, ph, st)
<1>1. r \in Part /\ UsesInv(r, S, ph, st) /\ Alive(r)
  BY DEF PartInv, Alive, Held
<1>2. PICK use \in Uses : use = UseOf(r, i)
  BY <1>1, UseFacts
<1> DEFINE new == [use EXCEPT !.connected = TRUE, !.stored = "unknown"]
<1>3. new \in Uses /\ new.connected /\ new.stored = "unknown"
  BY DEF Uses
<1> HIDE DEF new
<1>4. S = S \cup {i} /\ st \subseteq st \cup {i} /\ r.phase # "stopped"
  BY DEF Held
<1>5. PartInv(SetUse(r, i, new), S, ph, st)
  BY <1>1, <1>3, <1>4, SetUseKeeps
<1> QED
  BY <1>2, <1>5 DEF new

\* doReleaseUsage, and a use that is released at once when its service stops,
\* which only happens to a weak use when the part is not locked.
LEMMA ReleaseKeeps ==
  ASSUME NEW r, NEW S \in SUBSET Interfaces, NEW ph \in PhaseMap, NEW st,
         PartInv(r, S, ph, st), r.kind = "DynDependencies", NEW i \in DOMAIN r.map,
         Held(r) \/ (Alive(r) /\ i \in st /\ Flags[i] = "weak")
  PROVE  PartInv(SetUse(r, i, [r.map[i] EXCEPT !.connected = FALSE, !.stored = "erased"]),
                 S, ph, st)
<1>1. r \in Part /\ UsesInv(r, S, ph, st) /\ Alive(r)
  BY DEF PartInv, Alive, Held
<1>2. PICK use \in Uses : use = r.map[i]
  BY <1>1, UseFacts
<1> DEFINE new == [use EXCEPT !.connected = FALSE, !.stored = "erased"]
<1>3. /\ new \in Uses /\ new.stored = "erased" /\ i \in S /\ S = S \cup {i}
      /\ r.phase = "stopped" => i \in st /\ Flags[i] = "weak"
  BY <1>1 DEF Uses, UsesInv, Held
<1> HIDE DEF new
<1>4. PartInv(SetUse(r, i, new), S, ph, st)
  BY <1>1, <1>3, SetUseKeeps DEF Idle
<1> QED
  BY <1>2, <1>4 DEF new

-----------------------------------------------------------------------------
(* The operations of Dependency and DynDependency. *)

\* The priorities are a preorder.
LEMMA Priority ==
  ASSUME NEW i \in Interfaces, NEW j \in Interfaces, NEW k \in Interfaces
  PROVE  /\ ~Greater(i, i)
         /\ Greater(i, j) /\ Greater(j, k) => Greater(i, k)
         /\ ~Greater(i, j) /\ ~Greater(j, k) => ~Greater(i, k)
<1>1. Prio[i] \in Nat /\ Prio[j] \in Nat /\ Prio[k] \in Nat
  BY RegistryAssumption
<1> QED
  BY <1>1 DEF Greater

\* onSubscribedCreated of a Dependency
LEMMA DependencyCreatedKeeps ==
  ASSUME NEW r, NEW S \in SUBSET Interfaces, NEW ph \in PhaseMap, NEW st,
         PartInv(r, S, ph, st),
         r.kind = "Dependency", r.failed = None, Alive(r), NEW i \in Interfaces \ S
  PROVE  PartInv(DependencyCreated(r, i), S \cup {i}, ph, st)
<1>1. r \in Part /\ SelectorInv(r, S, ph)
  BY DEF PartInv
<1>2. CASE Held(r)
  <2>1. DependencyCreated(r, i) = r /\ HeldInv(r, S, ph) /\ r.phase \notin {"absent", "stopped"}
    BY <1>1, <1>2 DEF DependencyCreated, SelectorInv, Held
  <2>2. HeldInv(r, S \cup {i}, ph)
    BY <2>1 DEF HeldInv
  <2> QED
    BY <1>1, <2>1, <2>2 DEF PartInv, SelectorInv
<1>3. CASE ~Held(r)
  <2>1. r.phase = "stopped" /\ StoppedInv(r, S) /\ r.active \in Maybe
    BY <1>1, <1>3 DEF SelectorInv, Alive, Held, Part, Records
  <2>2. CASE r.active # None /\ ~Greater(i, r.active)
    <3>1. StoppedInv(r, S \cup {i})
      BY <2>1, <2>2 DEF StoppedInv
    <3>2. DependencyCreated(r, i) = r
      BY <2>2 DEF DependencyCreated
    <3> QED
      BY <1>1, <1>3, <2>1, <3>1, <3>2 DEF PartInv, SelectorInv
  <2>3. CASE ~(r.active # None /\ ~Greater(i, r.active))
    <3> DEFINE new == [r EXCEPT !.active = i, !.sat = TRUE]
    <3>1. DependencyCreated(r, i) = new
      BY <1>3, <2>3 DEF DependencyCreated
    <3>2. /\ new \in Part /\ new.kind = r.kind /\ new.phase = r.phase /\ new.failed = r.failed
          /\ new.active = i /\ new.sat = TRUE
          /\ new.pref = r.pref /\ new.ptr = r.ptr /\ new.pending = r.pending /\ new.task = r.task
      BY <1>1 DEF Part, Records, Maybe
    <3> HIDE DEF new
    <3>3. ASSUME NEW j \in S PROVE ~Greater(j, i)
      <4>1. r.active \in S /\ Greater(i, r.active) /\ ~Greater(j, r.active)
        BY <2>1, <2>3 DEF StoppedInv
      <4>2. Prio[j] \in Nat /\ Prio[i] \in Nat /\ Prio[r.active] \in Nat
        BY <4>1, RegistryAssumption
      <4> QED
        BY <4>1, <4>2 DEF Greater
    <3>4. ~Greater(i, i) /\ i # None
      BY Priority, ImportsAssumption
    <3>5. StoppedInv(new, S \cup {i})
      BY <2>1, <3>2, <3>3, <3>4 DEF StoppedInv, NoSwap
    <3> QED
      BY <2>1, <3>1, <3>2, <3>5 DEF PartInv, SelectorInv, Held
  <2> QED
    BY <2>2, <2>3
<1> QED
  BY <1>2, <1>3

\* onSubscribedCreated of a DynDependency: a new interface does not run yet,
\* so that no swap is offered.
LEMMA DynCreatedKeeps ==
  ASSUME NEW r, NEW S \in SUBSET Interfaces, NEW ph \in PhaseMap, NEW st,
         PartInv(r, S, ph, st),
         IsDyn(r), r.failed = None, Alive(r), NEW i \in Interfaces \ S, ph[i] = "stopped"
  PROVE  PartInv(DynCreated(r, ph, i), S \cup {i}, ph, st)
<1>1. r \in Part /\ SelectorInv(r, S, ph) /\ r.kind \notin {"Dependency", "DynDependencies"}
  BY DEF PartInv, IsDyn
<1>2. r.active \in Maybe /\ r.pref \in Maybe /\ i # None
  BY <1>1, ImportsAssumption DEF Part, Records
<1>3. CASE Held(r)
  <2>1. HeldInv(r, S, ph) /\ r.phase \notin {"absent", "stopped"}
    BY <1>1, <1>3 DEF SelectorInv, Held
  <2>2. HeldInv(r, S \cup {i}, ph)
    BY <2>1 DEF HeldInv
  <2>3. PartInv(r, S \cup {i}, ph, st)
    BY <1>1, <2>1, <2>2 DEF PartInv, SelectorInv
  <2> DEFINE new == [r EXCEPT !.pref = i]
             fail == [r EXCEPT !.failed = "onSubscribedCreated"]
  <2>4. r.active # None
    BY <2>1, ImportsAssumption DEF HeldInv
  <2>5. DynCreated(r, ph, i) \in {r, new, fail}
    BY <1>3, <2>4 DEF DynCreated, Fail
  <2>6. DynCreated(r, ph, i) \notin {r, fail} => ~r.pending
    BY <1>3, <2>4 DEF DynCreated, Fail
  <2>7. ASSUME ~r.pending PROVE PartInv(new, S \cup {i}, ph, st)
    <3>1. /\ new \in Part /\ new.kind = r.kind /\ new.phase = r.phase /\ new.failed = r.failed
          /\ new.active = r.active /\ new.sat = r.sat /\ new.pref = i
          /\ new.ptr = r.ptr /\ new.pending = r.pending /\ new.task = r.task
      BY <1>1 DEF Part, Records, Maybe
    <3> HIDE DEF new
    <3>2. r.task = None
      BY <2>1, <2>7 DEF HeldInv
    <3>3. r.ptr = r.active
      BY <2>1, <3>2 DEF HeldInv, None
    <3>4. HeldInv(new, S \cup {i}, ph)
      BY <1>1, <2>1, <2>7, <3>1, <3>2, <3>3 DEF HeldInv, None
    <3> QED
      BY <1>1, <2>1, <3>1, <3>4 DEF PartInv, SelectorInv
  <2>8. PartInv(fail, S \cup {i}, ph, st)
    <3>1. fail \in Part /\ fail.kind = r.kind /\ fail.failed # None
      BY <1>1 DEF Part, Records, None
    <3> QED
      BY <1>1, <3>1 DEF PartInv
  <2> HIDE DEF new, fail
  <2> QED
    BY <2>3, <2>5, <2>6, <2>7, <2>8
<1>4. CASE ~Held(r)
  <2>1. r.phase = "stopped" /\ StoppedInv(r, S) /\ r.pref = None
    BY <1>1, <1>4 DEF SelectorInv, Alive, Held, Part, Records, StoppedInv, NoSwap
  <2>2. CASE r.active # None /\ ~Greater(i, r.active)
    <3>1. StoppedInv(r, S \cup {i})
      BY <1>1, <2>1, <2>2 DEF StoppedInv
    <3>2. DynCreated(r, ph, i) = r
      BY <1>4, <2>1, <2>2 DEF DynCreated
    <3> QED
      BY <1>1, <1>4, <2>1, <3>1, <3>2 DEF PartInv, SelectorInv
  <2>3. CASE ~(r.active # None /\ ~Greater(i, r.active))
    <3> DEFINE new == [r EXCEPT !.active = i, !.sat = TRUE, !.asked = {}]
    <3>1. DynCreated(r, ph, i) = new
      BY <1>4, <2>1, <2>3 DEF DynCreated
    <3>2. /\ new \in Part /\ new.kind = r.kind /\ new.phase = r.phase /\ new.failed = r.failed
          /\ new.active = i /\ new.sat = TRUE
          /\ new.pref = r.pref /\ new.ptr = r.ptr /\ new.pending = r.pending /\ new.task = r.task
      BY <1>1 DEF Part, Records, Maybe
    <3> HIDE DEF new
    <3>3. StoppedInv(new, S \cup {i})
      BY <1>1, <1>2, <2>1, <3>2 DEF StoppedInv, NoSwap
    <3> QED
      BY <1>1, <2>1, <3>1, <3>2, <3>3 DEF PartInv, SelectorInv, Held
  <2> QED
    BY <2>2, <2>3
<1> QED
  BY <1>3, <1>4

\* onSubscribedCreated of every kind of part.
LEMMA CreatedKeeps ==
  ASSUME NEW r, NEW S \in SUBSET Interfaces, NEW ph \in PhaseMap, NEW st,
         PartInv(r, S, ph, st),
         r.failed = None, NEW i \in Interfaces \ S, ph[i] = "stopped",
         NEW reply \in UseReplies
  PROVE  PartInv(Created(r, ph, i, reply), S \cup {i}, ph, st)
<1>1. r \in Part /\ r.kind \in Kinds
  BY DEF PartInv, Part, Records
<1>2. CASE ~Alive(r)
  <2>1. r.kind # "DynDependencies" => SelectorInv(r, S, ph)
    BY DEF PartInv
  <2>2. r.kind # "DynDependencies" => SelectorInv(r, S \cup {i}, ph)
    BY <1>2, <2>1 DEF SelectorInv, Alive, Held
  <2>3. r.kind = "DynDependencies" => UsesInv(r, S \cup {i}, ph, st)
    BY <1>2 DEF PartInv, UsesInv, Alive
  <2> QED
    BY <1>1, <1>2, <2>2, <2>3 DEF PartInv, Created
<1>3. CASE Alive(r) /\ r.kind = "Dependency"
  <2>1. Created(r, ph, i, reply) = DependencyCreated(r, i)
    BY <1>3 DEF Created, IsDyn
  <2> QED
    BY <1>3, <2>1, DependencyCreatedKeeps
<1>4. CASE Alive(r) /\ IsDyn(r)
  <2>1. Created(r, ph, i, reply) = DynCreated(r, ph, i)
    BY <1>4 DEF Created, IsDyn
  <2> QED
    BY <1>4, <2>1, DynCreatedKeeps
<1>5. CASE Alive(r) /\ r.kind = "DynDependencies"
  <2>1. Created(r, ph, i, reply) = ProcessAvailability(r, i, reply)
    BY <1>5 DEF Created, IsDyn
  <2> QED
    BY <1>5, <2>1, ProcessKeeps
<1> QED
  BY <1>1, <1>2, <1>3, <1>4, <1>5 DEF Kinds, IsDyn

\* A part that onPartInit announces to the entry it made the default for.
LEMMA CreatedFirst ==
  ASSUME NEW r, NEW ph \in PhaseMap, NEW st, PartInv(r, {}, ph, st), r.phase = "absent", r.default,
         r.failed = None, ph[Default] = "stopped", NEW reply \in UseReplies
  PROVE  PartInv(Created([r EXCEPT !.phase = "stopped"], ph, Default, reply), {Default}, ph, st)
<1>1. /\ r \in Part /\ r.kind \in Kinds \ {"DynDependencies"} /\ AbsentInv(r)
      /\ Default \in Interfaces
  BY RegistryAssumption DEF PartInv, UsesInv, SelectorInv, Part, Records
<1> DEFINE init == [r EXCEPT !.phase = "stopped"]
           new == [init EXCEPT !.active = Default, !.sat = TRUE]
<1>2. /\ new \in Part /\ new.kind = r.kind /\ new.phase = "stopped" /\ new.failed = None
      /\ new.active = Default /\ new.sat = TRUE /\ new.pref = r.pref /\ new.ptr = r.ptr
      /\ new.pending = r.pending /\ new.task = r.task
  BY <1>1 DEF Part, Records, Maybe
<1>3. init.phase = "stopped" /\ init.kind = r.kind /\ init.active = None /\ init.pref = None
  BY <1>1 DEF Part, Records, AbsentInv, NoSwap
<1>4. new = [init EXCEPT !.active = Default, !.sat = TRUE, !.asked = {}]
  BY <1>1 DEF Part, Records, AbsentInv
<1> HIDE DEF init
<1>5. Created(init, ph, Default, reply) = new
  <2>1. CASE r.kind = "Dependency"
    BY <1>3, <2>1 DEF Created, IsDyn, Alive, Held, DependencyCreated
  <2>2. CASE r.kind \in {"DynDependency", "Var"}
    BY <1>3, <1>4, <2>2 DEF Created, IsDyn, Alive, Held, DynCreated
  <2> QED
    BY <1>1, <2>1, <2>2 DEF Kinds
<1> HIDE DEF new
<1>6. ~Greater(Default, Default) /\ Default # None
  BY <1>1, Priority, ImportsAssumption
<1>7. StoppedInv(new, {Default})
  BY <1>1, <1>2, <1>6 DEF StoppedInv, AbsentInv, NoSwap
<1>8. PartInv(new, {Default}, ph, st)
  BY <1>1, <1>2, <1>7 DEF PartInv, SelectorInv, Held
<1> QED
  BY <1>5, <1>8 DEF init

\* onPartInit of a part that finds an entry it does not have to fill.
LEMMA InitKeeps ==
  ASSUME NEW r, NEW list \in Lists, Sorted(list), NEW ph \in PhaseMap, NEW st,
         PartInv(r, Range(list), ph, st), r.phase = "absent", r.failed = None
  PROVE  LET init == [r EXCEPT !.phase = "stopped"]
             uses == {i \in Range(list) : Flags[i] # "ignore"}
         IN  PartInv(IF init.kind # "DynDependencies" THEN SelectFront(init, list)
                     ELSE [init EXCEPT !.map = [i \in uses |-> [NewUse EXCEPT !.connected = TRUE]]],
                     Range(list), ph, st)
<1> DEFINE S == Range(list)
           init == [r EXCEPT !.phase = "stopped"]
           uses == {i \in S : Flags[i] # "ignore"}
<1>1. r \in Part /\ init.kind = r.kind
  BY DEF PartInv, Part, Records
<1>2. /\ S \subseteq Interfaces /\ (list = <<>> <=> S = {})
      /\ list # <<>> => IsTop(Head(list), S)
  BY ListFacts
<1> HIDE DEF S
<1>3. CASE r.kind # "DynDependencies"
  <2>1. AbsentInv(r)
    BY <1>3 DEF PartInv, SelectorInv
  <2>2. CASE list = <<>>
    <3> DEFINE new == [init EXCEPT !.sat = FALSE]
    <3>1. /\ new \in Part /\ new.kind = r.kind /\ new.phase = "stopped" /\ new.failed = None
          /\ new.active = r.active /\ new.sat = FALSE /\ new.pref = r.pref /\ new.ptr = r.ptr
          /\ new.pending = r.pending /\ new.task = r.task
      BY <1>1 DEF Part, Records
    <3>2. SelectFront(init, list) = new
      BY <2>2 DEF SelectFront
    <3> HIDE DEF new, init
    <3>3. StoppedInv(new, S)
      BY <1>2, <2>1, <2>2, <3>1 DEF StoppedInv, AbsentInv, NoSwap
    <3> QED
      BY <1>1, <1>3, <3>1, <3>2, <3>3 DEF PartInv, SelectorInv, Held, S, init
  <2>3. CASE list # <<>>
    <3> DEFINE new == [init EXCEPT !.active = Head(list)]
    <3>1. Head(list) \in Interfaces /\ Head(list) # None /\ Head(list) \in S
          /\ \A i \in S : ~Greater(i, Head(list))
      BY <1>2, <2>3, ImportsAssumption DEF IsTop
    <3>2. /\ new \in Part /\ new.kind = r.kind /\ new.phase = "stopped" /\ new.failed = None
          /\ new.active = Head(list) /\ new.sat = r.sat /\ new.pref = r.pref /\ new.ptr = r.ptr
          /\ new.pending = r.pending /\ new.task = r.task
      BY <1>1, <3>1 DEF Part, Records, Maybe
    <3>3. SelectFront(init, list) = new
      BY <2>3 DEF SelectFront
    <3> HIDE DEF new, init
    <3>4. StoppedInv(new, S)
      BY <2>1, <3>1, <3>2 DEF StoppedInv, AbsentInv, NoSwap
    <3> QED
      BY <1>1, <1>3, <3>2, <3>3, <3>4 DEF PartInv, SelectorInv, Held, S, init
  <2> QED
    BY <2>2, <2>3
<1>4. CASE r.kind = "DynDependencies"
  <2> DEFINE map == [i \in uses |-> [NewUse EXCEPT !.connected = TRUE]]
             new == [init EXCEPT !.map = map]
  <2>1. UsesInv(r, S, ph, st)
    BY <1>4 DEF PartInv, S
  <2>2. /\ [NewUse EXCEPT !.connected = TRUE] \in Uses
        /\ [NewUse EXCEPT !.connected = TRUE].connected
    BY DEF NewUse, Uses, UseReplies
  <2>3. map \in [uses -> Uses] /\ \A i \in uses : map[i].connected
    BY <2>2
  <2>4. map \in Maps /\ DOMAIN map = uses
    BY <1>2, <2>3 DEF Maps
  <2> HIDE DEF map
  <2>5. /\ new \in Part /\ new.kind = r.kind /\ new.phase = "stopped" /\ new.map = map
        /\ new.default = r.default /\ new.failed = r.failed /\ new.active = r.active
        /\ new.pref = r.pref /\ new.ptr = r.ptr
        /\ new.pending = r.pending /\ new.task = r.task
    BY <1>1, <1>4, <2>4 DEF Part, Records
  <2>6. UsesInv(new, S, ph, st)
    <3> HIDE DEF new
    <3> QED
      BY <2>1, <2>3, <2>4, <2>5 DEF UsesInv, NoSwap, Held, Alive, Idle
  <2>7. PartInv(new, S, ph, st)
    BY <1>4, <2>5, <2>6 DEF PartInv
  <2> QED
    BY <1>1, <1>4, <2>7 DEF map, S
<1> QED
  BY <1>3, <1>4

\* onUsedDestroy and onSubscribedDestroy: an interface that is gone.
LEMMA DestroyedKeeps ==
  ASSUME NEW r, NEW S \in SUBSET Interfaces, NEW ph \in PhaseMap, NEW st,
         PartInv(r, S, ph, st),
         r.failed = None, NEW i \in S,
         NEW list \in Lists, Sorted(list), Range(list) = S \ {i}
  PROVE  PartInv(Destroyed(r, list, i), Range(list), ph, st)
<1>1. r \in Part /\ r.active \in Maybe
  BY DEF PartInv, Part, Records
<1>2. PICK T \in SUBSET Interfaces : T = S \ {i} /\ T = Range(list)
  OBVIOUS
<1>3. (list = <<>> <=> T = {}) /\ (list # <<>> => IsTop(Head(list), T))
  BY <1>2, ListFacts
<1>4. CASE r.kind = "DynDependencies"
  BY <1>4, ForgetKeeps DEF Destroyed
<1>5. CASE r.kind # "DynDependencies"
  <2>1. SelectorInv(r, S, ph) /\ Connected(r) = {r.active, r.pref} \ {None}
    BY <1>5 DEF PartInv, Connected
  <2>2. CASE i \notin Connected(r)
    <3>1. r.active # i /\ r.pref # i
      BY <2>1, <2>2, ImportsAssumption
    <3>2. r.phase = "stopped" => StoppedInv(r, T)
      BY <1>2, <2>1, <3>1 DEF SelectorInv, StoppedInv
    <3>3. Held(r) => HeldInv(r, T, ph)
      BY <1>2, <2>1, <3>1 DEF SelectorInv, HeldInv
    <3>4. PartInv(r, T, ph, st)
      BY <1>1, <1>5, <2>1, <3>2, <3>3 DEF PartInv, SelectorInv
    <3> QED
      BY <1>2, <1>5, <2>2, <3>4 DEF Destroyed
  <2>3. CASE i \in Connected(r) /\ Held(r)
    <3> DEFINE new == [r EXCEPT !.failed = "onUsedDestroy"]
    <3>1. Destroyed(r, list, i) = new
      BY <1>5, <2>3 DEF Destroyed, SelectorUsedDestroy, Fail
    <3>2. new \in Part /\ new.failed # None /\ new.kind = r.kind
      BY <1>1 DEF Part, Records, None
    <3> QED
      BY <1>5, <3>1, <3>2 DEF PartInv
  <2>4. CASE i \in Connected(r) /\ ~Held(r)
    <3>1. r.phase = "stopped" /\ StoppedInv(r, S)
      BY <1>1, <2>1, <2>4 DEF SelectorInv, AbsentInv, NoSwap, Held, Part, Records
    <3>2. list # <<>> => /\ Head(list) \in T /\ Head(list) \in Interfaces /\ Head(list) # None
                         /\ \A j \in T : ~Greater(j, Head(list))
      BY <1>3, ImportsAssumption DEF IsTop
    <3>3. PICK top \in Maybe, sat \in BOOLEAN :
            /\ top = IF list = <<>> THEN None ELSE Head(list)
            /\ sat <=> list # <<>>
      BY <3>2 DEF Maybe
    <3> DEFINE new == [r EXCEPT !.active = top, !.sat = sat, !.asked = {}]
    <3>4. Destroyed(r, list, i) = new
      <4>1. CASE list = <<>>
        <5>1. top = None /\ sat = FALSE
          BY <3>3, <4>1
        <5> QED
          BY <1>5, <2>4, <4>1, <5>1 DEF Destroyed, SelectorUsedDestroy
      <4>2. CASE list # <<>>
        <5>1. top = Head(list) /\ sat = TRUE
          BY <3>3, <4>2
        <5> QED
          BY <1>5, <2>4, <4>2, <5>1 DEF Destroyed, SelectorUsedDestroy
      <4> QED
        BY <4>1, <4>2
    <3>5. /\ new \in Part /\ new.kind = r.kind /\ new.phase = "stopped" /\ new.failed = None
          /\ new.active = top /\ new.sat = sat /\ new.pref = r.pref /\ new.ptr = r.ptr
          /\ new.pending = r.pending /\ new.task = r.task
      BY <1>1, <3>1 DEF Part, Records
    <3> HIDE DEF new
    <3>6. StoppedInv(new, T)
      BY <1>3, <3>1, <3>2, <3>3, <3>5 DEF StoppedInv, NoSwap
    <3> QED
      BY <1>2, <1>5, <3>4, <3>5, <3>6 DEF PartInv, SelectorInv, Held
  <2> QED
    BY <2>2, <2>3, <2>4
<1> QED
  BY <1>4, <1>5

\* onUsedStarted of a DynDependency: only the preferred interface starts late.
LEMMA SwapOffered ==
  ASSUME NEW r, NEW S \in SUBSET Interfaces, NEW ph \in PhaseMap, NEW st,
         PartInv(r, S, ph, st),
         IsDyn(r), r.failed = None, Held(r), NEW i \in Connected(r), ph[i] = "locked"
  PROVE  i = r.pref /\ PartInv(OfferSwap(r), S, [ph EXCEPT ![i] = "running"], st)
<1> DEFINE run == [ph EXCEPT ![i] = "running"]
           new == [r EXCEPT !.pending = TRUE, !.task = "offered"]
<1>1. /\ r \in Part /\ r.kind \notin {"Dependency", "DynDependencies"} /\ HeldInv(r, S, ph)
      /\ r.phase \notin {"absent", "stopped"}
  BY DEF PartInv, IsDyn, SelectorInv, Held
<1>2. i = r.pref /\ i # None /\ i \in S /\ ~r.pending /\ r.active # i
  BY <1>1 DEF HeldInv, Connected
<1>3. OfferSwap(r) = new
  BY <1>2 DEF OfferSwap
<1>4. run[i] = "running" /\ \A j \in Interfaces \ {i} : run[j] = ph[j]
  BY <1>2 DEF PhaseMap
<1>5. /\ new \in Part /\ new.kind = r.kind /\ new.phase = r.phase /\ new.failed = None
      /\ new.active = r.active /\ new.sat = r.sat /\ new.pref = r.pref /\ new.ptr = r.ptr
      /\ new.pending = TRUE /\ new.task = "offered"
  BY <1>1 DEF Part, Records
<1>6. r.ptr = r.active
  BY <1>1, <1>2 DEF HeldInv, None
<1> HIDE DEF new, run
<1>7. HeldInv(new, S, run)
  BY <1>1, <1>2, <1>4, <1>5, <1>6 DEF HeldInv, IsDyn, None
<1> QED
  BY <1>1, <1>2, <1>3, <1>5, <1>7 DEF PartInv, SelectorInv, run

\* onReleaseRequest of a DynDependency: the preferred interface is released, and
\* another one selected in its place, unless a swap is pending.
LEMMA DynReleaseKeeps ==
  ASSUME NEW r, NEW list \in Lists, Sorted(list), NEW ph \in PhaseMap, NEW st,
         PartInv(r, Range(list), ph, st), IsDyn(r), r.failed = None, Held(r),
         NEW i \in Connected(r)
  PROVE  PartInv(DynRelease(r, list, i)[2], Range(list), ph, st)
<1>1. PICK S \in SUBSET Interfaces : S = Range(list)
  BY ListFacts
<1>2. /\ r \in Part /\ r.kind \notin {"Dependency", "DynDependencies"} /\ HeldInv(r, S, ph)
      /\ r.phase \notin {"absent", "stopped"}
  BY <1>1 DEF PartInv, IsDyn, SelectorInv, Held
<1>3. i \in S
  BY <1>2 DEF HeldInv, Connected, IsDyn
<1>4. /\ Unlink(list, i) \in Lists /\ Sorted(Unlink(list, i))
      /\ Range(Unlink(list, i)) = Range(list) \ {i}
  BY <1>1, <1>3, UnlinkFacts
<1>5. Unlink(list, i) # <<>> => Head(Unlink(list, i)) \in S
  <2>1. Unlink(list, i) # <<>> => IsTop(Head(Unlink(list, i)), Range(Unlink(list, i)))
    BY <1>4, ListFacts
  <2> QED
    BY <1>1, <1>4, <2>1 DEF IsTop
<1>6. PICK next : next = ReselectPreferred(r, list, i)
  OBVIOUS
<1>7. next = None \/ next \in S
  BY <1>5, <1>6 DEF ReselectPreferred
<1> DEFINE new == [r EXCEPT !.pref = next]
<1>8. DynRelease(r, list, i)[2] = r \/ (DynRelease(r, list, i)[2] = new /\ ~r.pending)
  BY <1>6 DEF DynRelease
<1>9. next \in Maybe
  BY <1>7 DEF Maybe
<1>10. /\ new \in Part /\ new.kind = r.kind /\ new.phase = r.phase /\ new.failed = r.failed
       /\ new.active = r.active /\ new.sat = r.sat /\ new.pref = next
       /\ new.ptr = r.ptr /\ new.pending = r.pending /\ new.task = r.task
  BY <1>2, <1>9 DEF Part, Records
<1> HIDE DEF new
<1>11. ASSUME ~r.pending PROVE PartInv(new, S, ph, st)
  <2>1. r.task = None
    BY <1>2, <1>11 DEF HeldInv
  <2>2. r.ptr = r.active
    BY <1>2, <2>1 DEF HeldInv, None
  <2>3. HeldInv(new, S, ph)
    BY <1>2, <1>7, <1>10, <1>11, <2>1, <2>2 DEF HeldInv, None
  <2> QED
    BY <1>2, <1>10, <2>3 DEF PartInv, SelectorInv
<1> QED
  BY <1>1, <1>8, <1>11

\* The mark of a service whose import does not let go, and the flag of a usage.
LEMMA MarkedKeeps ==
  ASSUME NEW r, NEW S \in SUBSET Interfaces, NEW ph \in PhaseMap, NEW st,
         PartInv(r, S, ph, st), NEW mark \in BOOLEAN, NEW asked \in SUBSET Interfaces,
         r.phase = "absent" => asked = {}
  PROVE  PartInv([r EXCEPT !.marked = mark, !.asked = asked], S, ph, st)
<1> DEFINE new == [r EXCEPT !.marked = mark, !.asked = asked]
<1>1. r \in Part
  BY DEF PartInv
<1>2. /\ new \in Part /\ new.kind = r.kind /\ new.phase = r.phase /\ new.failed = r.failed
      /\ new.active = r.active /\ new.sat = r.sat /\ new.pref = r.pref /\ new.ptr = r.ptr
      /\ new.pending = r.pending /\ new.task = r.task /\ new.default = r.default
      /\ new.map = r.map /\ new.asked = asked
  BY <1>1 DEF Part, Records
<1> HIDE DEF new
<1>3. SelectorInv(r, S, ph) => SelectorInv(new, S, ph)
  BY <1>2 DEF SelectorInv, AbsentInv, StoppedInv, HeldInv, NoSwap, Held, IsDyn
<1>4. UsesInv(r, S, ph, st) => UsesInv(new, S, ph, st)
  BY <1>2 DEF UsesInv, NoSwap, Held, Alive
<1> QED
  BY <1>2, <1>3, <1>4 DEF PartInv, new

\* More interfaces that shall stop.
LEMMA StoppingGrows ==
  ASSUME NEW r, NEW S, NEW ph, NEW st, NEW now, st \subseteq now, PartInv(r, S, ph, st)
  PROVE  PartInv(r, S, ph, now)
<1>1. UsesInv(r, S, ph, st) => UsesInv(r, S, ph, now)
  BY DEF UsesInv, Idle
<1> QED
  BY <1>1 DEF PartInv

\* A part that was destroyed.
LEMMA FreshKeeps ==
  ASSUME NEW kind \in Kinds, NEW default \in BOOLEAN, NEW swaps \in BOOLEAN,
         kind = "DynDependencies" => ~default,
         NEW S \in SUBSET Interfaces, NEW ph \in PhaseMap, NEW st
  PROVE  PartInv(Fresh(kind, default, swaps), S, ph, st)
<1> DEFINE new == Fresh(kind, default, swaps)
<1>1. <<>> \in [{} -> Uses]
  OBVIOUS
<1>2. <<>> \in Maps /\ DOMAIN <<>> = {}
  BY <1>1 DEF Maps
<1>3. /\ new \in Part /\ new.kind = kind /\ new.phase = "absent" /\ new.failed = None
      /\ new.active = None /\ new.sat = TRUE /\ new.pref = None /\ new.ptr = None
      /\ new.pending = FALSE /\ new.task = None /\ new.default = default /\ new.map = <<>>
      /\ new.asked = {}
  BY <1>2 DEF Fresh, Part, Records, Maybe
<1> HIDE DEF new
<1>4. SelectorInv(new, S, ph)
  BY <1>3 DEF SelectorInv, AbsentInv, NoSwap, Held
<1>5. kind = "DynDependencies" => UsesInv(new, S, ph, st)
  BY <1>2, <1>3 DEF UsesInv, NoSwap, Held, Alive
<1> QED
  BY <1>3, <1>4, <1>5 DEF PartInv, new

\* onImportLock of a Dependency or DynDependency whose interface runs.
LEMMA SelectorLockKeeps ==
  ASSUME NEW r, NEW S \in SUBSET Interfaces, NEW ph \in PhaseMap, NEW st,
         PartInv(r, S, ph, st),
         r.kind # "DynDependencies", r.failed = None, r.phase = "stopped", r.sat,
         \A i \in Strong(r) : ph[i] = "running"
  PROVE  PartInv([SelectorLock(r, ph) EXCEPT !.phase = "locked"], S, ph, st)
<1>1. r \in Part /\ StoppedInv(r, S) /\ r.kind \in Kinds
  BY DEF PartInv, SelectorInv, Part, Records
<1>2. /\ r.active # None /\ r.active \in S /\ r.pref = None /\ ~r.pending
      /\ r.ptr = None /\ r.task = None
  BY <1>1 DEF StoppedInv, NoSwap
<1>3. ph[r.active] = "running"
  BY <1>2 DEF Strong, Connected
<1>4. PICK ptr \in Maybe : ptr = IF IsDyn(r) THEN r.active ELSE None
  BY <1>2 DEF Maybe
<1> DEFINE new == [r EXCEPT !.ptr = ptr, !.phase = "locked"]
<1>5. [SelectorLock(r, ph) EXCEPT !.phase = "locked"] = new
  <2>1. CASE IsDyn(r)
    <3>1. SelectorLock(r, ph) = [r EXCEPT !.ptr = ptr]
      BY <1>2, <1>4, <2>1 DEF SelectorLock
    <3>2. [[r EXCEPT !.ptr = ptr] EXCEPT !.phase = "locked"] = new
      BY <1>1 DEF Part, Records
    <3> QED
      BY <3>1, <3>2
  <2>2. CASE ~IsDyn(r)
    <3>1. SelectorLock(r, ph) = r /\ r.ptr = ptr
      BY <1>2, <1>4, <2>2 DEF SelectorLock
    <3>2. [r EXCEPT !.phase = "locked"] = new
      BY <1>1, <3>1 DEF Part, Records
    <3> QED
      BY <3>1, <3>2
  <2> QED
    BY <2>1, <2>2
<1>6. /\ new \in Part /\ new.kind = r.kind /\ new.phase = "locked" /\ new.failed = None
      /\ new.active = r.active /\ new.sat = r.sat /\ new.pref = None /\ new.ptr = ptr
      /\ new.pending = r.pending /\ new.task = None
  BY <1>1, <1>2 DEF Part, Records
<1> HIDE DEF new
<1>7. HeldInv(new, S, ph)
  BY <1>2, <1>3, <1>4, <1>6 DEF HeldInv, NoSwap, IsDyn, None
<1> QED
  BY <1>5, <1>6, <1>7 DEF PartInv, SelectorInv, Held

\* onImportUnlock of a Dependency, which looks at the entry again.
LEMMA DependencyUnlocked ==
  ASSUME NEW r, NEW list \in Lists, Sorted(list), NEW ph \in PhaseMap, NEW st,
         PartInv(r, Range(list), ph, st), r.kind = "Dependency", r.failed = None,
         r.phase = "running"
  PROVE  PartInv([DependencyUnlock(r, list) EXCEPT !.phase = "stopped", !.marked = FALSE],
                 Range(list), ph, st)
<1>1. PICK S \in SUBSET Interfaces : S = Range(list)
  BY ListFacts
<1>2. r \in Part /\ HeldInv(r, S, ph)
  BY <1>1 DEF PartInv, SelectorInv, Held
<1>3. r.active \in S /\ r.sat = TRUE /\ NoSwap(r) /\ S # {}
  BY <1>2 DEF HeldInv, Part, Records
<1>4. IsTop(Head(list), S)
  BY <1>1, <1>3, ListFacts
<1>5. PICK top \in S : top = IF Greater(Head(list), r.active) THEN Head(list) ELSE r.active
  BY <1>3, <1>4 DEF IsTop
<1>6. ASSUME NEW j \in S PROVE ~Greater(j, top)
  <2>1. ~Greater(j, Head(list)) /\ Head(list) \in Interfaces /\ j \in Interfaces
    BY <1>4 DEF IsTop
  <2> QED
    BY <1>3, <1>5, <2>1, Priority
<1> DEFINE new == [r EXCEPT !.active = top, !.phase = "stopped", !.marked = FALSE]
<1>7. [DependencyUnlock(r, list) EXCEPT !.phase = "stopped", !.marked = FALSE] = new
  <2>1. CASE Greater(Head(list), r.active)
    <3>1. DependencyUnlock(r, list) = [r EXCEPT !.active = top]
      BY <1>5, <2>1 DEF DependencyUnlock
    <3>2. [[r EXCEPT !.active = top] EXCEPT !.phase = "stopped", !.marked = FALSE] = new
      BY <1>2 DEF Part, Records
    <3> QED
      BY <3>1, <3>2
  <2>2. CASE ~Greater(Head(list), r.active)
    <3>1. DependencyUnlock(r, list) = r /\ r.active = top
      BY <1>5, <2>2 DEF DependencyUnlock
    <3>2. [r EXCEPT !.phase = "stopped", !.marked = FALSE] = new
      BY <1>2, <3>1 DEF Part, Records
    <3> QED
      BY <3>1, <3>2
  <2> QED
    BY <2>1, <2>2
<1>8. /\ new \in Part /\ new.kind = r.kind /\ new.phase = "stopped" /\ new.failed = None
      /\ new.active = top /\ new.sat = r.sat /\ new.pref = r.pref /\ new.ptr = r.ptr
      /\ new.pending = r.pending /\ new.task = r.task
  BY <1>2 DEF Part, Records, Maybe
<1> HIDE DEF new
<1>9. StoppedInv(new, S)
  BY <1>3, <1>6, <1>8, ImportsAssumption DEF StoppedInv, NoSwap
<1> QED
  BY <1>1, <1>7, <1>8, <1>9 DEF PartInv, SelectorInv, Held

\* onImportUnlock of a DynDependency, which drops a swap that is under way.
LEMMA DynUnlocked ==
  ASSUME NEW r, NEW S \in SUBSET Interfaces, NEW ph \in PhaseMap, NEW st,
         PartInv(r, S, ph, st),
         IsDyn(r), r.failed = None, r.phase = "running"
  PROVE  PartInv([DynUnlock(r) EXCEPT !.phase = "stopped", !.marked = FALSE], S, ph, st)
<1>1. /\ r \in Part /\ r.kind \notin {"Dependency", "DynDependencies"}
      /\ HeldInv(r, S, ph)
  BY DEF PartInv, SelectorInv, Held, IsDyn
<1>2. PICK top \in S : top = IF r.pref # None THEN r.pref ELSE r.active
  BY <1>1 DEF HeldInv
<1>3. r.sat = TRUE /\ top # None
  BY <1>1, ImportsAssumption DEF HeldInv, Part, Records
<1>7. PICK asked \in SUBSET Interfaces : asked = IF r.pref # None THEN {} ELSE r.asked
  BY <1>1 DEF Part, Records
<1> DEFINE new == [[r EXCEPT !.ptr = None, !.pending = FALSE, !.task = None, !.pref = None,
                             !.active = top, !.asked = asked] EXCEPT !.phase = "stopped", !.marked = FALSE]
<1>4. [DynUnlock(r) EXCEPT !.phase = "stopped", !.marked = FALSE] = new
  BY <1>2, <1>7 DEF DynUnlock
<1>5. /\ new \in Part /\ new.kind = r.kind /\ new.phase = "stopped" /\ new.failed = None
      /\ new.active = top /\ new.sat = r.sat /\ new.pref = None /\ new.ptr = None
      /\ new.pending = FALSE /\ new.task = None
  <2>1. top \in Maybe /\ None \in Maybe
    BY DEF Maybe
  <2>2. /\ new \in Records /\ new.kind = r.kind /\ new.phase = "stopped" /\ new.failed = None
        /\ new.active = top /\ new.sat = r.sat /\ new.pref = None /\ new.ptr = None
        /\ new.pending = FALSE /\ new.task = None /\ new.map = r.map
    BY <1>1, <2>1 DEF Part, Records
  <2> HIDE DEF new
  <2> QED
    BY <1>1, <2>2 DEF Part
<1> HIDE DEF new
<1>6. StoppedInv(new, S)
  BY <1>1, <1>3, <1>5 DEF StoppedInv, NoSwap
<1> QED
  BY <1>1, <1>4, <1>5, <1>6 DEF PartInv, SelectorInv, Held

\* do_start_eager of the user.
LEMMA RunKeeps ==
  ASSUME NEW r, NEW S \in SUBSET Interfaces, NEW ph \in PhaseMap, NEW st,
         PartInv(r, S, ph, st),
         r.failed = None, r.phase = "locked"
  PROVE  PartInv([r EXCEPT !.phase = "running"], S, ph, st)
<1> DEFINE new == [r EXCEPT !.phase = "running"]
<1>1. r \in Part
  BY DEF PartInv
<1>2. /\ new \in Part /\ new.kind = r.kind /\ new.phase = "running" /\ new.failed = r.failed
      /\ new.active = r.active /\ new.sat = r.sat /\ new.pref = r.pref /\ new.ptr = r.ptr
      /\ new.pending = r.pending /\ new.task = r.task /\ new.default = r.default
      /\ new.map = r.map
  BY <1>1 DEF Part, Records
<1> HIDE DEF new
<1>3. SelectorInv(r, S, ph) => SelectorInv(new, S, ph)
  BY <1>2 DEF SelectorInv, HeldInv, NoSwap, Held, IsDyn
<1>4. UsesInv(r, S, ph, st) => UsesInv(new, S, ph, st)
  BY <1>2 DEF UsesInv, NoSwap, Held, Alive
<1> QED
  BY <1>2, <1>3, <1>4 DEF PartInv, new

\* A part with a task of a swap is a locked DynDependency.
LEMMA SwapFacts ==
  ASSUME NEW r, NEW S \in SUBSET Interfaces, NEW ph \in PhaseMap, NEW st,
         PartInv(r, S, ph, st),
         r.failed = None, r.task # None
  PROVE  /\ r \in Part /\ IsDyn(r) /\ r.kind \notin {"Dependency", "DynDependencies"}
         /\ Held(r) /\ r.phase \notin {"absent", "stopped"} /\ HeldInv(r, S, ph)
         /\ r.pending /\ r.pref \in S /\ r.pref # None /\ ph[r.pref] = "running"
<1>1. r \in Part /\ r.kind \in Kinds /\ r.phase \in {"absent", "stopped", "locked", "running"}
  BY DEF PartInv, Part, Records
<1>2. r.kind # "DynDependencies"
  BY DEF PartInv, UsesInv, NoSwap
<1>3. SelectorInv(r, S, ph)
  BY <1>2 DEF PartInv
<1>4. Held(r) /\ r.phase \notin {"absent", "stopped"}
  BY <1>1, <1>3 DEF SelectorInv, AbsentInv, StoppedInv, NoSwap, Held
<1>5. HeldInv(r, S, ph)
  BY <1>3, <1>4 DEF SelectorInv
<1>6. r.kind # "Dependency"
  BY <1>5 DEF HeldInv, NoSwap
<1>7. r.pending /\ r.pref \in S /\ r.pref # None /\ ph[r.pref] = "running"
  BY <1>5 DEF HeldInv
<1> QED
  BY <1>1, <1>2, <1>4, <1>5, <1>6, <1>7 DEF IsDyn, Kinds

\* The task posted by offerSwap.
LEMMA RunSwapKeeps ==
  ASSUME NEW r, NEW S \in SUBSET Interfaces, NEW ph \in PhaseMap, NEW st,
         PartInv(r, S, ph, st),
         r.failed = None, r.task = "offered"
  PROVE  PartInv([r EXCEPT !.task = IF r.phase = "running" THEN "granted" ELSE None], S, ph, st)
<1>1. /\ r \in Part /\ IsDyn(r) /\ r.kind \notin {"Dependency", "DynDependencies"}
      /\ Held(r) /\ r.phase \notin {"absent", "stopped"} /\ HeldInv(r, S, ph)
      /\ r.pending /\ r.pref \in S /\ r.pref # None /\ ph[r.pref] = "running"
  BY SwapFacts DEF None
<1>2. PICK task \in {None, "offered", "granted", "applied"} :
        task = IF r.phase = "running" THEN "granted" ELSE None
  OBVIOUS
<1> DEFINE new == [r EXCEPT !.task = task]
<1>3. /\ new \in Part /\ new.kind = r.kind /\ new.phase = r.phase /\ new.failed = None
      /\ new.active = r.active /\ new.sat = r.sat /\ new.pref = r.pref /\ new.ptr = r.ptr
      /\ new.pending = r.pending /\ new.task = task
  BY <1>1 DEF Part, Records
<1> HIDE DEF new
<1>4. r.ptr = r.active
  BY <1>1 DEF HeldInv
<1>5. HeldInv(new, S, ph)
  BY <1>1, <1>2, <1>3, <1>4 DEF HeldInv, None
<1>6. PartInv(new, S, ph, st)
  BY <1>1, <1>3, <1>5 DEF PartInv, SelectorInv
<1> QED
  BY <1>2, <1>6 DEF new

\* SwapAction::apply
LEMMA ApplySwapKeeps ==
  ASSUME NEW r, NEW S \in SUBSET Interfaces, NEW ph \in PhaseMap, NEW st,
         PartInv(r, S, ph, st),
         r.failed = None, r.task = "granted"
  PROVE  PartInv([[r EXCEPT !.ptr = r.pref] EXCEPT !.task = "applied"], S, ph, st)
<1>1. /\ r \in Part /\ IsDyn(r) /\ r.kind \notin {"Dependency", "DynDependencies"}
      /\ Held(r) /\ r.phase \notin {"absent", "stopped"} /\ HeldInv(r, S, ph)
      /\ r.pending /\ r.pref \in S /\ r.pref # None /\ ph[r.pref] = "running"
  BY SwapFacts DEF None
<1> DEFINE new == [[r EXCEPT !.ptr = r.pref] EXCEPT !.task = "applied"]
<1>2. /\ new \in Part /\ new.kind = r.kind /\ new.phase = r.phase /\ new.failed = None
      /\ new.active = r.active /\ new.sat = r.sat /\ new.pref = r.pref /\ new.ptr = r.pref
      /\ new.pending = r.pending /\ new.task = "applied"
  BY <1>1 DEF Part, Records
<1> HIDE DEF new
<1>3. HeldInv(new, S, ph)
  BY <1>1, <1>2 DEF HeldInv
<1> QED
  BY <1>1, <1>2, <1>3 DEF PartInv, SelectorInv, new

\* finalize of a swap whose pointer is stored.
LEMMA FinalizeKeeps ==
  ASSUME NEW r, NEW S \in SUBSET Interfaces, NEW ph \in PhaseMap, NEW st,
         PartInv(r, S, ph, st),
         r.failed = None, r.task = "applied", NEW list
  PROVE  PartInv(Finalize(r, list), S, ph, st)
<1>1. /\ r \in Part /\ IsDyn(r) /\ r.kind \notin {"Dependency", "DynDependencies"}
      /\ Held(r) /\ r.phase \notin {"absent", "stopped"} /\ HeldInv(r, S, ph)
      /\ r.pending /\ r.pref \in S /\ r.pref # None /\ ph[r.pref] = "running"
  BY SwapFacts DEF None
<1> DEFINE done == [r EXCEPT !.active = r.pref, !.pref = None, !.pending = FALSE, !.task = None,
                       !.asked = {}]
           failed == [done EXCEPT !.failed = "finalize"]
<1>2. Finalize(r, list) \in {done, failed}
  BY DEF Finalize, Fail
<1>3. /\ done \in Part /\ done.kind = r.kind /\ done.phase = r.phase /\ done.failed = None
      /\ done.active = r.pref /\ done.sat = r.sat /\ done.pref = None /\ done.ptr = r.ptr
      /\ done.pending = FALSE /\ done.task = None
  BY <1>1 DEF Part, Records, Maybe
<1>4. failed \in Part /\ failed.kind = r.kind /\ failed.failed # None
  BY <1>1, <1>3 DEF Part, Records, None
<1> HIDE DEF done, failed
<1>5. HeldInv(done, S, ph)
  BY <1>1, <1>3 DEF HeldInv, None
<1>6. PartInv(done, S, ph, st)
  BY <1>1, <1>3, <1>5 DEF PartInv, SelectorInv
<1>7. PartInv(failed, S, ph, st)
  BY <1>1, <1>4 DEF PartInv
<1> QED
  BY <1>2, <1>6, <1>7

\* A swap that is applied and finalized at once.
LEMMA ApplyFinalize ==
  ASSUME NEW r, NEW S \in SUBSET Interfaces, NEW ph \in PhaseMap, NEW st,
         PartInv(r, S, ph, st),
         r.failed = None, r.task = "granted", NEW list
  PROVE  PartInv(Finalize([r EXCEPT !.ptr = r.pref], list), S, ph, st)
<1> DEFINE stored == [r EXCEPT !.ptr = r.pref]
           applied == [stored EXCEPT !.task = "applied"]
<1>1. r \in Part
  BY DEF PartInv
<1>2. PartInv(applied, S, ph, st)
  BY ApplySwapKeeps
<1>3. applied.task = "applied" /\ applied.failed = None
  BY <1>1 DEF Part, Records
<1>4. Finalize(applied, list) = Finalize(stored, list)
  <2>1. applied.pref = r.pref /\ stored.pref = r.pref
    BY <1>1 DEF Part, Records
  <2>2. [applied EXCEPT !.active = r.pref, !.pref = None, !.pending = FALSE, !.task = None,
                       !.asked = {}]
          = [stored EXCEPT !.active = r.pref, !.pref = None, !.pending = FALSE, !.task = None,
                       !.asked = {}]
    BY <1>1 DEF Part, Records
  <2> HIDE DEF applied, stored
  <2> QED
    BY <2>1, <2>2 DEF Finalize
<1> HIDE DEF applied
<1>5. PartInv(Finalize(applied, list), S, ph, st)
  BY <1>2, <1>3, FinalizeKeeps
<1> QED
  BY <1>4, <1>5

-----------------------------------------------------------------------------
(* The entry. *)

\* The Singleton of the most preferred interface is satisfied while its
\* service is locked and while no service of the entry is.
EntryInv(list, ph, sat) ==
  /\ list \in Lists /\ Sorted(list) /\ ph \in PhaseMap
  /\ Range(list) = {i \in Interfaces : ph[i] # "absent"}
  /\ sat \subseteq Singletons
  /\ \A s \in Singletons : ph[s] = "absent" => s \in sat
  /\ (/\ list # <<>> /\ Head(list) \in Singletons
      /\ IsLocked(ph, Head(list)) \/ \A i \in Interfaces : ~IsLocked(ph, i))
     => Head(list) \in sat

\* interface_publish: a new interface is listed, its Singleton waits when it has to.
LEMMA PublishKeeps ==
  ASSUME NEW list, NEW ph, NEW sat, EntryInv(list, ph, sat),
         NEW i \in Interfaces, ph[i] = "absent"
  PROVE  LET new == InsertSorted(list, i)
             left == [ph EXCEPT ![i] = "stopped"]
         IN  /\ EntryInv(new, left, SingletonCreated(sat, new, left, i))
             /\ Range(new) = Range(list) \cup {i} /\ i \notin Range(list)
<1> DEFINE new == InsertSorted(list, i)
           made == [ph EXCEPT ![i] = "stopped"]
           now == SingletonCreated(sat, new, made, i)
<1>1. list \in Lists /\ Sorted(list) /\ ph \in PhaseMap /\ i \notin Range(list)
  BY DEF EntryInv
<1>2. /\ new \in Lists /\ Sorted(new) /\ Range(new) = Range(list) \cup {i}
      /\ new # <<>> /\ (Head(new) = i \/ (list # <<>> /\ Head(new) = Head(list)))
  BY <1>1, InsertFacts
<1>3. /\ made \in PhaseMap /\ made[i] = "stopped"
      /\ \A j \in Interfaces \ {i} : made[j] = ph[j]
  BY <1>1 DEF PhaseMap, Phases
<1> HIDE DEF new, made
<1>4. Range(new) = {j \in Interfaces : made[j] # "absent"}
  BY <1>2, <1>3 DEF EntryInv
<1>5. now \subseteq Singletons /\ \A s \in Singletons : made[s] = "absent" => s \in now
  <2>1. Singletons \subseteq Interfaces
    BY RegistryAssumption
  <2> QED
    BY <1>3, <2>1 DEF EntryInv, SingletonCreated, Subscribed
<1>6. ASSUME Head(new) \in Singletons,
             IsLocked(made, Head(new)) \/ \A j \in Interfaces : ~IsLocked(made, j)
      PROVE  Head(new) \in now
  <2>1. Head(new) \in Interfaces /\ Singletons \subseteq Interfaces
    BY <1>6, RegistryAssumption
  <2>2. IsTopPriorityInterface(new, Head(new))
    BY DEF IsTopPriorityInterface
  <2>3. CASE Head(new) = i
    <3>1. i \in sat
      BY <1>6, <2>3 DEF EntryInv
    <3>2. ~IsAnySiblingLocked(new, made)
      BY <1>2, <1>3, <1>4, <1>6, <2>3 DEF IsAnySiblingLocked, IsLocked
    <3> QED
      BY <2>2, <2>3, <3>1, <3>2 DEF SingletonCreated
  <2>4. CASE Head(new) # i
    <3>1. list # <<>> /\ Head(new) = Head(list)
      BY <1>2, <2>4
    <3>2. IsLocked(ph, Head(list)) \/ \A j \in Interfaces : ~IsLocked(ph, j)
      BY <1>3, <1>6, <2>1, <2>4, <3>1 DEF IsLocked
    <3>3. Head(list) \in sat
      BY <1>6, <3>1, <3>2 DEF EntryInv
    <3> QED
      BY <2>2, <2>4, <3>1, <3>3 DEF SingletonCreated
  <2> QED
    BY <2>3, <2>4
<1>7. EntryInv(new, made, now)
  <2> HIDE DEF now
  <2> QED
    BY <1>2, <1>3, <1>4, <1>5, <1>6 DEF EntryInv
<1> QED
  BY <1>1, <1>2, <1>7 DEF new, made

\* A service of the entry that is locked, or that becomes locked.
LEMMA LockedStep ==
  ASSUME NEW list, NEW ph, NEW sat, EntryInv(list, ph, sat),
         NEW i \in Interfaces, ph[i] # "absent", IsLocked(ph, i) \/ (i \in Singletons => i \in sat),
         NEW to \in {"locked", "running", "pending"}
  PROVE  EntryInv(list, [ph EXCEPT ![i] = to], sat)
<1> DEFINE new == [ph EXCEPT ![i] = to]
<1>1. ph \in PhaseMap
  BY DEF EntryInv
<1>2. new \in PhaseMap /\ new[i] = to /\ \A j \in Interfaces \ {i} : new[j] = ph[j]
  BY <1>1 DEF PhaseMap, Phases
<1> HIDE DEF new
<1>3. Range(list) = {j \in Interfaces : new[j] # "absent"}
  BY <1>2 DEF EntryInv
<1>4. \A s \in Singletons : new[s] = "absent" => s \in sat
  BY <1>2, RegistryAssumption DEF EntryInv
<1>5. ASSUME list # <<>>, Head(list) \in Singletons,
             IsLocked(new, Head(list)) \/ \A j \in Interfaces : ~IsLocked(new, j)
      PROVE  Head(list) \in sat
  <2>1. IsLocked(new, i)
    BY <1>2 DEF IsLocked
  <2>2. IsLocked(new, Head(list)) /\ Head(list) \in Interfaces
    BY <1>5, <2>1, RegistryAssumption
  <2>3. Head(list) = i \/ IsLocked(ph, Head(list))
    BY <1>2, <2>2 DEF IsLocked
  <2> QED
    BY <1>5, <2>3 DEF EntryInv
<1>6. EntryInv(list, new, sat)
  BY <1>2, <1>3, <1>4, <1>5 DEF EntryInv
<1> QED
  BY <1>6 DEF new

\* onSubscribedUnlocked wakes the Singleton of the most preferred interface.
LEMMA UnlockKeeps ==
  ASSUME NEW list, NEW ph, NEW sat, EntryInv(list, ph, sat),
         NEW i \in Interfaces, ph[i] = "pending"
  PROVE  LET left == [ph EXCEPT ![i] = "stopped"]
         IN  EntryInv(list, left, SingletonUnlocked(sat, list, left, i))
<1> DEFINE new == [ph EXCEPT ![i] = "stopped"]
           now == SingletonUnlocked(sat, list, new, i)
<1>1. ph \in PhaseMap /\ list \in Lists /\ Sorted(list) /\ i \in Range(list)
  BY DEF EntryInv
<1>2. new \in PhaseMap /\ new[i] = "stopped" /\ \A j \in Interfaces \ {i} : new[j] = ph[j]
  BY <1>1 DEF PhaseMap, Phases
<1> HIDE DEF new
<1>3. Range(list) = {j \in Interfaces : new[j] # "absent"}
  BY <1>2 DEF EntryInv
<1>4. now \subseteq Singletons /\ \A s \in Singletons : new[s] = "absent" => s \in now
  BY <1>2, RegistryAssumption DEF EntryInv, SingletonUnlocked, Subscribed
<1>5. ASSUME list # <<>>, Head(list) \in Singletons PROVE Head(list) \in now
  <2>1. Head(list) \in Range(list)
    BY <1>1, <1>5, ListFacts DEF IsTop
  <2>2. new[Head(list)] # "absent" /\ IsTopPriorityInterface(list, Head(list))
    BY <1>3, <2>1 DEF IsTopPriorityInterface
  <2>3. CASE Head(list) = i
    <3>1. i \in sat
      BY <1>5, <2>3 DEF EntryInv, IsLocked
    <3> QED
      BY <2>2, <2>3, <3>1 DEF SingletonUnlocked
  <2>4. CASE Head(list) # i
    BY <1>5, <2>2, <2>4 DEF SingletonUnlocked, Subscribed
  <2> QED
    BY <2>3, <2>4
<1> HIDE DEF now
<1>6. EntryInv(list, new, now)
  BY <1>1, <1>2, <1>3, <1>4, <1>5 DEF EntryInv
<1> QED
  BY <1>6 DEF new, now

\* onSubscribedDestroy does so when an interface goes.
LEMMA RevokeKeeps ==
  ASSUME NEW list, NEW ph, NEW sat, EntryInv(list, ph, sat),
         NEW i \in Interfaces, ph[i] = "stopped"
  PROVE  LET new == Unlink(list, i)
             left == [ph EXCEPT ![i] = "absent"]
         IN  /\ EntryInv(new, left, SingletonDestroyed(sat, new, left, i))
             /\ Range(new) = Range(list) \ {i} /\ i \in Range(list)
<1> DEFINE new == Unlink(list, i)
           left == [ph EXCEPT ![i] = "absent"]
           now == SingletonDestroyed(sat, new, left, i)
<1>1. list \in Lists /\ Sorted(list) /\ ph \in PhaseMap /\ i \in Range(list)
  BY DEF EntryInv
<1>2. new \in Lists /\ Sorted(new) /\ Range(new) = Range(list) \ {i}
  BY <1>1, UnlinkFacts
<1>3. /\ left \in PhaseMap /\ left[i] = "absent"
      /\ \A j \in Interfaces \ {i} : left[j] = ph[j]
  BY <1>1 DEF PhaseMap, Phases
<1> HIDE DEF new, left
<1>4. Range(new) = {j \in Interfaces : left[j] # "absent"}
  BY <1>2, <1>3 DEF EntryInv
<1>5. now \subseteq Singletons /\ \A s \in Singletons : left[s] = "absent" => s \in now
  BY <1>3, RegistryAssumption DEF EntryInv, SingletonDestroyed, Subscribed
<1>6. ASSUME new # <<>>, Head(new) \in Singletons PROVE Head(new) \in now
  <2>1. Head(new) \in Range(new)
    BY <1>2, <1>6, ListFacts DEF IsTop
  <2>2. left[Head(new)] # "absent" /\ IsTopPriorityInterface(new, Head(new))
    BY <1>4, <2>1 DEF IsTopPriorityInterface
  <2> QED
    BY <1>6, <2>2 DEF SingletonDestroyed, Subscribed
<1> HIDE DEF now
<1>7. EntryInv(new, left, now)
  BY <1>2, <1>3, <1>4, <1>5, <1>6 DEF EntryInv
<1> QED
  BY <1>1, <1>2, <1>7 DEF new, left, now

\* The entry with the default alone, created when the last interface went.
LEMMA OnDemandKeeps ==
  ASSUME NEW ph, NEW sat, EntryInv(<<>>, ph, sat), NEW gone \in Interfaces,
         NEW old \in SUBSET Singletons, sat = SingletonDestroyed(old, <<>>, ph, gone)
  PROVE  LET made == [ph EXCEPT ![Default] = "stopped"]
         IN  /\ EntryInv(<<Default>>, made, SingletonDestroyed(old, <<Default>>, ph, gone))
             /\ Range(<<Default>>) = {Default}
<1> DEFINE made == [ph EXCEPT ![Default] = "stopped"]
           now == SingletonDestroyed(old, <<Default>>, ph, gone)
<1>1. /\ Default \in Interfaces /\ Default \notin Singletons /\ ph \in PhaseMap
      /\ Singletons \subseteq Interfaces
  BY RegistryAssumption DEF EntryInv
<1>2. \A j \in Interfaces : ph[j] = "absent"
  <2>1. Range(<<>>) = {}
    BY DEF Range
  <2> QED
    BY <2>1 DEF EntryInv
<1>3. /\ made \in PhaseMap /\ made[Default] = "stopped"
      /\ \A j \in Interfaces \ {Default} : made[j] = "absent"
  BY <1>1, <1>2 DEF PhaseMap, Phases
<1>4. PICK list \in Seq(Interfaces) : list = <<Default>> /\ Len(list) = 1 /\ list[1] = Default
  <2>1. <<Default>> \in Seq(Interfaces) /\ Len(<<Default>>) = 1 /\ <<Default>>[1] = Default
    BY <1>1
  <2> QED
    BY <2>1
<1>5. /\ list \in Lists /\ DOMAIN list = {1} /\ Head(list) = Default /\ list # <<>>
      /\ Range(list) = {Default}
  BY <1>4 DEF Lists, Range
<1>6. Sorted(list)
  BY <1>5 DEF Sorted
<1>7. Subscribed(ph) = {}
  BY <1>1, <1>2 DEF Subscribed
<1>8. now = sat
  BY <1>7 DEF SingletonDestroyed
<1>9. sat \subseteq Singletons /\ \A s \in Singletons : s \in sat
  BY <1>1, <1>2 DEF EntryInv
<1> HIDE DEF made, now
<1>10. EntryInv(list, made, now)
  BY <1>1, <1>3, <1>5, <1>6, <1>8, <1>9 DEF EntryInv
<1> QED
  BY <1>4, <1>5, <1>10 DEF made, now

-----------------------------------------------------------------------------
(* The inductive invariant and the actions. *)

IInv ==
  /\ EntryInv(published, phase, satisfied)
  /\ stopping \subseteq Interfaces /\ closing \in BOOLEAN
  /\ DOMAIN import = Users
  /\ \A u \in Users : PartInv(import[u], Range(published), phase, stopping)

\* What the invariant says of the arguments of the lemmas above.
LEMMA Typed ==
  ASSUME IInv
  PROVE  /\ published \in Lists /\ Sorted(published) /\ phase \in PhaseMap
         /\ Range(published) \in SUBSET Interfaces
         /\ \A i \in Interfaces : i \in Range(published) <=> phase[i] # "absent"
BY DEF IInv, EntryInv

\* A step that leaves the list and the phases alone.
LEMMA ImportStepKeeps ==
  ASSUME IInv, NEW u \in Users, NEW r, ImportStep(u, r),
         PartInv(r, Range(published), phase, stopping)
  PROVE  IInv'
<1>1. /\ published' = published /\ phase' = phase /\ satisfied' = satisfied
      /\ stopping' = stopping /\ closing' = closing /\ import' = [import EXCEPT ![u] = r]
  BY DEF ImportStep, registryVars
<1>2. DOMAIN import' = Users /\ \A v \in Users : import'[v] = IF v = u THEN r ELSE import[v]
  BY <1>1 DEF IInv
<1>3. \A v \in Users : PartInv(import'[v], Range(published), phase, stopping)
  BY <1>2 DEF IInv
<1>4. /\ EntryInv(published, phase, satisfied)'
      /\ (stopping \subseteq Interfaces /\ closing \in BOOLEAN)'
  BY <1>1 DEF IInv
<1> QED
  BY <1>1, <1>2, <1>3, <1>4 DEF IInv

\* Service::init of a service that exports an interface.
LEMMA CreateServiceStep ==
  ASSUME IInv, NEW i \in Interfaces, CreateService(i)
  PROVE  IInv'
<1>1. /\ phase[i] = "absent" /\ published' = InsertSorted(published, i)
      /\ phase' = [phase EXCEPT ![i] = "stopped"]
      /\ satisfied' = SingletonCreated(satisfied, published', phase', i)
      /\ stopping' = stopping /\ closing' = closing
      /\ \A u \in Users : import[u].failed = None
  BY DEF CreateService, Publish, Running
<1>2. PICK reply \in UseReplies : import' = Announce(import, phase', i, reply)
  BY DEF CreateService
<1>3. /\ EntryInv(published', phase', satisfied')
      /\ Range(published') = Range(published) \cup {i} /\ i \notin Range(published)
  BY <1>1, PublishKeeps DEF IInv
<1>4. PICK S \in SUBSET Interfaces : S = Range(published)
  BY Typed
<1>5. PICK new \in PhaseMap : new = phase'
  BY <1>3 DEF EntryInv
<1>6. phase \in PhaseMap /\ new[i] = "stopped" /\ \A j \in Interfaces \ {i} : new[j] = phase[j]
  BY <1>1, <1>5, Typed DEF PhaseMap
<1>7. ASSUME NEW u \in Users PROVE PartInv(import'[u], S \cup {i}, new, stopping)
  <2>1. PartInv(import[u], S, phase, stopping) /\ import[u].failed = None
    BY <1>1, <1>4 DEF IInv
  <2>2. PartInv(import[u], S, new, stopping)
    BY <1>1, <1>6, <2>1, PhaseKept
  <2>3. PartInv(Created(import[u], new, i, reply), S \cup {i}, new, stopping)
    BY <1>3, <1>4, <1>6, <2>1, <2>2, CreatedKeeps
  <2>4. import'[u] = Created(import[u], new, i, reply)
    BY <1>2, <1>5 DEF Announce
  <2> QED
    BY <2>3, <2>4
<1>8. DOMAIN import' = Users
  BY <1>2 DEF Announce
<1>9. \A u \in Users : PartInv(import'[u], Range(published'), phase', stopping)
  BY <1>3, <1>4, <1>5, <1>7
<1>10. stopping' = stopping /\ stopping' \subseteq Interfaces /\ closing' \in BOOLEAN
  BY <1>1 DEF IInv
<1> QED
  BY <1>3, <1>8, <1>9, <1>10 DEF IInv

\* do_lock_cluster of a service that exports an interface.
LEMMA LockServiceStep ==
  ASSUME IInv, NEW i \in Interfaces, LockService(i)
  PROVE  IInv'
<1>1. /\ phase[i] = "stopped" /\ (i \in Singletons => i \in satisfied)
      /\ phase' = [phase EXCEPT ![i] = "locked"]
      /\ published' = published /\ satisfied' = satisfied /\ import' = import
      /\ stopping' = stopping /\ closing' = closing
      /\ \A u \in Users : import[u].failed = None
  BY DEF LockService, Lock, Running
<1>2. EntryInv(published, phase', satisfied)
  BY <1>1, LockedStep DEF IInv
<1>3. PICK new \in PhaseMap : new = phase'
  BY <1>2 DEF EntryInv
<1>4. /\ phase \in PhaseMap /\ new[i] = "locked" /\ \A j \in Interfaces \ {i} : new[j] = phase[j]
      /\ Range(published) \in SUBSET Interfaces
  BY <1>1, <1>3, Typed DEF PhaseMap
<1>5. \A j \in Interfaces : new[j] = phase[j]
          \/ (phase[j] # "running" /\ new[j] \notin {"running", "pending"})
  BY <1>1, <1>4
<1>6. ASSUME NEW u \in Users PROVE PartInv(import[u], Range(published), new, stopping)
  <2>1. PartInv(import[u], Range(published), phase, stopping) /\ import[u].failed = None
    BY <1>1 DEF IInv
  <2> QED
    BY <1>4, <1>5, <2>1, PhaseKept
<1> QED
  BY <1>1, <1>2, <1>3, <1>6 DEF IInv

\* do_finalize_cluster of it, with onUsedStarted of the imports.
LEMMA RunServiceStep ==
  ASSUME IInv, NEW i \in Interfaces, RunService(i)
  PROVE  IInv'
<1>1. /\ phase[i] = "locked" /\ phase' = [phase EXCEPT ![i] = "running"]
      /\ published' = published /\ satisfied' = satisfied
      /\ stopping' = stopping /\ closing' = closing
      /\ \A u \in Users : import[u].failed = None
  BY DEF RunService, Running
<1>2. PICK reply \in UseReplies :
        import' = [u \in Users |-> LET r == import[u] IN
          IF ~Held(r) \/ i \notin Connected(r) THEN r
          ELSE IF i \in stopping THEN Fail(r, "post_start_actions")
          ELSE IF r.kind = "Dependency" THEN r
          ELSE IF r.kind = "DynDependencies" THEN UseStarted(r, i, reply)
          ELSE IF i = r.pref THEN OfferSwap(r) ELSE Fail(r, "onUsedStarted")]
  BY DEF RunService
<1>3. EntryInv(published, phase', satisfied)
  BY <1>1, LockedStep DEF IInv, IsLocked
<1>4. PICK new \in PhaseMap : new = phase'
  BY <1>3 DEF EntryInv
<1>5. /\ phase \in PhaseMap /\ new = [phase EXCEPT ![i] = "running"] /\ new[i] = "running"
      /\ \A j \in Interfaces \ {i} : new[j] = phase[j]
  BY <1>1, <1>4, Typed DEF PhaseMap
<1>6. PICK S \in SUBSET Interfaces : S = Range(published)
  BY Typed
<1>7. ASSUME NEW u \in Users PROVE PartInv(import'[u], S, new, stopping)
  <2>1. PICK r : r = import[u]
    OBVIOUS
  <2>2. PartInv(r, S, phase, stopping) /\ r.failed = None /\ r \in Part /\ r.kind \in Kinds
    BY <1>1, <1>6, <2>1 DEF IInv, PartInv, Part, Records
  <2>3. import'[u] =
          IF ~Held(r) \/ i \notin Connected(r) THEN r
          ELSE IF i \in stopping THEN Fail(r, "post_start_actions")
          ELSE IF r.kind = "Dependency" THEN r
          ELSE IF r.kind = "DynDependencies" THEN UseStarted(r, i, reply)
          ELSE IF i = r.pref THEN OfferSwap(r) ELSE Fail(r, "onUsedStarted")
    BY <1>2, <2>1
  <2>4. CASE ~Held(r) \/ i \notin Connected(r)
    <3>1. PartInv(r, S, new, stopping)
      BY <1>5, <2>2, <2>4, PhaseKept
    <3> QED
      BY <2>3, <2>4, <3>1
  <2>5. CASE Held(r) /\ i \in Connected(r) /\ i \in stopping
    <3> DEFINE fail == [r EXCEPT !.failed = "post_start_actions"]
    <3>1. import'[u] = fail
      BY <2>3, <2>5 DEF Fail
    <3>2. /\ fail \in Part /\ fail.kind = r.kind /\ fail.failed # None
          /\ fail.default = r.default /\ fail.active = r.active /\ fail.pref = r.pref
          /\ fail.ptr = r.ptr /\ fail.pending = r.pending /\ fail.task = r.task
          /\ fail.map = r.map /\ fail.phase = r.phase
      BY <2>2 DEF Part, Records, None
    <3> HIDE DEF fail
    <3>3. ASSUME r.kind = "DynDependencies" PROVE UsesInv(fail, S, new, stopping)
      <4>1. UsesInv(r, S, phase, stopping)
        BY <2>2, <3>3 DEF PartInv
      <4>2. UsesInv(r, S, new, stopping)
        BY <1>5, <4>1 DEF UsesInv
      <4> QED
        BY <3>2, <4>2 DEF UsesInv, NoSwap, Held, Alive
    <3> QED
      BY <3>1, <3>2, <3>3 DEF PartInv
  <2>6. CASE Held(r) /\ i \in Connected(r) /\ r.kind = "Dependency"
    <3>1. HeldInv(r, S, phase)
      BY <2>2, <2>6 DEF PartInv, SelectorInv
    <3>2. FALSE
      BY <1>1, <2>6, <3>1 DEF HeldInv, NoSwap, Connected
    <3> QED
      BY <3>2
  <2>7. CASE Held(r) /\ i \in Connected(r) /\ i \notin stopping /\ r.kind = "DynDependencies"
    <3>1. UsesInv(r, S, phase, stopping)
      BY <2>2, <2>7 DEF PartInv
    <3>2. UsesInv(r, S, new, stopping)
      BY <1>5, <3>1 DEF UsesInv
    <3>3. PartInv(r, S, new, stopping)
      BY <2>2, <2>7, <3>2 DEF PartInv
    <3>4. PartInv(UseStarted(r, i, reply), S, new, stopping)
      BY <1>5, <2>7, <3>3, UseStartedKeeps
    <3> QED
      BY <2>3, <2>7, <3>4
  <2>8. CASE Held(r) /\ i \in Connected(r) /\ i \notin stopping /\ IsDyn(r)
    <3>1. i = r.pref /\ PartInv(OfferSwap(r), S, new, stopping)
      BY <1>1, <1>5, <2>2, <2>8, SwapOffered
    <3> QED
      BY <2>3, <2>8, <3>1 DEF IsDyn
  <2> QED
    BY <2>2, <2>4, <2>5, <2>6, <2>7, <2>8 DEF Kinds, IsDyn
<1>8. DOMAIN import' = Users
  BY <1>2
<1> QED
  BY <1>1, <1>3, <1>4, <1>6, <1>7, <1>8 DEF IInv

\* on_service_stop_request, with onReleaseRequest of the imports.
LEMMA RequestStopStep ==
  ASSUME IInv, NEW i \in Interfaces, RequestStop(i)
  PROVE  IInv'
<1>1. /\ stopping' = stopping \cup {i}
      /\ published' = published /\ satisfied' = satisfied /\ phase' = phase
      /\ closing' = closing /\ \A u \in Users : import[u].failed = None
  BY DEF RequestStop, Running, registryVars
<1> DEFINE weak(r) == r.kind = "DynDependencies" /\ Flags[i] = "weak"
           answer(r, reply) ==
             CASE r.kind = "Dependency" -> <<"Never", r>>
               [] r.kind = "DynDependencies" ->
                    UseRelease(r, i, IF weak(r) /\ reply = "Never"
                                     THEN "Now" ELSE reply)
               [] OTHER -> DynRelease(r, published, i)
           spared(r) == \/ i \notin Connected(r) \/ i \in r.asked
                        \/ ~weak(r) /\ (~Held(r) \/ r.marked)
<1>2. PICK reply \in {"Now", "Later", "Never"} :
        import' = [u \in Users |->
          IF spared(import[u]) THEN import[u]
          ELSE [answer(import[u], reply)[2] EXCEPT
                  !.marked = @ \/ answer(import[u], reply)[1] = "Never",
                  !.asked = IF answer(import[u], reply)[1] = "Later"
                            THEN @ \cup {i} ELSE @]]
  BY DEF RequestStop
<1>3. PICK S \in SUBSET Interfaces : S = Range(published)
  BY Typed
<1>4. phase \in PhaseMap /\ published \in Lists /\ Sorted(published)
  BY Typed
<1>5. PICK st : st = stopping \cup {i}
  OBVIOUS
<1>6. ASSUME NEW u \in Users PROVE PartInv(import[u], S, phase, st)
  <2>1. PartInv(import[u], S, phase, stopping)
    BY <1>3 DEF IInv
  <2> QED
    BY <1>5, <2>1, StoppingGrows
<1>7. ASSUME NEW r, PartInv(r, S, phase, st), r.failed = None, ~spared(r)
      PROVE  /\ PartInv(answer(r, reply)[2], S, phase, st)
             /\ answer(r, reply)[2].phase # "absent"
  <2>1. r.kind \in Kinds /\ r \in Part
    BY <1>7 DEF PartInv, Part, Records
  <2>2. CASE r.kind = "Dependency"
    <3>1. answer(r, reply) = <<"Never", r>> /\ Held(r)
      BY <1>7, <2>2
    <3> QED
      BY <1>7, <3>1 DEF Held
  <2>3. CASE r.kind = "DynDependencies"
    <3> DEFINE new == SetUse(r, i, [r.map[i] EXCEPT !.connected = FALSE, !.stored = "erased"])
    <3>1. i \in DOMAIN r.map /\ UsesInv(r, S, phase, st)
      BY <1>7, <2>3 DEF Connected, PartInv
    <3>2. r.phase # "absent" /\ Alive(r)
      BY <3>1 DEF UsesInv, Alive
    <3>3. Held(r) \/ (Alive(r) /\ i \in st /\ Flags[i] = "weak")
      BY <1>5, <1>7, <2>3, <3>2
    <3>4. PartInv(new, S, phase, st)
      BY <1>4, <1>7, <2>3, <3>1, <3>3, ReleaseKeeps
    <3>5. new.phase = r.phase
      BY <2>1 DEF SetUse, Part, Records
    <3>6. answer(r, reply)[2] \in {r, new}
      BY <2>3 DEF UseRelease
    <3> HIDE DEF new
    <3> QED
      BY <1>7, <3>2, <3>4, <3>5, <3>6
  <2>4. CASE IsDyn(r)
    <3>1. Held(r) /\ i \in Connected(r)
      BY <1>7, <2>4 DEF IsDyn
    <3>2. PartInv(DynRelease(r, published, i)[2], S, phase, st)
      BY <1>3, <1>4, <1>7, <2>4, <3>1, DynReleaseKeeps
    <3>3. answer(r, reply) = DynRelease(r, published, i)
      BY <2>4 DEF IsDyn
    <3>4. DynRelease(r, published, i)[2].phase = r.phase
      BY <2>1 DEF DynRelease, Part, Records
    <3> QED
      BY <3>1, <3>2, <3>3, <3>4 DEF Held
  <2> QED
    BY <2>1, <2>2, <2>3, <2>4 DEF Kinds, IsDyn
<1> HIDE DEF answer, spared
<1>8. ASSUME NEW u \in Users PROVE PartInv(import'[u], S, phase, st)
  <2>1. CASE spared(import[u])
    BY <1>2, <1>6, <2>1
  <2>2. CASE ~spared(import[u])
    <3>1. PICK r : r = answer(import[u], reply)[2]
      OBVIOUS
    <3>2. PartInv(r, S, phase, st) /\ r \in Part /\ r.phase # "absent"
      BY <1>1, <1>6, <1>7, <2>2, <3>1 DEF PartInv
    <3>3. PICK mark \in BOOLEAN : mark = (r.marked \/ answer(import[u], reply)[1] = "Never")
      BY <3>2 DEF Part, Records
    <3>4. PICK asked \in SUBSET Interfaces :
            asked = IF answer(import[u], reply)[1] = "Later" THEN r.asked \cup {i} ELSE r.asked
      BY <3>2 DEF Part, Records
    <3>5. PartInv([r EXCEPT !.marked = mark, !.asked = asked], S, phase, st)
      BY <1>4, <3>2, MarkedKeeps
    <3>6. import'[u] = [r EXCEPT !.marked = @ \/ answer(import[u], reply)[1] = "Never",
                                !.asked = IF answer(import[u], reply)[1] = "Later"
                                          THEN @ \cup {i} ELSE @]
      BY <1>2, <2>2, <3>1
    <3>7. import'[u] = [r EXCEPT !.marked = mark, !.asked = asked]
      BY <3>3, <3>4, <3>6, Zenon
    <3> QED
      BY <3>5, <3>7
  <2> QED
    BY <2>1, <2>2
<1>9. DOMAIN import' = Users
  BY <1>2
<1>10. stopping' \subseteq Interfaces
  BY <1>1 DEF IInv
<1> QED
  BY <1>1, <1>3, <1>5, <1>8, <1>9, <1>10 DEF IInv

\* A service without external uses stops: no locked import refers to it.
LEMMA StopServiceStep ==
  ASSUME IInv, NEW i \in Interfaces, StopService(i)
  PROVE  IInv'
<1>1. /\ phase[i] = "running" /\ phase' = [phase EXCEPT ![i] = "pending"]
      /\ published' = published /\ satisfied' = satisfied /\ import' = import
      /\ stopping' = stopping /\ closing' = closing /\ ~IsUsed(i)
      /\ \A u \in Users : import[u].failed = None
  BY DEF StopService, Stop, Running
<1>2. EntryInv(published, phase', satisfied)
  BY <1>1, LockedStep DEF IInv, IsLocked
<1>3. PICK new \in PhaseMap : new = phase'
  BY <1>2 DEF EntryInv
<1>4. /\ phase \in PhaseMap /\ \A j \in Interfaces \ {i} : new[j] = phase[j]
      /\ Range(published) \in SUBSET Interfaces
  BY <1>1, <1>3, Typed DEF PhaseMap
<1>5. ASSUME NEW u \in Users PROVE PartInv(import[u], Range(published), new, stopping)
  <2>1. PartInv(import[u], Range(published), phase, stopping) /\ import[u].failed = None
    BY <1>1 DEF IInv
  <2>2. Held(import[u]) => i \notin Connected(import[u])
    BY <1>1 DEF IsUsed
  <2> QED
    BY <1>4, <2>1, <2>2, PhaseKept
<1> QED
  BY <1>1, <1>2, <1>3, <1>5 DEF IInv

\* do_unlock_cluster of a service that exports an interface.
LEMMA UnlockServiceStep ==
  ASSUME IInv, NEW i \in Interfaces, UnlockService(i)
  PROVE  IInv'
<1>1. /\ phase[i] = "pending" /\ phase' = [phase EXCEPT ![i] = "stopped"]
      /\ satisfied' = SingletonUnlocked(satisfied, published, phase', i)
      /\ published' = published /\ stopping' = stopping \ {i} /\ closing' = closing
      /\ \A u \in Users : import[u].failed = None
  BY DEF UnlockService, Unlock, Running
<1>2. PICK reply \in UseReplies :
        import' = [u \in Users |->
          IF Alive(import[u]) /\ import[u].kind = "DynDependencies"
          THEN ProcessAvailability(import[u], i, reply) ELSE import[u]]
  BY DEF UnlockService
<1>3. EntryInv(published, phase', satisfied')
  BY <1>1, UnlockKeeps DEF IInv
<1>4. PICK new \in PhaseMap : new = phase'
  BY <1>3 DEF EntryInv
<1>5. PICK S \in SUBSET Interfaces : S = Range(published)
  BY Typed
<1>6. /\ phase \in PhaseMap /\ new[i] = "stopped" /\ \A j \in Interfaces \ {i} : new[j] = phase[j]
      /\ i \in S /\ S = S \cup {i}
  BY <1>1, <1>4, <1>5, Typed DEF PhaseMap
<1>7. \A j \in Interfaces : new[j] = phase[j]
          \/ (phase[j] # "running" /\ new[j] \notin {"running", "pending"})
  BY <1>1, <1>6
<1>8. ASSUME NEW u \in Users PROVE PartInv(import'[u], S, new, stopping')
  <2>1. PartInv(import[u], S, phase, stopping) /\ import[u].failed = None
    BY <1>1, <1>5 DEF IInv
  <2>2. PartInv(import[u], S, new, stopping)
    BY <1>6, <1>7, <2>1, PhaseKept
  <2>3. CASE Alive(import[u]) /\ import[u].kind = "DynDependencies"
    <3>1. PICK now : now = stopping'
      OBVIOUS
    <3>2. stopping \subseteq now \cup {i} /\ new[i] # "pending"
      BY <1>1, <1>6, <3>1
    <3>3. PartInv(ProcessAvailability(import[u], i, reply), S, new, now)
      BY <1>6, <2>2, <2>3, <3>2, ProcessKeeps
    <3> QED
      BY <1>2, <2>3, <3>1, <3>3
  <2>4. CASE ~(Alive(import[u]) /\ import[u].kind = "DynDependencies")
    <3>1. import'[u] = import[u]
      BY <1>2, <2>4
    <3>2. PICK r : r = import[u]
      OBVIOUS
    <3>3. ASSUME r.kind = "DynDependencies" PROVE UsesInv(r, S, new, stopping')
      <4>1. UsesInv(r, S, new, stopping) /\ r.phase = "absent"
        BY <2>2, <2>4, <3>2, <3>3 DEF PartInv, Alive
      <4> QED
        BY <4>1 DEF UsesInv
    <3> QED
      BY <2>2, <3>1, <3>2, <3>3 DEF PartInv
  <2> QED
    BY <2>3, <2>4
<1>9. DOMAIN import' = Users
  BY <1>2
<1>10. stopping' \subseteq Interfaces
  BY <1>1 DEF IInv
<1> QED
  BY <1>1, <1>3, <1>4, <1>5, <1>8, <1>9, <1>10 DEF IInv

\* When the last interface of the entry goes, no selector is locked.
LEMMA DestroyedLast ==
  ASSUME NEW r, NEW i \in Interfaces, NEW ph \in PhaseMap, NEW st, PartInv(r, {i}, ph, st),
         r.failed = None, ph[i] # "running", NEW list
  PROVE  Destroyed(r, list, i).failed = None
<1>1. r \in Part
  BY DEF PartInv
<1>2. CASE r.kind = "DynDependencies"
  <2>1. Destroyed(r, list, i) = [r EXCEPT !.map = [j \in DOMAIN r.map \ {i} |-> r.map[j]],
                                         !.asked = r.asked \ {i}]
    BY <1>2 DEF Destroyed, Forget
  <2> QED
    BY <1>1, <2>1 DEF Part, Records
<1>3. CASE r.kind # "DynDependencies"
  <2>1. ~Held(r)
    BY <1>3 DEF PartInv, SelectorInv, HeldInv
  <2> QED
    BY <1>1, <1>3, <2>1 DEF Part, Records, Destroyed, SelectorUsedDestroy
<1> QED
  BY <1>2, <1>3

\* Service::destroy, with the default that takes the place of the last interface.
LEMMA RevokeStep ==
  ASSUME IInv, Running, NEW i \in Interfaces, phase[i] = "stopped", Revoke(i),
         stopping' = stopping, closing' \in BOOLEAN
  PROVE  IInv'
<1> DEFINE list == Unlink(published, i)
           left == [phase EXCEPT ![i] = "absent"]
           imports == [u \in Users |-> Destroyed(import[u], list, i)]
           made == [left EXCEPT ![Default] = "stopped"]
           onDemand == /\ list = <<>> /\ i # Default
                       /\ \E u \in Users : import[u].default /\ import[u].active = i
           now == SingletonDestroyed(satisfied, list, left, i)
<1>1. PICK reply \in UseReplies :
        /\ published' = IF onDemand THEN <<Default>> ELSE list
        /\ phase' = IF onDemand THEN made ELSE left
        /\ import' = IF onDemand THEN Announce(imports, made, Default, reply) ELSE imports
        /\ satisfied' = SingletonDestroyed(satisfied, published', left, i)
  BY DEF Revoke
<1>2. /\ EntryInv(list, left, now)
      /\ Range(list) = Range(published) \ {i} /\ i \in Range(published)
  BY RevokeKeeps DEF IInv
<1>3. /\ left \in PhaseMap /\ left[i] = "absent"
      /\ \A j \in Interfaces \ {i} : left[j] = phase[j]
      /\ phase \in PhaseMap /\ list \in Lists /\ Sorted(list)
  BY <1>2, Typed DEF PhaseMap, EntryInv
<1> HIDE DEF list, left, now
<1>4. PICK S \in SUBSET Interfaces : S = Range(published)
  BY Typed
<1>5. ASSUME NEW u \in Users
      PROVE  /\ PartInv(import[u], S, left, stopping) /\ import[u].failed = None
             /\ PartInv(imports[u], Range(list), left, stopping)
  <2>1. PartInv(import[u], S, phase, stopping) /\ import[u].failed = None
    BY <1>4 DEF IInv, Running
  <2>2. PartInv(import[u], S, left, stopping)
    BY <1>3, <2>1, PhaseKept
  <2>3. PartInv(Destroyed(import[u], list, i), Range(list), left, stopping)
    BY <1>2, <1>3, <1>4, <2>1, <2>2, DestroyedKeeps
  <2> QED
    BY <2>1, <2>2, <2>3
<1>6. stopping' \subseteq Interfaces
  BY DEF IInv
<1>7. CASE ~onDemand
  <2>1. /\ published' = list /\ phase' = left /\ import' = imports
        /\ satisfied' = now
    BY <1>1, <1>7 DEF now
  <2>2. DOMAIN imports = Users /\ \A u \in Users : PartInv(imports[u], Range(list), left, stopping)
    BY <1>5
  <2> HIDE DEF imports
  <2> QED
    BY <1>2, <1>6, <2>1, <2>2 DEF IInv
<1>8. CASE onDemand
  <2>1. /\ published' = <<Default>> /\ phase' = made
        /\ import' = Announce(imports, made, Default, reply)
        /\ satisfied' = SingletonDestroyed(satisfied, <<Default>>, left, i)
    BY <1>1, <1>8
  <2>2. list = <<>> /\ satisfied \subseteq Singletons /\ Default \in Interfaces
    BY <1>8, RegistryAssumption DEF IInv, EntryInv
  <2>3. EntryInv(<<Default>>, made, SingletonDestroyed(satisfied, <<Default>>, left, i))
        /\ Range(<<Default>>) = {Default}
    BY <1>2, <2>2, OnDemandKeeps DEF now
  <2>4. Range(list) = {} /\ S = {i}
    <3>1. Range(list) = {}
      BY <2>2 DEF Range
    <3> QED
      BY <1>2, <1>4, <3>1
  <2>5. /\ made \in PhaseMap /\ made[Default] = "stopped"
        /\ \A j \in Interfaces : left[j] = "absent"
        /\ \A j \in Interfaces \ {Default} : made[j] = left[j]
    BY <1>2, <1>3, <2>2, <2>4 DEF PhaseMap, Phases, EntryInv
  <2> HIDE DEF made, onDemand
  <2>6. ASSUME NEW u \in Users PROVE PartInv(import'[u], {Default}, made, stopping)
    <3>1. PICK r : r = imports[u]
      OBVIOUS
    <3>2. PartInv(r, {}, left, stopping)
      BY <1>5, <2>4, <3>1
    <3>3. r.failed = None
      <4>1. PartInv(import[u], {i}, left, stopping) /\ import[u].failed = None /\ left[i] # "running"
        BY <1>3, <1>5, <2>4
      <4>2. Destroyed(import[u], list, i).failed = None
        BY <1>3, <4>1, DestroyedLast
      <4> QED
        BY <3>1, <4>2
    <3>4. \A j \in Interfaces : left[j] # "running" /\ made[j] \notin {"running", "pending"}
      BY <2>5
    <3>5. PartInv(r, {}, made, stopping)
      BY <1>3, <2>5, <3>2, <3>3, <3>4, PhaseKept
    <3>6. PartInv(Created(r, made, Default, reply), {} \cup {Default}, made, stopping)
      BY <2>2, <2>5, <3>3, <3>5, CreatedKeeps
    <3>7. import'[u] = Created(r, made, Default, reply) /\ {} \cup {Default} = {Default}
      BY <2>1, <3>1 DEF Announce
    <3> QED
      BY <3>6, <3>7
  <2>7. DOMAIN import' = Users
    BY <2>1 DEF Announce
  <2> QED
    BY <1>6, <2>1, <2>3, <2>6, <2>7 DEF IInv
<1> QED
  BY <1>7, <1>8

\* RegistryManager::onPartDestroy
LEMMA CloseRegistryStep ==
  ASSUME IInv, CloseRegistry
  PROVE  IInv'
<1>1. closing' = TRUE /\ stopping' = stopping /\ Running /\ Default \in Interfaces
  BY RegistryAssumption DEF CloseRegistry
<1>2. CASE phase[Default] = "stopped"
  <2>1. Revoke(Default)
    BY <1>2 DEF CloseRegistry
  <2> QED
    BY <1>1, <1>2, <2>1, RevokeStep
<1>3. CASE phase[Default] # "stopped"
  <2>1. published' = published /\ phase' = phase /\ satisfied' = satisfied /\ import' = import
    BY <1>3 DEF CloseRegistry, registryVars
  <2> QED
    BY <1>1, <2>1 DEF IInv
<1> QED
  BY <1>2, <1>3

\* The steps of the services that export an interface.
LEMMA ServiceStepKeeps ==
  ASSUME IInv, NEW i \in Interfaces, ServiceStep(i)
  PROVE  IInv'
<1>1. CASE CreateService(i)
  BY <1>1, CreateServiceStep
<1>2. CASE LockService(i)
  BY <1>2, LockServiceStep
<1>3. CASE RunService(i)
  BY <1>3, RunServiceStep
<1>4. CASE RequestStop(i)
  BY <1>4, RequestStopStep
<1>5. CASE StopService(i)
  BY <1>5, StopServiceStep
<1>6. CASE UnlockService(i)
  BY <1>6, UnlockServiceStep
<1>7. CASE DestroyService(i)
  <2>1. Running /\ phase[i] = "stopped" /\ Revoke(i) /\ stopping' = stopping /\ closing' = closing
    BY <1>7 DEF DestroyService
  <2>2. closing' \in BOOLEAN
    BY <2>1 DEF IInv
  <2> QED
    BY <2>1, <2>2, RevokeStep
<1> QED
  BY <1>1, <1>2, <1>3, <1>4, <1>5, <1>6, <1>7 DEF ServiceStep

\* onPartInit of an import, with setDefault when the entry is empty.
LEMMA InitUserStep ==
  ASSUME IInv, NEW u \in Users, InitUser(u)
  PROVE  IInv'
<1>1. /\ import[u].phase = "absent" /\ stopping' = stopping /\ closing' = closing
      /\ \A v \in Users : import[v].failed = None
  BY DEF InitUser, Alive, Running
<1>2. PICK S \in SUBSET Interfaces : S = Range(published)
  BY Typed
<1>3. PICK r : r = import[u]
  OBVIOUS
<1>4. /\ PartInv(r, S, phase, stopping) /\ r \in Part /\ r.failed = None /\ r.phase = "absent"
      /\ phase \in PhaseMap /\ published \in Lists /\ Sorted(published)
  BY <1>1, <1>2, <1>3, Typed DEF IInv, PartInv
<1> DEFINE init == [r EXCEPT !.phase = "stopped"]
<1>5. init.default = r.default
  BY <1>4 DEF Part, Records
<1>6. CASE published = <<>> /\ r.default
  <2>1. /\ published' = InsertSorted(published, Default)
        /\ phase' = [phase EXCEPT ![Default] = "stopped"]
        /\ satisfied' = SingletonCreated(satisfied, published', phase', Default)
    BY <1>3, <1>5, <1>6 DEF InitUser, Publish
  <2>2. PICK reply \in UseReplies :
          import' = Announce([import EXCEPT ![u] = init], phase', Default, reply)
    BY <1>3, <1>5, <1>6 DEF InitUser
  <2>3. S = {} /\ Default \in Interfaces /\ phase[Default] = "absent"
    <3>1. S = {}
      BY <1>2, <1>6 DEF Range
    <3> QED
      BY <1>2, <3>1, Typed, RegistryAssumption
  <2>4. EntryInv(published', phase', satisfied') /\ Range(published') = {} \cup {Default}
    BY <1>2, <2>1, <2>3, PublishKeeps DEF IInv
  <2>5. PICK new \in PhaseMap : new = phase'
    BY <2>4 DEF EntryInv
  <2>6. /\ new[Default] = "stopped" /\ \A j \in Interfaces \ {Default} : new[j] = phase[j]
    BY <1>4, <2>1, <2>3, <2>5 DEF PhaseMap
  <2>7. \A j \in Interfaces : new[j] = phase[j]
          \/ (phase[j] # "running" /\ new[j] \notin {"running", "pending"})
    BY <2>3, <2>6
  <2>8. ASSUME NEW v \in Users PROVE PartInv(import'[v], {Default}, new, stopping)
    <3>1. PartInv(import[v], {}, phase, stopping) /\ import[v].failed = None
      BY <1>1, <1>2, <2>3 DEF IInv
    <3>2. PartInv(import[v], {}, new, stopping)
      BY <1>4, <2>7, <3>1, PhaseKept
    <3>3. CASE v = u
      <4>1. PartInv(Created(init, new, Default, reply), {Default}, new, stopping)
        BY <1>3, <1>4, <1>6, <2>6, <3>2, <3>3, CreatedFirst
      <4>2. [import EXCEPT ![u] = init][u] = init
        BY DEF IInv
      <4>3. import'[v] = Created(init, new, Default, reply)
        BY <2>2, <2>5, <3>3, <4>2 DEF Announce
      <4> QED
        BY <4>1, <4>3
    <3>4. CASE v # u
      <4>1. PartInv(Created(import[v], new, Default, reply), {} \cup {Default}, new, stopping)
        BY <2>3, <2>6, <3>1, <3>2, CreatedKeeps
      <4>2. [import EXCEPT ![u] = init][v] = import[v]
        BY <3>4 DEF IInv
      <4>3. import'[v] = Created(import[v], new, Default, reply) /\ {} \cup {Default} = {Default}
        BY <2>2, <2>5, <4>2 DEF Announce
      <4> QED
        BY <4>1, <4>3
    <3> QED
      BY <3>3, <3>4
  <2>9. DOMAIN import' = Users
    BY <2>2 DEF Announce
  <2>10. /\ stopping' = stopping /\ stopping' \subseteq Interfaces /\ closing' \in BOOLEAN
         /\ {} \cup {Default} = {Default}
    BY <1>1 DEF IInv
  <2> QED
    BY <2>4, <2>5, <2>8, <2>9, <2>10 DEF IInv
<1>7. CASE ~(published = <<>> /\ r.default)
  <2> DEFINE uses == {i \in Range(published) : Flags[i] # "ignore"}
             new == IF init.kind # "DynDependencies" THEN SelectFront(init, published)
                    ELSE [init EXCEPT !.map = [i \in uses |-> [NewUse EXCEPT !.connected = TRUE]]]
  <2>1. import' = [import EXCEPT ![u] = new] /\ UNCHANGED registryVars
    BY <1>3, <1>5, <1>7 DEF InitUser
  <2>2. PartInv(new, Range(published), phase, stopping)
    BY <1>2, <1>4, InitKeeps
  <2>3. ImportStep(u, new)
    BY <1>1, <2>1 DEF ImportStep
  <2> QED
    BY <2>2, <2>3, ImportStepKeeps
<1> QED
  BY <1>6, <1>7

\* The steps of the services that own an import.
LEMMA UserStepKeeps ==
  ASSUME IInv, NEW u \in Users, UserStep(u)
  PROVE  IInv'
<1>1. CASE InitUser(u)
  BY <1>1, InitUserStep
<1>2. PICK S \in SUBSET Interfaces : S = Range(published)
  BY Typed
<1>3. PICK r : r = import[u]
  OBVIOUS
<1>4. /\ PartInv(r, S, phase, stopping) /\ r \in Part /\ r.kind \in Kinds
      /\ phase \in PhaseMap /\ published \in Lists /\ Sorted(published)
  BY <1>2, <1>3, Typed DEF IInv, PartInv, Part, Records
<1>5. Running => r.failed = None
  BY <1>3 DEF Running
<1>6. CASE DestroyUser(u)
  <2>1. r.default \in BOOLEAN /\ r.swaps \in BOOLEAN /\ (r.kind = "DynDependencies" => ~r.default)
    BY <1>4 DEF Part, Records, PartInv, UsesInv
  <2>2. PartInv(Fresh(r.kind, r.default, r.swaps), Range(published), phase, stopping)
    BY <1>2, <1>4, <2>1, FreshKeeps
  <2> QED
    BY <1>3, <1>6, <2>2, ImportStepKeeps DEF DestroyUser
<1>7. CASE LockUser(u)
  <2>1. /\ r.phase = "stopped" /\ r.sat /\ r.failed = None
        /\ \A i \in Strong(r) : phase[i] = "running"
    BY <1>3, <1>5, <1>7 DEF LockUser
  <2>2. CASE r.kind = "DynDependencies"
    <3>1. PartInv([UsesLock(r, phase) EXCEPT !.phase = "locked"], S, phase, stopping)
      BY <1>4, <2>1, <2>2, UsesLockKeeps
    <3>2. ImportStep(u, [UsesLock(r, phase) EXCEPT !.phase = "locked"])
      BY <1>3, <1>7, <2>2 DEF LockUser
    <3> QED
      BY <1>2, <3>1, <3>2, ImportStepKeeps
  <2>3. CASE r.kind # "DynDependencies"
    <3>1. PartInv([SelectorLock(r, phase) EXCEPT !.phase = "locked"], S, phase, stopping)
      BY <1>4, <2>1, <2>3, SelectorLockKeeps
    <3>2. ImportStep(u, [SelectorLock(r, phase) EXCEPT !.phase = "locked"])
      BY <1>3, <1>7, <2>3 DEF LockUser
    <3> QED
      BY <1>2, <3>1, <3>2, ImportStepKeeps
  <2> QED
    BY <2>2, <2>3
<1>8. CASE RunUser(u)
  <2>1. r.phase = "locked" /\ r.failed = None /\ ImportStep(u, [r EXCEPT !.phase = "running"])
    BY <1>3, <1>5, <1>8 DEF RunUser
  <2>2. PartInv([r EXCEPT !.phase = "running"], S, phase, stopping)
    BY <1>4, <2>1, RunKeeps
  <2> QED
    BY <1>2, <2>1, <2>2, ImportStepKeeps
<1>9. CASE UnlockUser(u)
  <2>1. r.phase = "running" /\ r.failed = None
    BY <1>3, <1>5, <1>9 DEF UnlockUser
  <2>2. CASE r.kind = "Dependency"
    <3> DEFINE new == [DependencyUnlock(r, published) EXCEPT !.phase = "stopped", !.marked = FALSE]
    <3>1. PartInv(new, Range(published), phase, stopping)
      BY <1>2, <1>4, <2>1, <2>2, DependencyUnlocked
    <3>2. ImportStep(u, new)
      BY <1>3, <1>9, <2>2 DEF UnlockUser, IsDyn
    <3> QED
      BY <3>1, <3>2, ImportStepKeeps
  <2>3. CASE IsDyn(r)
    <3> DEFINE new == [DynUnlock(r) EXCEPT !.phase = "stopped", !.marked = FALSE]
    <3>1. PartInv(new, Range(published), phase, stopping)
      BY <1>2, <1>4, <2>1, <2>3, DynUnlocked
    <3>2. ImportStep(u, new)
      BY <1>3, <1>9, <2>3 DEF UnlockUser, IsDyn
    <3> QED
      BY <3>1, <3>2, ImportStepKeeps
  <2>4. CASE r.kind = "DynDependencies"
    <3> DEFINE new == [UsesUnlock(r) EXCEPT !.phase = "stopped", !.marked = FALSE]
    <3>1. PartInv(new, Range(published), phase, stopping)
      BY <1>2, <1>4, <2>1, <2>4, UsesUnlockKeeps
    <3>2. ImportStep(u, new)
      BY <1>3, <1>9, <2>4 DEF UnlockUser, IsDyn
    <3> QED
      BY <3>1, <3>2, ImportStepKeeps
  <2> QED
    BY <1>4, <2>2, <2>3, <2>4 DEF Kinds, IsDyn
<1>10. CASE RunSwap(u)
  <2> DEFINE new == [r EXCEPT !.task = IF r.phase = "running" THEN "granted" ELSE None]
  <2>1. r.task = "offered" /\ r.failed = None /\ ImportStep(u, new)
    BY <1>3, <1>5, <1>10 DEF RunSwap
  <2>2. PartInv(new, Range(published), phase, stopping)
    BY <1>2, <1>4, <2>1, RunSwapKeeps
  <2> QED
    BY <2>1, <2>2, ImportStepKeeps
<1>11. CASE ApplySwap(u)
  <2> DEFINE stored == [r EXCEPT !.ptr = r.pref]
             applied == [stored EXCEPT !.task = "applied"]
  <2>1. /\ r.task = "granted" /\ r.failed = None
        /\ ImportStep(u, Finalize(stored, published)) \/ ImportStep(u, applied)
    BY <1>3, <1>5, <1>11 DEF ApplySwap
  <2>2. PartInv(applied, Range(published), phase, stopping)
    BY <1>2, <1>4, <2>1, ApplySwapKeeps
  <2>3. PartInv(Finalize(stored, published), Range(published), phase, stopping)
    BY <1>2, <1>4, <2>1, ApplyFinalize
  <2> HIDE DEF applied, stored
  <2> QED
    BY <2>1, <2>2, <2>3, ImportStepKeeps
<1>12. CASE FinalizeSwap(u)
  <2>1. r.task = "applied" /\ r.failed = None /\ ImportStep(u, Finalize(r, published))
    BY <1>3, <1>5, <1>12 DEF FinalizeSwap
  <2>2. PartInv(Finalize(r, published), Range(published), phase, stopping)
    BY <1>2, <1>4, <2>1, FinalizeKeeps
  <2> QED
    BY <2>1, <2>2, ImportStepKeeps
<1>13. ASSUME NEW i \in Interfaces, AcquireUsage(u, i) PROVE IInv'
  <2> DEFINE new == SetUse(r, i, [UseOf(r, i) EXCEPT !.connected = TRUE, !.stored = "unknown"])
  <2>1. r.kind = "DynDependencies" /\ Held(r) /\ i \in S /\ ImportStep(u, new)
    BY <1>2, <1>3, <1>13 DEF AcquireUsage
  <2>2. PartInv(new, Range(published), phase, stopping)
    BY <1>2, <1>4, <2>1, AcquireKeeps
  <2> QED
    BY <2>1, <2>2, ImportStepKeeps
<1>14. ASSUME NEW i \in Interfaces, ReleaseUsage(u, i) PROVE IInv'
  <2> DEFINE base == [r EXCEPT !.asked = r.asked \ {i}]
             new == SetUse(base, i, [base.map[i] EXCEPT !.connected = FALSE, !.stored = "erased"])
  <2>1. r \in Part
    BY <1>4 DEF PartInv
  <2>2. /\ base.map = r.map /\ base.kind = r.kind /\ base.phase = r.phase
        /\ [r EXCEPT !.marked = r.marked, !.asked = r.asked \ {i}] = base
    BY <2>1 DEF Part, Records
  <2>3. r.kind = "DynDependencies" /\ Held(r) /\ i \in DOMAIN r.map /\ ImportStep(u, new)
    BY <1>3, <1>14, <2>2 DEF ReleaseUsage
  <2>4. PICK asked \in SUBSET Interfaces : asked = r.asked \ {i}
    BY <2>1 DEF Part, Records
  <2>5. r.marked \in BOOLEAN /\ r.phase # "absent"
    BY <2>1, <2>3 DEF Part, Records, Held
  <2>6. PartInv([r EXCEPT !.marked = r.marked, !.asked = asked], S, phase, stopping)
    BY <1>2, <1>4, <2>5, MarkedKeeps
  <2>7. PartInv(base, S, phase, stopping)
    BY <2>2, <2>4, <2>6
  <2>8. base.kind = "DynDependencies" /\ Held(base) /\ i \in DOMAIN base.map
    BY <2>2, <2>3 DEF Held
  <2> HIDE DEF base
  <2>9. PartInv(new, Range(published), phase, stopping)
    BY <1>2, <1>4, <2>7, <2>8, ReleaseKeeps
  <2> QED
    BY <2>3, <2>9, ImportStepKeeps
<1> QED
  BY <1>1, <1>6, <1>7, <1>8, <1>9, <1>10, <1>11, <1>12, <1>13, <1>14 DEF UserStep

-----------------------------------------------------------------------------
(* The results. *)

\* The strengthened invariant holds of every reachable state.
THEOREM Invariance == Spec => []IInv
<1>1. Init => IInv
  <2> SUFFICES ASSUME Init PROVE IInv
    OBVIOUS
  <2>1. Range(<<>>) = {} /\ <<>> \in Lists /\ DOMAIN <<>> = {}
    BY DEF Range, Lists
  <2>2. Sorted(<<>>)
    BY <2>1 DEF Sorted
  <2>3. published = <<>> /\ phase = [i \in Interfaces |-> "absent"] /\ satisfied = Singletons
    BY DEF Init, RegistryInit
  <2>4. phase \in PhaseMap /\ \A i \in Interfaces : phase[i] = "absent"
    BY <2>3 DEF PhaseMap, Phases
  <2>5. EntryInv(published, phase, satisfied)
    BY <2>1, <2>2, <2>3, <2>4 DEF EntryInv
  <2>6. ASSUME NEW u \in Users PROVE PartInv(import[u], {}, phase, stopping)
    <3>1. PICK k \in Kinds, d \in BOOLEAN, w \in BOOLEAN : import[u] = Fresh(k, d, w)
      BY DEF Init
    <3>2. import[u].kind = k /\ import[u].default = d
      BY <3>1 DEF Fresh
    <3>3. k = "DynDependencies" => ~d
      BY <3>2 DEF Init
    <3> QED
      BY <2>4, <3>1, <3>3, FreshKeeps
  <2>7. DOMAIN import = Users /\ stopping = {} /\ closing = FALSE
    BY DEF Init
  <2> QED
    BY <2>1, <2>3, <2>5, <2>6, <2>7 DEF IInv
<1>2. IInv /\ [Next]_vars => IInv'
  <2> SUFFICES ASSUME IInv, [Next]_vars PROVE IInv'
    OBVIOUS
  <2>1. CASE UNCHANGED vars
    BY <2>1 DEF vars, registryVars, IInv
  <2>2. ASSUME NEW i \in Interfaces, ServiceStep(i) PROVE IInv'
    BY <2>2, ServiceStepKeeps
  <2>3. ASSUME NEW u \in Users, UserStep(u) PROVE IInv'
    BY <2>3, UserStepKeeps
  <2>4. CASE CloseRegistry
    BY <2>4, CloseRegistryStep
  <2> QED
    BY <2>1, <2>2, <2>3, <2>4 DEF Next
<1> QED
  BY <1>1, <1>2, PTL DEF Spec

\* The variables keep their types.
THEOREM TypeCorrect == Spec => []TypeOK
<1>1. IInv => TypeOK
  <2> SUFFICES ASSUME IInv PROVE TypeOK
    OBVIOUS
  <2>1. RegistryTypeOK
    <3>1. IsInjective(published)
      BY Typed, ListFacts
    <3> QED
      BY <3>1 DEF IInv, EntryInv, RegistryTypeOK, Lists, PhaseMap
  <2>2. ASSUME NEW u \in Users
        PROVE  LET r == import[u] IN
               /\ r.kind \in Kinds /\ r.phase \in {"absent", "stopped", "locked", "running"}
               /\ {r.marked, r.sat, r.pending} \subseteq BOOLEAN
               /\ {r.active, r.pref, r.ptr} \subseteq Interfaces \cup {None}
               /\ r.task \in {None, "offered", "granted", "applied"}
               /\ DOMAIN r.map \subseteq Interfaces /\ Range(r.map) \subseteq Uses
               /\ r.asked \subseteq Interfaces
    <3>1. PICK r \in Part : r = import[u]
      BY DEF IInv, PartInv
    <3>2. \A i \in DOMAIN r.map : i \in Interfaces /\ r.map[i] \in Uses
      BY UseFacts
    <3>3. Range(r.map) \subseteq Uses
      BY <3>2 DEF Range
    <3> QED
      BY <3>1, <3>2, <3>3 DEF Part, Records, Maybe
  <2> QED
    BY <2>1, <2>2 DEF TypeOK, IInv
<1> QED
  BY <1>1, Invariance, PTL

\* The selection of an import that is not locked is current.
THEOREM SelectionsCurrent == Spec => []SelectionCurrent
<1>1. IInv => SelectionCurrent
  <2> SUFFICES ASSUME IInv, Running, NEW u \in Users, import[u].phase = "stopped"
               PROVE  LET r == import[u] IN
                 /\ Connected(r) \subseteq Range(published)
                 /\ r.kind # "DynDependencies" =>
                      (r.sat <=> published # <<>>) /\ (r.sat <=> r.active # None)
                 /\ r.kind = "Dependency" =>
                      \A i \in Range(published) : ~Greater(i, r.active)
    BY DEF SelectionCurrent
  <2>1. PICK r : r = import[u]
    OBVIOUS
  <2>2. PartInv(r, Range(published), phase, stopping) /\ r.failed = None /\ r.phase = "stopped"
    BY <2>1 DEF IInv, Running
  <2>3. published = <<>> <=> Range(published) = {}
    BY Typed, ListFacts
  <2>4. CASE r.kind = "DynDependencies"
    BY <2>1, <2>2, <2>4 DEF PartInv, UsesInv, Connected
  <2>5. CASE r.kind # "DynDependencies"
    <3>1. StoppedInv(r, Range(published))
      BY <2>2, <2>5 DEF PartInv, SelectorInv
    <3>2. Connected(r) \subseteq Range(published)
      BY <2>5, <3>1 DEF StoppedInv, NoSwap, Connected
    <3> QED
      BY <2>1, <2>3, <2>5, <3>1, <3>2 DEF StoppedInv
  <2> QED
    BY <2>4, <2>5
<1> QED
  BY <1>1, Invariance, PTL

\* A swap is never offered twice, only the preferred interface starts late, and
\* nothing of a swap is left at the next lock.
THEOREM SwapsSafe == Spec => []SwapAssertionsHold
<1>1. IInv => SwapAssertionsHold
  BY DEF IInv, PartInv, Part, Records, SwapAssertionsHold, None
<1> QED
  BY <1>1, Invariance, PTL

\* What a locked user works with is an interface of a running service.
THEOREM PointersUsable == Spec => []PointerUsable
<1>1. IInv => PointerUsable
  <2> SUFFICES ASSUME IInv, Running, NEW u \in Users
               PROVE  LET r == import[u] IN
                 /\ r.ptr # None => phase[r.ptr] = "running"
                 /\ Held(r) /\ r.kind = "Dependency" => phase[r.active] = "running"
    BY DEF PointerUsable
  <2>1. PICK r : r = import[u]
    OBVIOUS
  <2>2. PartInv(r, Range(published), phase, stopping) /\ r.failed = None /\ r \in Part
    BY <2>1 DEF IInv, Running, PartInv
  <2>3. r.kind \in Kinds /\ r.phase \in {"absent", "stopped", "locked", "running"}
    BY <2>2 DEF Part, Records
  <2>4. CASE r.kind = "DynDependencies"
    BY <2>1, <2>2, <2>4 DEF PartInv, UsesInv, NoSwap
  <2>5. CASE r.kind # "DynDependencies" /\ ~Held(r)
    BY <2>1, <2>2, <2>3, <2>5 DEF PartInv, SelectorInv, AbsentInv, StoppedInv, NoSwap, Held
  <2>6. CASE r.kind # "DynDependencies" /\ Held(r)
    <3>1. HeldInv(r, Range(published), phase)
      BY <2>2, <2>6 DEF PartInv, SelectorInv
    <3>2. r.kind = "Dependency" \/ IsDyn(r)
      BY <2>3, <2>6 DEF Kinds, IsDyn
    <3>3. CASE r.kind = "Dependency"
      BY <2>1, <3>1, <3>3 DEF HeldInv, NoSwap
    <3>4. CASE IsDyn(r) /\ r.task = "applied"
      BY <2>1, <3>1, <3>4 DEF HeldInv, None, IsDyn
    <3>5. CASE IsDyn(r) /\ r.task # "applied"
      BY <2>1, <3>1, <3>5 DEF HeldInv, IsDyn
    <3> QED
      BY <3>2, <3>3, <3>4, <3>5
  <2> QED
    BY <2>4, <2>5, <2>6
<1> QED
  BY <1>1, Invariance, PTL

\* The storage of a locked DynDependencies is backed by its usages.
THEOREM StorageIsBacked == Spec => []StorageBacked
<1>1. IInv => StorageBacked
  <2> SUFFICES ASSUME IInv, NEW u \in Users, Held(import[u]),
                      NEW i \in DOMAIN import[u].map, import[u].map[i].stored # "erased"
               PROVE  /\ import[u].map[i].connected
                      /\ phase[i] # "absent"
                      /\ import[u].map[i].stored = "inserted" => phase[i] # "pending"
    BY DEF StorageBacked
  <2>1. PartInv(import[u], Range(published), phase, stopping)
    BY DEF IInv
  <2>2. CASE import[u].kind = "DynDependencies"
    <3>1. UsesInv(import[u], Range(published), phase, stopping)
      BY <2>1, <2>2 DEF PartInv
    <3>2. i \in Range(published) /\ i \in Interfaces
      BY <3>1, Typed DEF UsesInv
    <3> QED
      BY <3>1, <3>2, Typed DEF UsesInv
  <2>3. CASE import[u].kind # "DynDependencies"
    BY <2>1, <2>3 DEF PartInv, Part, Records
  <2> QED
    BY <2>2, <2>3
<1> QED
  BY <1>1, Invariance, PTL

\* A DynDependencies that is not locked is connected to all its filter passes,
\* save what is about to stop.
THEOREM NoneMissed == Spec => []NothingMissed
<1>1. IInv => NothingMissed
  BY DEF IInv, PartInv, UsesInv, Idle, NothingMissed, Connected, Alive
<1> QED
  BY <1>1, Invariance, PTL

\* The Singleton of the most preferred interface does not starve.
THEOREM NotStarved == Spec => []SingletonNotStarved
<1>1. IInv => SingletonNotStarved
  <2> SUFFICES ASSUME IInv, published # <<>>, \A i \in Interfaces : ~IsLocked(phase, i)
               PROVE  Head(published) \in satisfied \cup (Interfaces \ Singletons)
    BY DEF SingletonNotStarved
  <2>1. Head(published) \in Interfaces
    BY Typed, ListFacts DEF IsTop
  <2> QED
    BY <2>1 DEF IInv, EntryInv
<1> QED
  BY <1>1, Invariance, PTL
=============================================================================
