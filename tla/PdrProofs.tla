----------------------------- MODULE PdrProofs -----------------------------
(***************************************************************************)
(* Proofs about PdrRepo and PdrReader, for up to four ports, any records   *)
(* in flash, sizes, pools and parts, and any number of lost responses.     *)
(*                                                                         *)
(* A handler composes operations on repositories.  Each takes a repository *)
(* that is Sound to one it Reaches: Sound again, other than before only in *)
(* the records that were handled, and with events that tell the way there. *)
(* Ports and the records in flash come one after the other, which is an    *)
(* induction.  A controller then relies on what a step Moves: a record's   *)
(* data change only with its change number, and records that stay stay in  *)
(* order.                                                                  *)
(***************************************************************************)
EXTENDS PdrReader, FiniteSetTheorems, WellFoundedInduction, TLAPS

(***************************************************************************)
(* Induction over the naturals, by least elements: the theorems of the     *)
(* library that name the property to prove by an operator cannot be used.  *)
(***************************************************************************)
Less == {pair \in Nat \X Nat : pair[1] < pair[2]}

\* Less is the relation of the library's theorem about the naturals.
LEMMA LessIsWellFounded == IsWellFoundedOn(Less, Nat)
<1>1. OpToRel(<, Nat) = Less
  BY Zenon DEF OpToRel, Less
<1>2. QED
  BY <1>1, NatLessThanWellFounded

\* A set of naturals that holds a number has a least one.
LEMMA LeastElement ==
  ASSUME NEW S \in SUBSET Nat, S # {}
  PROVE  \E x \in S : \A y \in S : x <= y
<1>1. PICK x \in S : \A y \in S : <<y, x>> \notin Less
  BY LessIsWellFounded, WFMin
<1>2. ASSUME NEW y \in S
      PROVE  x <= y
  <2>1. x \in Nat /\ y \in Nat
    OBVIOUS
  <2>2. ~(y < x)
    BY <1>1, <2>1 DEF Less
  <2>3. QED
    BY <2>1, <2>2
<1>3. QED
  BY <1>2

\* A set that holds 0, and n + 1 with every n, holds every number.
LEMMA Induction ==
  ASSUME NEW S, 0 \in S, \A n \in Nat : n \in S => n + 1 \in S
  PROVE  \A n \in Nat : n \in S
<1> DEFINE Others == {n \in Nat : n \notin S}
<1>1. Others = {}
  <2> SUFFICES ASSUME Others # {}
               PROVE  FALSE
    OBVIOUS
  <2>1. PICK x \in Others : \A y \in Others : x <= y
    <3>1. Others \in SUBSET Nat
      OBVIOUS
    <3>2. QED
      BY <3>1, LeastElement
  <2>2. x \in Nat /\ x \notin S /\ x # 0
    OBVIOUS
  <2>3. x - 1 \in Nat /\ ~(x <= x - 1)
    BY <2>2
  <2>4. x - 1 \in S
    BY <2>1, <2>3
  <2>5. (x - 1) + 1 \in S
    BY <2>3, <2>4
  <2>6. QED
    BY <2>2, <2>5
<1>2. QED
  BY <1>1

(***************************************************************************)
(* Lists.                                                                  *)
(***************************************************************************)
Sorted(list) == \A i, j \in DOMAIN list : i < j => list[i] < list[j]

\* Two sequences one behind the other.
LEMMA ConcatPlaces ==
  ASSUME NEW S, NEW s \in Seq(S), NEW t \in Seq(S), NEW m, NEW n, m = Len(s), n = Len(t)
  PROVE  /\ s \o t \in Seq(S) /\ Len(s \o t) = m + n
         /\ \A k \in 1 .. m + n : (s \o t)[k] = IF k <= m THEN s[k] ELSE t[k - m]
  OBVIOUS

\* What InsertAt puts where.
LEMMA InsertAtPlaces ==
  ASSUME NEW S, NEW list \in Seq(S), NEW h \in S, NEW i \in 1 .. Len(list) + 1
  PROVE  /\ InsertAt(list, i, h) \in Seq(S)
         /\ Len(InsertAt(list, i, h)) = Len(list) + 1
         /\ \A k \in 1 .. Len(list) + 1 :
              InsertAt(list, i, h)[k] = IF k < i THEN list[k] ELSE IF k = i THEN h ELSE list[k - 1]
<1> DEFINE front == SubSeq(list, 1, i - 1)
           back == SubSeq(list, i, Len(list))
<1>1. front \in Seq(S) /\ Len(front) = i - 1 /\ \A k \in 1 .. i - 1 : front[k] = list[k]
  OBVIOUS
<1>2. back \in Seq(S) /\ Len(back) = Len(list) - i + 1
      /\ \A k \in 1 .. Len(list) - i + 1 : back[k] = list[k + i - 1]
  OBVIOUS
<1>3. InsertAt(list, i, h) = front \o <<h>> \o back
  BY DEF InsertAt
<1> HIDE DEF front, back
<1>4. front \o <<h>> \in Seq(S) /\ Len(front \o <<h>>) = i
      /\ \A k \in 1 .. i : (front \o <<h>>)[k] = IF k < i THEN list[k] ELSE h
  BY <1>1
<1> DEFINE start == front \o <<h>>
<1>5. start \in Seq(S) /\ Len(start) = i
      /\ \A k \in 1 .. i : start[k] = IF k < i THEN list[k] ELSE h
  BY <1>4
<1>6. InsertAt(list, i, h) = start \o back
  BY <1>3
<1> HIDE DEF start
<1> DEFINE new == InsertAt(list, i, h)
           n == Len(list)
<1>7. i \in Nat /\ n \in Nat /\ 1 <= i /\ i <= n + 1 /\ n - i + 1 = Len(back)
  BY <1>2
<1>8. /\ new \in Seq(S) /\ Len(new) = i + (n - i + 1)
      /\ \A k \in 1 .. i + (n - i + 1) : new[k] = IF k <= i THEN start[k] ELSE back[k - i]
  BY <1>2, <1>5, <1>6, <1>7, ConcatPlaces
<1> HIDE DEF new, n
<1>9. Len(new) = n + 1
  BY <1>7, <1>8
<1>10. ASSUME NEW k \in 1 .. n + 1
       PROVE  new[k] = IF k < i THEN list[k] ELSE IF k = i THEN h ELSE list[k - 1]
  <2>1. k \in 1 .. i + (n - i + 1)
    BY <1>7
  <2>2. CASE k <= i
    <3>1. k \in 1 .. i
      BY <1>7, <2>2
    <3>2. QED
      BY <1>5, <1>8, <2>1, <2>2, <3>1
  <2>3. CASE k > i
    <3>1. k - i \in 1 .. n - i + 1 /\ (k - i) + i - 1 = k - 1 /\ ~(k <= i) /\ ~(k < i) /\ k # i
      BY <1>7, <2>3
    <3>2. back[k - i] = list[k - 1]
      BY <1>2, <3>1 DEF n
    <3>3. QED
      BY <1>8, <2>1, <3>1, <3>2
  <2>4. QED
    BY <1>7, <2>2, <2>3
<1>11. QED
  BY <1>8, <1>9, <1>10 DEF new, n

\* What RemoveAt leaves where.
LEMMA RemoveAtPlaces ==
  ASSUME NEW S, NEW list \in Seq(S), NEW i \in 1 .. Len(list)
  PROVE  /\ RemoveAt(list, i) \in Seq(S)
         /\ Len(RemoveAt(list, i)) = Len(list) - 1
         /\ \A k \in 1 .. Len(list) - 1 :
              RemoveAt(list, i)[k] = IF k < i THEN list[k] ELSE list[k + 1]
<1> DEFINE front == SubSeq(list, 1, i - 1)
           back == SubSeq(list, i + 1, Len(list))
<1>1. front \in Seq(S) /\ Len(front) = i - 1 /\ \A k \in 1 .. i - 1 : front[k] = list[k]
  OBVIOUS
<1>2. back \in Seq(S) /\ Len(back) = Len(list) - i
      /\ \A k \in 1 .. Len(list) - i : back[k] = list[k + i]
  OBVIOUS
<1>3. RemoveAt(list, i) = front \o back
  BY DEF RemoveAt
<1> HIDE DEF front, back
<1> DEFINE new == RemoveAt(list, i)
           n == Len(list)
<1>4. i \in Nat /\ n \in Nat /\ 1 <= i /\ i <= n /\ n - i = Len(back) /\ i - 1 = Len(front)
  BY <1>1, <1>2
<1>5. new = front \o back /\ front \in Seq(S) /\ back \in Seq(S)
  BY <1>1, <1>2, <1>3
<1> HIDE DEF new, n
<1> DEFINE m == i - 1
           o == n - i
<1>6. m = Len(front) /\ o = Len(back)
  BY <1>4
<1> HIDE DEF m, o
<1>7. /\ new \in Seq(S) /\ Len(new) = m + o
      /\ \A k \in 1 .. m + o : new[k] = IF k <= m THEN front[k] ELSE back[k - m]
  BY <1>5, <1>6, ConcatPlaces
<1>8. /\ new \in Seq(S) /\ Len(new) = (i - 1) + (n - i)
      /\ \A k \in 1 .. (i - 1) + (n - i) : new[k] = IF k <= i - 1 THEN front[k] ELSE back[k - (i - 1)]
  BY <1>7 DEF m, o
<1>9. Len(new) = n - 1
  BY <1>4, <1>8
<1>10. ASSUME NEW k \in 1 .. n - 1
       PROVE  new[k] = IF k < i THEN list[k] ELSE list[k + 1]
  <2>1. k \in 1 .. (i - 1) + (n - i)
    BY <1>4
  <2>2. CASE k < i
    <3>1. k \in 1 .. i - 1 /\ k <= i - 1
      BY <1>4, <2>2
    <3>2. QED
      BY <1>1, <1>8, <2>1, <2>2, <3>1
  <2>3. CASE ~(k < i)
    <3>1. k - (i - 1) \in 1 .. n - i /\ (k - (i - 1)) + i = k + 1 /\ ~(k <= i - 1)
      BY <1>4, <2>3
    <3>2. back[k - (i - 1)] = list[k + 1]
      BY <1>2, <3>1 DEF n
    <3>3. QED
      BY <1>8, <2>1, <2>3, <3>1, <3>2
  <2>4. QED
    BY <2>2, <2>3
<1>11. QED
  BY <1>8, <1>9, <1>10 DEF new, n

\* A record is inserted where it belongs, and the list stays sorted.
LEMMA InsertKeepsOrder ==
  ASSUME NEW S \in SUBSET Nat, NEW list \in Seq(S), Sorted(list), NEW h \in S, h \notin ToSet(list)
  PROVE  /\ InsertInOrder(list, h) \in Seq(S)
         /\ Len(InsertInOrder(list, h)) = Len(list) + 1
         /\ Sorted(InsertInOrder(list, h))
         /\ ToSet(InsertInOrder(list, h)) = ToSet(list) \cup {h}
<1> DEFINE Fitting(i) == /\ \A j \in 1 .. i - 1 : list[j] < h
                         /\ i <= Len(list) => list[i] >= h
           at == CHOOSE i \in 1 .. Len(list) + 1 : Fitting(i)
           new == InsertInOrder(list, h)
<1>0. h \in Nat /\ Len(list) \in Nat /\ \A k \in 1 .. Len(list) : list[k] \in Nat
  <2>1. \A x \in S : x \in Nat
    OBVIOUS
  <2>2. Len(list) \in Nat /\ \A k \in 1 .. Len(list) : list[k] \in S
    OBVIOUS
  <2>3. QED
    BY <2>1, <2>2
<1>1. \E i \in 1 .. Len(list) + 1 : Fitting(i)
  <2> DEFINE Late == {i \in 1 .. Len(list) + 1 : i <= Len(list) => list[i] >= h}
  <2>1. Len(list) + 1 \in Late /\ Late \in SUBSET Nat
    OBVIOUS
  <2>2. PICK i \in Late : \A j \in Late : i <= j
    BY <2>1, LeastElement
  <2>3. ASSUME NEW j \in 1 .. i - 1
        PROVE  list[j] < h
    <3>1. j \in 1 .. Len(list) /\ ~(i <= j)
      BY <2>2
    <3>2. j \notin Late
      BY <2>2, <3>1
    <3>3. j \in 1 .. Len(list) + 1 /\ list[j] \in Nat /\ ~(list[j] >= h)
      BY <1>0, <3>1, <3>2
    <3>4. QED
      BY <1>0, <3>3
  <2>4. QED
    BY <2>2, <2>3
<1>2. at \in 1 .. Len(list) + 1 /\ Fitting(at)
  BY <1>1
<1>3. new = InsertAt(list, at, h)
  BY DEF InsertInOrder
<1> DEFINE n == Len(list)
<1> HIDE DEF at, new
<1>4. /\ at \in 1 .. n + 1 /\ n \in Nat
      /\ new \in Seq(S) /\ Len(new) = n + 1
      /\ \A k \in 1 .. n + 1 :
           new[k] = IF k < at THEN list[k] ELSE IF k = at THEN h ELSE list[k - 1]
  <2>1. at \in 1 .. n + 1 /\ n \in Nat
    BY <1>2
  <2>2. at \in 1 .. Len(list) + 1
    BY <1>2
  <2> DEFINE put == InsertAt(list, at, h)
  <2>3. /\ put \in Seq(S) /\ Len(put) = Len(list) + 1
        /\ \A k \in 1 .. Len(list) + 1 :
             put[k] = IF k < at THEN list[k] ELSE IF k = at THEN h ELSE list[k - 1]
    BY <2>2, InsertAtPlaces
  <2>4. new = put
    BY <1>3
  <2> HIDE DEF put
  <2>5. QED
    BY <2>1, <2>3, <2>4
<1>5. Sorted(new)
  <2>1. \A k, m \in 1 .. n : k < m => list[k] < list[m]
    BY DEF Sorted
  <2>2. ASSUME NEW k \in 1 .. n, k >= at
        PROVE  h < list[k]
    <3>1. at \in 1 .. n
      BY <1>4, <2>2
    <3>2. list[at] >= h /\ list[at] # h
      <4>1. list[at] \in ToSet(list)
        BY <3>1 DEF ToSet
      <4>2. QED
        BY <1>2, <3>1, <4>1
    <3>3. k = at \/ list[at] < list[k]
      BY <2>1, <2>2, <3>1
    <3>4. list[at] \in Nat /\ list[k] \in Nat
      BY <1>0, <3>1
    <3>5. QED
      BY <1>0, <3>2, <3>3, <3>4
  <2>3. \A k \in 1 .. at - 1 : list[k] < h
    BY <1>2
  <2> DEFINE old(k) == IF k < at THEN k ELSE k - 1
  <2>4. \A k \in 1 .. n + 1 : k # at => old(k) \in 1 .. n /\ new[k] = list[old(k)]
    BY <1>4
  <2>5. ASSUME NEW i \in 1 .. n + 1, NEW j \in 1 .. n + 1, i < j
        PROVE  new[i] < new[j]
    <3>1. CASE j = at
      <4>1. i \in 1 .. at - 1 /\ i < at
        BY <1>4, <2>5, <3>1
      <4>2. new[i] = list[i] /\ new[j] = h
        BY <1>4, <3>1, <4>1
      <4>3. QED
        BY <2>3, <4>1, <4>2
    <3>2. CASE i = at
      <4>1. j - 1 \in 1 .. n /\ j - 1 >= at /\ ~(j < at) /\ j # at /\ ~(i < at)
        BY <1>4, <2>5, <3>2
      <4>2. new[i] = h /\ new[j] = list[j - 1]
        BY <1>4, <3>2, <4>1
      <4>3. QED
        BY <2>2, <4>1, <4>2
    <3>3. CASE i # at /\ j # at
      <4>1. old(i) < old(j)
        BY <1>4, <2>5, <3>3
      <4>2. old(i) \in 1 .. n /\ old(j) \in 1 .. n /\ new[i] = list[old(i)] /\ new[j] = list[old(j)]
        BY <2>4, <3>3
      <4> HIDE DEF old
      <4>3. QED
        BY <2>1, <4>1, <4>2
    <3>4. QED
      BY <3>1, <3>2, <3>3
  <2>6. QED
    BY <1>4, <2>5 DEF Sorted
<1>6. ToSet(new) = ToSet(list) \cup {h}
  <2>1. ASSUME NEW x \in ToSet(new)
        PROVE  x \in ToSet(list) \cup {h}
    <3>1. PICK k \in 1 .. Len(new) : x = new[k]
      BY <1>4 DEF ToSet
    <3>2. k \in 1 .. Len(list) \/ k - 1 \in 1 .. Len(list) \/ k = at
      BY <1>2, <1>4
    <3>3. x = h \/ (k \in 1 .. Len(list) /\ x = list[k]) \/ (k - 1 \in 1 .. Len(list) /\ x = list[k - 1])
      BY <1>2, <1>4, <3>1
    <3>4. QED
      BY <3>3 DEF ToSet
  <2>2. h \in ToSet(new)
    <3>1. DOMAIN new = 1 .. n + 1
      BY <1>4
    <3>2. at \in DOMAIN new /\ new[at] = h
      BY <1>4, <3>1
    <3>3. \E m \in DOMAIN new : new[m] = h
      BY <3>2
    <3>4. QED
      BY <3>3 DEF ToSet
  <2>3. ASSUME NEW x \in ToSet(list)
        PROVE  x \in ToSet(new)
    <3>1. PICK k \in 1 .. Len(list) : x = list[k]
      BY DEF ToSet
    <3>2. (k < at /\ new[k] = x) \/ (k >= at /\ new[k + 1] = x)
      <4>1. CASE k < at
        BY <1>4, <3>1, <4>1
      <4>2. CASE k >= at
        <5>1. k + 1 \in 1 .. Len(list) + 1 /\ ~(k + 1 < at) /\ k + 1 # at /\ (k + 1) - 1 = k
          BY <1>2, <4>2
        <5>2. QED
          BY <1>4, <3>1, <4>2, <5>1
      <4>3. QED
        BY <1>2, <4>1, <4>2
    <3>3. k \in 1 .. n + 1 /\ k + 1 \in 1 .. n + 1 /\ DOMAIN new = 1 .. n + 1
      BY <1>4
    <3>4. \E m \in DOMAIN new : new[m] = x
      BY <3>2, <3>3
    <3>5. QED
      BY <3>4 DEF ToSet
  <2>4. QED
    BY <2>1, <2>2, <2>3
<1>7. QED
  BY <1>4, <1>5, <1>6 DEF new

\* A record is taken out, and the others keep their order.
LEMMA WithoutKeepsOrder ==
  ASSUME NEW S, NEW list \in Seq(S), IsInjective(list), NEW h \in ToSet(list)
  PROVE  /\ Without(list, h) \in Seq(S)
         /\ Len(Without(list, h)) = Len(list) - 1 /\ Len(list) \in Nat \ {0}
         /\ IsInjective(Without(list, h))
         /\ Sorted(list) /\ S \subseteq Nat => Sorted(Without(list, h))
         /\ ToSet(Without(list, h)) = ToSet(list) \ {h}
<1> DEFINE at == Place(list, h)
           new == Without(list, h)
<1>1. at \in 1 .. Len(list) /\ list[at] = h
  <2>1. \E i \in DOMAIN list : list[i] = h
    BY DEF ToSet
  <2>2. QED
    BY <2>1 DEF Place
<1>2. new = RemoveAt(list, at)
  BY DEF Without
<1> HIDE DEF at, new
<1>3. new \in Seq(S) /\ Len(new) = Len(list) - 1
      /\ \A k \in 1 .. Len(list) - 1 : new[k] = IF k < at THEN list[k] ELSE list[k + 1]
  BY <1>1, <1>2, RemoveAtPlaces
<1>4. \A k, m \in 1 .. Len(list) : list[k] = list[m] => k = m
  BY DEF IsInjective
<1> DEFINE old(k) == IF k < at THEN k ELSE k + 1
<1>5. \A k \in 1 .. Len(new) : old(k) \in 1 .. Len(list) /\ old(k) # at /\ new[k] = list[old(k)]
  BY <1>1, <1>3
<1>6. \A k \in 1 .. Len(list) : k # at => \E m \in 1 .. Len(new) : old(m) = k
  <2> SUFFICES ASSUME NEW k \in 1 .. Len(list), k # at
               PROVE  \E m \in 1 .. Len(new) : old(m) = k
    OBVIOUS
  <2>1. CASE k < at
    <3>1. k \in 1 .. Len(new) /\ old(k) = k
      BY <1>1, <1>3, <2>1
    <3>2. QED
      BY <3>1
  <2>2. CASE k > at
    <3>1. k - 1 \in 1 .. Len(new) /\ ~(k - 1 < at) /\ (k - 1) + 1 = k
      BY <1>1, <1>3, <2>2
    <3>2. old(k - 1) = k
      BY <3>1
    <3>3. QED
      BY <3>1, <3>2
  <2>3. QED
    BY <1>1, <2>1, <2>2
<1>7. \A k, m \in 1 .. Len(new) : (old(k) = old(m) => k = m) /\ (k < m => old(k) < old(m))
  BY <1>1, <1>3
<1> HIDE DEF old
<1>8. IsInjective(new)
  <2>1. ASSUME NEW k \in 1 .. Len(new), NEW m \in 1 .. Len(new), new[k] = new[m]
        PROVE  k = m
    BY <1>4, <1>5, <1>7, <2>1
  <2>2. QED
    BY <1>3, <2>1 DEF IsInjective
<1>9. Sorted(list) => Sorted(new)
  <2>1. ASSUME Sorted(list), NEW k \in 1 .. Len(new), NEW m \in 1 .. Len(new), k < m
        PROVE  new[k] < new[m]
    <3>1. old(k) \in DOMAIN list /\ old(m) \in DOMAIN list /\ old(k) < old(m)
      BY <1>5, <1>7, <2>1
    <3>2. list[old(k)] < list[old(m)]
      BY <2>1, <3>1 DEF Sorted
    <3>3. QED
      BY <1>5, <3>2
  <2>2. QED
    BY <1>3, <2>1 DEF Sorted
<1>10. ToSet(new) = ToSet(list) \ {h}
  <2>1. ASSUME NEW x \in ToSet(new)
        PROVE  x \in ToSet(list) /\ x # h
    <3>1. PICK k \in 1 .. Len(new) : x = new[k]
      BY <1>3 DEF ToSet
    <3>2. x = list[old(k)] /\ old(k) \in 1 .. Len(list) /\ old(k) # at
      BY <1>5, <3>1
    <3>3. QED
      BY <1>1, <1>4, <3>2 DEF ToSet
  <2>2. ASSUME NEW x \in ToSet(list), x # h
        PROVE  x \in ToSet(new)
    <3>1. PICK k \in 1 .. Len(list) : x = list[k]
      BY DEF ToSet
    <3>2. PICK m \in 1 .. Len(new) : old(m) = k
      BY <1>1, <1>6, <2>2, <3>1
    <3>3. x = new[m] /\ m \in DOMAIN new
      BY <1>3, <1>5, <3>1, <3>2
    <3>4. QED
      BY <3>3 DEF ToSet
  <2>3. QED
    BY <2>1, <2>2
<1>11. Len(list) \in Nat \ {0}
  BY <1>1
<1>12. QED
  BY <1>3, <1>8, <1>9, <1>10, <1>11 DEF new

\* A sorted list has no record twice.
LEMMA SortedIsInjective ==
  ASSUME NEW S \in SUBSET Nat, NEW list \in Seq(S), Sorted(list)
  PROVE  IsInjective(list)
<1>0. \A k \in 1 .. Len(list) : list[k] \in Nat
  <2>1. \A x \in S : x \in Nat
    OBVIOUS
  <2>2. \A k \in 1 .. Len(list) : list[k] \in S
    OBVIOUS
  <2>3. QED
    BY <2>1, <2>2
<1>1. ASSUME NEW i \in 1 .. Len(list), NEW j \in 1 .. Len(list), i < j
      PROVE  list[i] # list[j]
  <2>1. list[i] < list[j]
    BY <1>1 DEF Sorted
  <2>2. QED
    BY <1>0, <2>1
<1>2. \A i, j \in 1 .. Len(list) : list[i] = list[j] => i = j
  BY <1>1
<1>3. QED
  BY <1>2 DEF IsInjective

(***************************************************************************)
(* Sizes.                                                                  *)
(***************************************************************************)
\* A list has finitely many records.
LEMMA ListIsFinite ==
  ASSUME NEW S, NEW list \in Seq(S)
  PROVE  IsFiniteSet(ToSet(list))
<1> DEFINE n == Len(list)
<1>1. n \in Nat /\ DOMAIN list = 1 .. n /\ list \in [1 .. n -> ToSet(list)]
  BY DEF ToSet
<1>2. IsFiniteSet(1 .. n)
  BY <1>1, FS_Interval
<1>3. \A x \in ToSet(list) : \E i \in 1 .. n : list[i] = x
  BY <1>1 DEF ToSet
<1>4. list \in Surjection(1 .. n, ToSet(list))
  BY <1>1, <1>3 DEF Surjection
<1>5. QED
  BY <1>2, <1>4, FS_Surjection

\* A record has as many bytes as its size says.
LEMMA BytesOfRecord ==
  ASSUME NEW h \in Handles
  PROVE  IsFiniteSet({h} \X (1 .. Sizes[h])) /\ Cardinality({h} \X (1 .. Sizes[h])) = Sizes[h]
         /\ Sizes[h] \in Nat \ {0}
<1>1. Sizes[h] \in Nat \ {0}
  BY SizesAssumption
<1>2. IsFiniteSet(1 .. Sizes[h]) /\ Cardinality(1 .. Sizes[h]) = Sizes[h]
  BY <1>1, FS_Interval
<1>3. IsFiniteSet({h}) /\ Cardinality({h}) = 1
  BY FS_Singleton
<1>4. IsFiniteSet({h} \X (1 .. Sizes[h]))
      /\ Cardinality({h} \X (1 .. Sizes[h])) = 1 * Sizes[h]
  BY <1>2, <1>3, FS_Product
<1>5. QED
  BY <1>1, <1>4

\* Finitely many records have finitely many bytes.
LEMMA BytesAreFinite ==
  ASSUME NEW R \in SUBSET Handles, IsFiniteSet(R)
  PROVE  IsFiniteSet(BytesOf(R)) /\ SizesOf(R) \in Nat
<1> DEFINE f == [h \in R |-> {h} \X (1 .. Sizes[h])]
           F == {{h} \X (1 .. Sizes[h]) : h \in R}
<1>1. f \in Surjection(R, F)
  BY DEF Surjection
<1>2. IsFiniteSet(F)
  BY <1>1, FS_Surjection
<1>3. \A T \in F : IsFiniteSet(T)
  BY BytesOfRecord
<1>4. IsFiniteSet(UNION F)
  BY <1>2, <1>3, FS_UNION
<1>5. QED
  BY <1>4, FS_CardinalityType DEF BytesOf, SizesOf

\* A record adds its size.
LEMMA SizesAdd ==
  ASSUME NEW R \in SUBSET Handles, IsFiniteSet(R), NEW h \in Handles, h \notin R
  PROVE  /\ SizesOf(R \cup {h}) = SizesOf(R) + Sizes[h]
         /\ SizesOf(R) \in Nat /\ Sizes[h] \in Nat \ {0}
<1> DEFINE B == {h} \X (1 .. Sizes[h])
<1>1. BytesOf(R \cup {h}) = BytesOf(R) \cup B
  BY DEF BytesOf
<1>2. BytesOf(R) \cap B = {}
  <2>1. \A x \in BytesOf(R) : x[1] \in R
    BY DEF BytesOf
  <2>2. \A x \in B : x[1] = h
    OBVIOUS
  <2>3. QED
    BY <2>1, <2>2
<1>3. IsFiniteSet(BytesOf(R)) /\ IsFiniteSet(B) /\ Cardinality(B) = Sizes[h]
      /\ SizesOf(R) \in Nat /\ Sizes[h] \in Nat \ {0}
  BY BytesAreFinite, BytesOfRecord
<1> HIDE DEF B
<1>4. Cardinality(BytesOf(R) \cup B) = Cardinality(BytesOf(R)) + Cardinality(B) - Cardinality({})
  BY <1>2, <1>3, FS_Union
<1>5. Cardinality({}) = 0
  BY FS_EmptySet
<1> DEFINE m == Cardinality(BytesOf(R))
<1>6. m \in Nat /\ Cardinality(BytesOf(R) \cup B) = m + Sizes[h] - 0
  BY <1>3, <1>4, <1>5 DEF SizesOf
<1> HIDE DEF m
<1>7. Cardinality(BytesOf(R) \cup B) = m + Sizes[h]
  BY <1>3, <1>6
<1>8. QED
  BY <1>1, <1>3, <1>7 DEF SizesOf, m

\* More records, more bytes.
LEMMA SizesGrow ==
  ASSUME NEW R \in SUBSET Handles, IsFiniteSet(R), NEW Q \in SUBSET R
  PROVE  SizesOf(Q) <= SizesOf(R)
<1>1. BytesOf(Q) \in SUBSET BytesOf(R)
  BY DEF BytesOf
<1>2. QED
  BY <1>1, BytesAreFinite, FS_Subset DEF SizesOf

\* No record, no byte.
LEMMA NothingIsEmpty == SizesOf({}) = 0
  BY FS_EmptySet DEF SizesOf, BytesOf

(***************************************************************************)
(* Records.                                                                *)
(***************************************************************************)
Vals == Limits \cup {DefaultLimits, NULL} \cup {Address(t, e) : t \in Tids, e \in Eids}
Data == [change : Nat, val : Vals]
Events == [op : {"added", "deleted", "modified"}, record : Handles]
Repos ==
  [head : Seq(Handles), deleted : Seq(Handles), record_count : Nat, size : Nat,
   largest_pdr_size : Nat, repo_signature : Seq([record : Handles, data : Data]),
   data : [Handles -> Data], pool_wt : Nat, monitored : SUBSET Handles, events : Seq(Events)]

\* Records have positive handles.
LEMMA HandleFacts ==
  /\ Handles \in SUBSET Nat /\ \A h \in Handles : h # 0
  /\ NvmRecords \subseteq Handles /\ LinkRecords \subseteq Handles
  /\ NvmRecords \cap LinkRecords = {}
  /\ \A port \in Ports : PortRecords(port) \subseteq LinkRecords
<1>1. \A port \in Ports : port \in Nat
  BY PortsAssumption DEF Ports
<1>2. \A port \in Ports : PortRecords(port) \subseteq Nat \ {0}
  BY <1>1 DEF PortRecords, numeric_sensors, assoc_records, Temp, Speed, Power, Connector, Plug, CommChan
<1>3. LinkRecords \subseteq Nat \ {0}
  BY <1>2 DEF LinkRecords
<1>4. NvmRecords \subseteq Nat \ {0}
  BY NvmAssumption DEF NvmRecords, ToSet
<1>5. QED
  BY <1>3, <1>4, NvmAssumption DEF Handles, LinkRecords

\* The handles of a port are different ones, and not those of another port.
LEMMA PortFacts ==
  ASSUME NEW port \in Ports
  PROVE  /\ {Temp(port), Speed(port), Power(port)} \subseteq LinkRecords
         /\ {Connector(port), Plug(port), CommChan(port)} \subseteq LinkRecords
         /\ Connector(port) # Plug(port) /\ Plug(port) # CommChan(port) /\ Connector(port) # CommChan(port)
         /\ {Connector(port), Plug(port), CommChan(port)} \cap {Temp(port), Speed(port), Power(port)} = {}
         /\ {Connector(port), Plug(port), CommChan(port), Speed(port), Power(port)} \cap TempRecords = {}
         /\ Temp(port) \in TempRecords
<1>1. port \in 0 .. 3 /\ Ports \subseteq 0 .. 3
  BY PortsAssumption DEF Ports
<1>2. Connector(port) # Plug(port) /\ Plug(port) # CommChan(port) /\ Connector(port) # CommChan(port)
  BY <1>1 DEF Connector, Plug, CommChan
<1>3. {Connector(port), Plug(port), CommChan(port)} \cap {Temp(port), Speed(port), Power(port)} = {}
  BY <1>1 DEF Connector, Plug, CommChan, Temp, Speed, Power
<1>4. {Connector(port), Plug(port), CommChan(port), Speed(port), Power(port)} \cap TempRecords = {}
  <2>1. \A p \in 0 .. 3 : Temp(p) \notin {Connector(port), Plug(port), CommChan(port), Speed(port), Power(port)}
    BY <1>1 DEF Connector, Plug, CommChan, Temp, Speed, Power
  <2>2. {NicTemp, NcTemp} \cap {Connector(port), Plug(port), CommChan(port), Speed(port), Power(port)} = {}
    BY <1>1 DEF Connector, Plug, CommChan, NicTemp, NcTemp, Speed, Power
  <2>3. QED
    BY <1>1, <2>1, <2>2 DEF TempRecords
<1>5. PortRecords(port) \subseteq LinkRecords /\ Temp(port) \in TempRecords
  BY DEF LinkRecords, TempRecords
<1>6. QED
  BY <1>2, <1>3, <1>4, <1>5 DEF PortRecords, numeric_sensors, assoc_records

\* Ports share no records, and the containers of a record are of its port.
LEMMA PortsAreApart ==
  ASSUME NEW p \in Ports, NEW q \in Ports, p # q
  PROVE  PortRecords(p) \cap PortRecords(q) = {}
<1>1. p \in 0 .. 3 /\ q \in 0 .. 3
  BY PortsAssumption DEF Ports
<1>2. numeric_sensors(p) \cap numeric_sensors(q) = {}
  BY <1>1 DEF numeric_sensors, Temp, Speed, Power
<1>3. assoc_records(p) \cap assoc_records(q) = {}
  BY <1>1 DEF assoc_records, Connector, Plug, CommChan
<1>4. numeric_sensors(p) \cap assoc_records(q) = {} /\ assoc_records(p) \cap numeric_sensors(q) = {}
  BY <1>1 DEF numeric_sensors, assoc_records, Temp, Speed, Power, Connector, Plug, CommChan
<1>5. QED
  BY <1>2, <1>3, <1>4 DEF PortRecords

\* The rounding of a size is a size.
LEMMA AlignUpIsNat == ASSUME NEW n \in Nat PROVE AlignUp(n) \in Nat
<1>1. Alignment \in Nat \ {0}
  BY SizesAssumption
<1>2. (n + Alignment - 1) \div Alignment \in Nat
  BY <1>1
<1> DEFINE k == (n + Alignment - 1) \div Alignment
<1> HIDE DEF k
<1>3. k \in Nat => k * Alignment \in Nat
  BY <1>1
<1>4. QED
  BY <1>2, <1>3 DEF AlignUp, k

\* Some place is the last of a set of places.
LEMMA GreatestPlace ==
  ASSUME NEW n \in Nat, NEW P \in SUBSET (1 .. n), P # {}
  PROVE  Max(P) \in P
<1> DEFINE Bounds == {b \in Nat : \A x \in P : x <= b}
<1>1. Bounds \in SUBSET Nat /\ n \in Bounds
  OBVIOUS
<1>2. PICK b \in Bounds : \A c \in Bounds : b <= c
  BY <1>1, LeastElement
<1>3. b \in P
  <2> SUFFICES ASSUME b \notin P
               PROVE  FALSE
    OBVIOUS
  <2>1. \A x \in P : x \in Nat /\ x # 0 /\ x <= b /\ x # b
    BY <1>2
  <2>2. b \in Nat /\ b # 0
    <3>1. PICK x \in P : TRUE
      OBVIOUS
    <3>2. QED
      BY <1>2, <2>1, <3>1
  <2>3. b - 1 \in Bounds
    BY <2>1, <2>2
  <2>4. QED
    BY <1>2, <2>2, <2>3
<1>4. \A x \in P : b >= x
  BY <1>2
<1>5. \E x \in P : \A y \in P : x >= y
  BY <1>3, <1>4
<1>6. QED
  BY <1>5 DEF Max

\* The size that is found by the scan is one of a record, rounded up.
LEMMA LargestIsNat ==
  ASSUME NEW list \in Seq(Handles), NEW count
  PROVE  LargestScanned(list, count) \in Nat
<1> DEFINE scanned == {k \in DOMAIN list : k <= count /\ Rising(list, k)}
<1>1. Len(list) \in Nat /\ scanned \in SUBSET (1 .. Len(list))
  OBVIOUS
<1>2. CASE scanned = {}
  BY <1>2 DEF LargestScanned
<1>3. CASE scanned # {}
  <2>1. Max(scanned) \in scanned
    BY <1>1, <1>3, GreatestPlace
  <2>2. Sizes[list[Max(scanned)]] \in Nat
    <3>1. Max(scanned) \in 1 .. Len(list)
      BY <1>1, <2>1
    <3> HIDE DEF scanned
    <3>2. list[Max(scanned)] \in Handles
      BY <3>1
    <3>3. QED
      BY <3>2, SizesAssumption
  <2>3. AlignUp(Sizes[list[Max(scanned)]]) \in Nat
    BY <2>2, AlignUpIsNat
  <2>4. QED
    BY <1>3, <2>3 DEF LargestScanned
<1>4. QED
  BY <1>2, <1>3

(***************************************************************************)
(* What the events tell.                                                   *)
(***************************************************************************)
\* One more event takes one step from record list to record list.
LEMMA ToldNext ==
  ASSUME NEW R \in SUBSET Handles, NEW E \in Seq(Events), NEW e \in Events
  PROVE  Told(R, Append(E, e)) =
           {h \in Handles : \/ e = [op |-> "added", record |-> h]
                            \/ h \in Told(R, E) /\ e # [op |-> "deleted", record |-> h]}
<1> DEFINE n == Len(E)
           F == Append(E, e)
<1>1. /\ n \in Nat /\ Len(F) = n + 1 /\ DOMAIN E = 1 .. n /\ DOMAIN F = 1 .. n + 1
      /\ F[n + 1] = e /\ \A i \in 1 .. n : F[i] = E[i]
  OBVIOUS
<1> HIDE DEF n, F
<1> SUFFICES ASSUME NEW h \in Handles
             PROVE  h \in Told(R, F) <=>
                      \/ e = [op |-> "added", record |-> h]
                      \/ h \in Told(R, E) /\ e # [op |-> "deleted", record |-> h]
  BY DEF F, Told
<1> DEFINE a == [op |-> "added", record |-> h]
           d == [op |-> "deleted", record |-> h]
<1>2. h \in Told(R, F) <=>
        \/ \E i \in 1 .. n + 1 : F[i] = a /\ \A j \in i + 1 .. n + 1 : F[j] # d
        \/ h \in R /\ \A i \in 1 .. n + 1 : F[i] # d
  BY <1>1 DEF Told
<1>3. h \in Told(R, E) <=>
        \/ \E i \in 1 .. n : E[i] = a /\ \A j \in i + 1 .. n : E[j] # d
        \/ h \in R /\ \A i \in 1 .. n : E[i] # d
  BY <1>1 DEF Told, n
<1>4. a # d
  OBVIOUS
<1> HIDE DEF a, d
<1>5. ASSUME h \in Told(R, F)
      PROVE  e = a \/ (h \in Told(R, E) /\ e # d)
  <2>1. CASE \E i \in 1 .. n + 1 : F[i] = a /\ \A j \in i + 1 .. n + 1 : F[j] # d
    <3>1. PICK i \in 1 .. n + 1 : F[i] = a /\ \A j \in i + 1 .. n + 1 : F[j] # d
      BY <2>1
    <3>2. CASE i = n + 1
      BY <1>1, <3>1, <3>2
    <3>3. CASE i # n + 1
      <4>1. i \in 1 .. n /\ n + 1 \in i + 1 .. n + 1 /\ \A j \in i + 1 .. n : j \in 1 .. n /\ j \in i + 1 .. n + 1
        BY <1>1, <3>3
      <4>2. E[i] = a /\ \A j \in i + 1 .. n : E[j] # d
        BY <1>1, <3>1, <4>1
      <4>3. QED
        BY <1>1, <1>3, <3>1, <4>1, <4>2
    <3>4. QED
      BY <3>2, <3>3
  <2>2. CASE h \in R /\ \A i \in 1 .. n + 1 : F[i] # d
    <3>1. \A i \in 1 .. n + 1 : F[i] # d
      BY <2>2
    <3>2. n + 1 \in 1 .. n + 1 /\ \A i \in 1 .. n : i \in 1 .. n + 1
      BY <1>1
    <3>3. e # d /\ \A i \in 1 .. n : E[i] # d
      BY <1>1, <3>1, <3>2
    <3>4. QED
      BY <1>3, <2>2, <3>3
  <2>3. QED
    BY <1>2, <1>5, <2>1, <2>2
<1>6. ASSUME e = a
      PROVE  h \in Told(R, F)
  <2>1. n + 1 \in 1 .. n + 1 /\ F[n + 1] = a /\ (n + 1) + 1 .. n + 1 = {}
    BY <1>1, <1>6
  <2>2. QED
    BY <1>2, <2>1
<1>7. ASSUME h \in Told(R, E), e # d
      PROVE  h \in Told(R, F)
  <2>1. CASE \E i \in 1 .. n : E[i] = a /\ \A j \in i + 1 .. n : E[j] # d
    <3>1. PICK i \in 1 .. n : E[i] = a /\ \A j \in i + 1 .. n : E[j] # d
      BY <2>1
    <3>2. i \in 1 .. n + 1 /\ F[i] = a
      BY <1>1, <3>1
    <3>3. ASSUME NEW j \in i + 1 .. n + 1
          PROVE  F[j] # d
      <4>1. j = n + 1 \/ (j \in i + 1 .. n /\ j \in 1 .. n)
        BY <1>1
      <4>2. QED
        BY <1>1, <1>7, <3>1, <4>1
    <3>4. QED
      BY <1>2, <3>2, <3>3
  <2>2. CASE h \in R /\ \A i \in 1 .. n : E[i] # d
    <3>1. ASSUME NEW i \in 1 .. n + 1
          PROVE  F[i] # d
      <4>1. i = n + 1 \/ i \in 1 .. n
        BY <1>1
      <4>2. QED
        BY <1>1, <1>7, <2>2, <4>1
    <3>2. QED
      BY <1>2, <2>2, <3>1
  <2>3. QED
    BY <1>3, <1>7, <2>1, <2>2
<1>8. QED
  BY <1>5, <1>6, <1>7 DEF a, d

\* What an event makes of a set of records.
Heard(op, R, h) ==
  CASE op = "added" -> R \cup {h}
    [] op = "deleted" -> R \ {h}
    [] OTHER -> R

\* Each kind of event, and no event at all.
LEMMA ToldEach ==
  ASSUME NEW R \in SUBSET Handles, NEW E \in Seq(Events), NEW e \in Events
  PROVE  Told(R, Append(E, e)) = Heard(e.op, Told(R, E), e.record)
<1> DEFINE Adds(h) == e = [op |-> "added", record |-> h]
           Deletes(h) == e = [op |-> "deleted", record |-> h]
<1>1. Told(R, Append(E, e)) = {h \in Handles : Adds(h) \/ (h \in Told(R, E) /\ ~Deletes(h))}
  BY ToldNext
<1>2. \A h : Adds(h) <=> e.op = "added" /\ e.record = h
  BY DEF Events
<1>3. \A h : Deletes(h) <=> e.op = "deleted" /\ e.record = h
  BY DEF Events
<1>4. Told(R, E) \subseteq Handles /\ e.record \in Handles
  BY DEF Told, Events
<1> HIDE DEF Adds, Deletes
<1>5. ASSUME e.op = "added"
      PROVE  Told(R, Append(E, e)) = Told(R, E) \cup {e.record}
  BY <1>1, <1>2, <1>3, <1>4, <1>5
<1>6. ASSUME e.op = "deleted"
      PROVE  Told(R, Append(E, e)) = Told(R, E) \ {e.record}
  BY <1>1, <1>2, <1>3, <1>4, <1>6
<1>7. ASSUME e.op = "modified"
      PROVE  Told(R, Append(E, e)) = Told(R, E)
  BY <1>1, <1>2, <1>3, <1>4, <1>7
<1>8. e.op \in {"added", "deleted", "modified"}
  BY DEF Events
<1>9. QED
  BY <1>5, <1>6, <1>7, <1>8, Zenon DEF Heard

LEMMA ToldNothing == ASSUME NEW R \in SUBSET Handles PROVE Told(R, <<>>) = R
  BY DEF Told

(***************************************************************************)
(* What holds of a repository after each function of pdr.c.                *)
(***************************************************************************)
\* A record is made after the one it is contained in.
MadeTogether(r) ==
  \A port \in Ports : /\ CommChan(port) \in Made(r) => Plug(port) \in Made(r)
                      /\ Plug(port) \in Made(r) => Connector(port) \in Made(r)
ContainerMade(r, h) ==
  \A port \in Ports : /\ h = CommChan(port) => Plug(port) \in Made(r)
                      /\ h = Plug(port) => Connector(port) \in Made(r)

Sound(r) ==
  /\ r \in Repos
  /\ ListsAgree(r) /\ DeletedAreQuiet(r) /\ MadeTogether(r)
  /\ ToSet(r.deleted) \subseteq LinkRecords /\ r.monitored \subseteq TempRecords

\* The fields of a repository.
LEMMA RepoFields ==
  ASSUME NEW r \in Repos
  PROVE  /\ r.head \in Seq(Handles) /\ r.deleted \in Seq(Handles)
         /\ r.record_count \in Nat /\ r.size \in Nat /\ r.largest_pdr_size \in Nat
         /\ r.repo_signature \in Seq([record : Handles, data : Data])
         /\ r.data \in [Handles -> Data] /\ r.pool_wt \in Nat
         /\ r.monitored \in SUBSET Handles /\ r.events \in Seq(Events)
  BY DEF Repos

\* The lists are finite and of handles.
LEMMA ListFacts ==
  ASSUME NEW r, Sound(r)
  PROVE  /\ Sorted(r.head) /\ IsInjective(r.head) /\ IsInjective(r.deleted)
         /\ Records(r) \in SUBSET Handles /\ IsFiniteSet(Records(r))
         /\ ToSet(r.deleted) \in SUBSET Handles
         /\ Made(r) \in SUBSET Handles /\ IsFiniteSet(Made(r))
         /\ Cardinality(Made(r)) \in Nat /\ SizesOf(Made(r)) \in Nat
<1>1. r.head \in Seq(Handles) /\ r.deleted \in Seq(Handles)
  BY RepoFields DEF Sound
<1>2. Sorted(r.head) /\ IsInjective(r.deleted)
  BY DEF Sound, ListsAgree, Sorted
<1>3. IsInjective(r.head)
  BY <1>1, <1>2, HandleFacts, SortedIsInjective
<1>4. ToSet(r.head) \in SUBSET Handles /\ ToSet(r.deleted) \in SUBSET Handles
  BY <1>1 DEF ToSet
<1>5. IsFiniteSet(ToSet(r.head)) /\ IsFiniteSet(ToSet(r.deleted))
  BY <1>1, ListIsFinite
<1>6. Made(r) \in SUBSET Handles /\ IsFiniteSet(Made(r))
  BY <1>4, <1>5, FS_Union DEF Made, Records
<1>7. QED
  BY <1>2, <1>3, <1>4, <1>5, <1>6, FS_CardinalityType, BytesAreFinite DEF Records

\* What does not touch the lists, and takes no less of the pool, leaves it in order.
LEMMA SoundSame ==
  ASSUME NEW r, Sound(r), NEW w \in Repos,
         w.head = r.head, w.deleted = r.deleted, w.record_count = r.record_count, w.size = r.size,
         r.pool_wt <= w.pool_wt, w.pool_wt <= PDR_POOL_SIZE,
         w.monitored \subseteq TempRecords,
         \A h \in ToSet(r.deleted) : h \notin w.monitored /\ w.data[h].change = 0
  PROVE  Sound(w) /\ Records(w) = Records(r) /\ Made(w) = Made(r)
<1>1. Records(w) = Records(r) /\ Made(w) = Made(r)
  BY DEF Records, Made
<1>2. w.pool_wt >= SizesOf(Made(r)) + NodeSize * Cardinality(Made(r))
  <2> DEFINE need == SizesOf(Made(r)) + NodeSize * Cardinality(Made(r))
  <2>1. need \in Nat
    <3>1. Cardinality(Made(r)) \in Nat /\ SizesOf(Made(r)) \in Nat /\ NodeSize \in Nat
      BY ListFacts, SizesAssumption
    <3>2. QED
      BY <3>1
  <2>2. r.pool_wt >= need
    BY DEF Sound, ListsAgree
  <2>3. r.pool_wt \in Nat /\ w.pool_wt \in Nat
    BY RepoFields DEF Sound
  <2> HIDE DEF need
  <2>4. w.pool_wt >= need
    BY <2>1, <2>2, <2>3
  <2>5. QED
    BY <2>4 DEF need
<1>3. ListsAgree(w)
  BY <1>1, <1>2 DEF Sound, ListsAgree
<1>4. DeletedAreQuiet(w)
  BY DEF DeletedAreQuiet
<1>5. MadeTogether(w)
  BY <1>1 DEF Sound, MadeTogether
<1>6. ToSet(w.deleted) \subseteq LinkRecords
  BY DEF Sound
<1>7. QED
  BY <1>1, <1>3, <1>4, <1>5, <1>6 DEF Sound

\* One more node takes a node's size of the pool.
LEMMA NodesAdd ==
  ASSUME NEW R \in SUBSET Handles, IsFiniteSet(R), NEW h \in Handles, h \notin R
  PROVE  /\ NodeSize * Cardinality(R \cup {h}) = NodeSize * Cardinality(R) + NodeSize
         /\ NodeSize * Cardinality(R) \in Nat /\ NodeSize \in Nat
<1>1. Cardinality(R \cup {h}) = Cardinality(R) + 1 /\ Cardinality(R) \in Nat
  BY FS_AddElement, FS_CardinalityType
<1> DEFINE c == Cardinality(R)
<1> HIDE DEF c
<1>2. c \in Nat /\ NodeSize \in Nat => NodeSize * (c + 1) = NodeSize * c + NodeSize /\ NodeSize * c \in Nat
  OBVIOUS
<1>3. QED
  BY <1>1, <1>2, SizesAssumption DEF c

\* A node for a record that has none, when the pool has room for it.
LEMMA NodeAdded ==
  ASSUME NEW q, Sound(q), NEW h \in Handles, h \notin Made(q), ContainerMade(q, h),
         Fits(q, NodeSize),
         q.pool_wt >= SizesOf(Made(q) \cup {h}) + NodeSize * Cardinality(Made(q))
  PROVE  LET w == pldm_pdr_add(q, h)
         IN  /\ Sound(w) /\ Records(w) = Records(q) \cup {h} /\ Made(w) = Made(q) \cup {h}
             /\ w.data = q.data /\ w.events = q.events /\ w.pool_wt = q.pool_wt + NodeSize
<1> DEFINE w == pldm_pdr_add(q, h)
           head == InsertInOrder(q.head, h)
<1>1. w = [ [q EXCEPT !.pool_wt = @ + NodeSize] EXCEPT
              !.head = InsertInOrder(@, h),
              !.record_count = @ + 1,
              !.size = @ + Sizes[h],
              !.largest_pdr_size = AlignUp(Larger(@, Sizes[h])) ]
  BY DEF pldm_pdr_add, pdr_malloc
<1>2. q \in Repos
  BY DEF Sound
<1>3. /\ head \in Seq(Handles) /\ Len(head) = Len(q.head) + 1 /\ Sorted(head)
      /\ ToSet(head) = Records(q) \cup {h}
  BY <1>2, RepoFields, HandleFacts, ListFacts, InsertKeepsOrder DEF Made, Records
<1>4. Sizes[h] \in Nat \ {0} /\ NodeSize \in Nat \ {0}
  BY SizesAssumption
<1>5. AlignUp(Larger(q.largest_pdr_size, Sizes[h])) \in Nat
  <2>1. Larger(q.largest_pdr_size, Sizes[h]) \in Nat
    BY <1>2, <1>4, RepoFields DEF Larger
  <2>2. QED
    BY <2>1, AlignUpIsNat
<1> HIDE DEF w, head
<1>6. /\ w.head = head /\ w.deleted = q.deleted /\ w.record_count = q.record_count + 1
      /\ w.size = q.size + Sizes[h] /\ w.pool_wt = q.pool_wt + NodeSize
      /\ w.data = q.data /\ w.events = q.events /\ w.monitored = q.monitored
  BY <1>1, <1>2 DEF Repos, head
<1>7. w \in Repos
  <2> DEFINE n == q.pool_wt + NodeSize
             c == q.record_count + 1
             s == q.size + Sizes[h]
             l == AlignUp(Larger(q.largest_pdr_size, Sizes[h]))
  <2>1. n \in Nat /\ c \in Nat /\ s \in Nat /\ l \in Nat
    BY <1>2, <1>4, <1>5, RepoFields
  <2>2. w = [q EXCEPT !.pool_wt = n, !.head = head, !.record_count = c, !.size = s,
                      !.largest_pdr_size = l]
    BY <1>1, <1>2 DEF Repos, head
  <2> HIDE DEF n, c, s, l
  <2>3. QED
    BY <1>2, <1>3, <2>1, <2>2 DEF Repos
<1>8. Records(w) = Records(q) \cup {h} /\ Made(w) = Made(q) \cup {h}
  BY <1>3, <1>6 DEF Records, Made
<1>9. ListsAgree(w)
  <2>1. \A i, j \in DOMAIN w.head : i < j => w.head[i] < w.head[j]
    BY <1>3, <1>6 DEF Sorted
  <2>2. IsInjective(w.deleted)
    BY <1>6, ListFacts
  <2>3. Records(w) \cap ToSet(w.deleted) = {}
    BY <1>6, <1>8 DEF Sound, ListsAgree, Made
  <2>4. w.record_count = Len(w.head)
    BY <1>3, <1>6 DEF Sound, ListsAgree
  <2>5. w.size = SizesOf(Records(w))
    <3>1. Records(q) \in SUBSET Handles /\ IsFiniteSet(Records(q)) /\ h \notin Records(q)
      BY ListFacts DEF Made
    <3>2. SizesOf(Records(q) \cup {h}) = SizesOf(Records(q)) + Sizes[h]
      BY <3>1, SizesAdd
    <3>3. QED
      BY <1>6, <1>8, <3>2 DEF Sound, ListsAgree
  <2>6. w.pool_wt >= SizesOf(Made(w)) + NodeSize * Cardinality(Made(w))
    <3> DEFINE s == SizesOf(Made(w))
               c == NodeSize * Cardinality(Made(q))
    <3>1. Made(q) \in SUBSET Handles /\ IsFiniteSet(Made(q))
      BY ListFacts
    <3>2. NodeSize * Cardinality(Made(w)) = c + NodeSize /\ c \in Nat
      BY <1>8, <3>1, NodesAdd
    <3>3. s \in Nat
      <4>1. SizesOf(Made(q) \cup {h}) = SizesOf(Made(q)) + Sizes[h] /\ SizesOf(Made(q)) \in Nat
        BY <3>1, SizesAdd
      <4>2. QED
        BY <1>4, <1>8, <4>1
    <3>4. q.pool_wt >= s + c /\ q.pool_wt \in Nat
      BY <1>2, <1>8, RepoFields
    <3> HIDE DEF s, c
    <3>5. w.pool_wt >= s + (c + NodeSize)
      BY <1>4, <1>6, <3>2, <3>3, <3>4
    <3>6. QED
      BY <3>2, <3>5 DEF s
  <2>7. w.pool_wt <= PDR_POOL_SIZE
    <3>1. q.pool_wt \in Nat /\ PDR_POOL_SIZE \in Nat
      BY <1>2, RepoFields, SizesAssumption
    <3>2. QED
      BY <1>4, <1>6, <3>1 DEF Fits
  <2>8. QED
    BY <2>1, <2>2, <2>3, <2>4, <2>5, <2>6, <2>7 DEF ListsAgree
<1>10. DeletedAreQuiet(w)
  BY <1>6 DEF Sound, DeletedAreQuiet
<1>11. MadeTogether(w)
  BY <1>8 DEF Sound, MadeTogether, ContainerMade
<1>12. Sound(w)
  BY <1>6, <1>7, <1>9, <1>10, <1>11 DEF Sound
<1>13. QED
  BY <1>6, <1>8, <1>12 DEF w

\* An event changes nothing but the events, and tells what it is meant to tell.
LEMMA EventKeeps ==
  ASSUME NEW r, Sound(r), NEW op \in {"added", "deleted", "modified"}, NEW h \in Handles
  PROVE  LET w == pldm_pdr_chg_event_generate(r, op, h)
         IN  /\ Sound(w) /\ Records(w) = Records(r) /\ Made(w) = Made(r) /\ w.data = r.data
             /\ w.head = r.head /\ w.deleted = r.deleted
             /\ \A R \in SUBSET Handles : Told(R, w.events) = Heard(op, Told(R, r.events), h)
             /\ \E e \in ToSet(w.events) : e.record = h
<1> DEFINE w == pldm_pdr_chg_event_generate(r, op, h)
           e == [op |-> op, record |-> h]
           E == Append(r.events, e)
<1>1. r \in Repos /\ r.events \in Seq(Events)
  BY RepoFields DEF Sound
<1>2. w = [r EXCEPT !.events = E]
  BY <1>1 DEF pldm_pdr_chg_event_generate, Repos
<1>3. e \in Events /\ e.op = op /\ e.record = h
  BY DEF Events
<1> HIDE DEF w, e
<1>4. E \in Seq(Events) /\ e \in ToSet(E)
  <2>1. E \in Seq(Events) /\ Len(E) \in DOMAIN E /\ E[Len(E)] = e
    BY <1>1, <1>3
  <2>2. QED
    BY <2>1 DEF ToSet
<1>5. \A R \in SUBSET Handles : Told(R, E) = Heard(op, Told(R, r.events), h)
  BY <1>1, <1>3, ToldEach
<1> HIDE DEF E
<1>6. /\ w.head = r.head /\ w.deleted = r.deleted /\ w.record_count = r.record_count
      /\ w.size = r.size /\ w.pool_wt = r.pool_wt /\ w.monitored = r.monitored
      /\ w.data = r.data /\ w.events = E
  BY <1>1, <1>2 DEF Repos
<1>7. w \in Repos
  BY <1>1, <1>2, <1>4 DEF Repos
<1>8. r.pool_wt \in Nat /\ r.pool_wt <= PDR_POOL_SIZE
  BY <1>1, RepoFields DEF Sound, ListsAgree
<1>9. Sound(w) /\ Records(w) = Records(r) /\ Made(w) = Made(r)
  BY <1>6, <1>7, <1>8, SoundSame DEF Sound, DeletedAreQuiet
<1>10. QED
  BY <1>3, <1>4, <1>5, <1>6, <1>9 DEF w

\* From r to s, with no other records touched than those of P, and the events telling of
\* what came and went.
Reaches(r, s, P) ==
  /\ Sound(s)
  /\ Made(r) \subseteq Made(s)
  /\ \A h \in Handles \ P : /\ h \in Records(s) <=> h \in Records(r)
                            /\ h \in Made(s) <=> h \in Made(r)
                            /\ s.data[h] = r.data[h]
  /\ \A R \in SUBSET Handles :
       Told(R, r.events) = Records(r) => Told(R, s.events) = Records(s)

\* One operation after another, and none.
LEMMA ReachesOn ==
  ASSUME NEW r, NEW s, NEW t, NEW P, NEW Q, Reaches(r, s, P), Reaches(s, t, Q)
  PROVE  Reaches(r, t, P \cup Q)
  BY DEF Reaches

LEMMA ReachesMore ==
  ASSUME NEW r, NEW s, NEW P, NEW Q, Reaches(r, s, P), P \subseteq Q
  PROVE  Reaches(r, s, Q)
  BY DEF Reaches

LEMMA ReachesSelf ==
  ASSUME NEW r, Sound(r), NEW P
  PROVE  Reaches(r, r, P)
  BY DEF Reaches

\* A record is made, in a repository where its data and its monitor are set already.
LEMMA RecordAdded ==
  ASSUME NEW r, Sound(r), NEW h \in Handles, h \notin Made(r), ContainerMade(r, h),
         NEW q \in Repos,
         q.head = r.head, q.deleted = r.deleted, q.record_count = r.record_count,
         q.size = r.size, q.events = r.events, q.pool_wt = r.pool_wt + Sizes[h],
         Fits(r, Sizes[h]), q.monitored \subseteq TempRecords, q.monitored \subseteq r.monitored \cup {h},
         \A g \in Handles \ {h} : q.data[g] = r.data[g]
  PROVE  /\ Reaches(r, AddRecord(q, h), {h})
         /\ h \in Made(AddRecord(q, h)) => h \in Records(AddRecord(q, h))
<1>1. r \in Repos /\ r.pool_wt \in Nat /\ q.pool_wt \in Nat /\ Sizes[h] \in Nat \ {0}
      /\ PDR_POOL_SIZE \in Nat /\ NodeSize \in Nat \ {0}
  BY RepoFields, SizesAssumption DEF Sound
<1>2. r.pool_wt <= q.pool_wt /\ q.pool_wt <= PDR_POOL_SIZE
  BY <1>1 DEF Fits
<1>3. \A g \in ToSet(r.deleted) : g \notin q.monitored /\ q.data[g].change = 0
  <2> SUFFICES ASSUME NEW g \in ToSet(r.deleted)
               PROVE  g \notin q.monitored /\ q.data[g].change = 0
    OBVIOUS
  <2>1. g \in Handles \ {h} /\ g \notin r.monitored /\ r.data[g].change = 0
    BY ListFacts DEF Sound, DeletedAreQuiet, Made
  <2>2. QED
    BY <2>1
<1>4. Sound(q) /\ Records(q) = Records(r) /\ Made(q) = Made(r)
  BY <1>2, <1>3, SoundSame
<1>5. q.pool_wt >= SizesOf(Made(q) \cup {h}) + NodeSize * Cardinality(Made(q))
  <2> DEFINE c == NodeSize * Cardinality(Made(r))
             s == SizesOf(Made(r))
  <2>1. Made(r) \in SUBSET Handles /\ IsFiniteSet(Made(r))
    BY ListFacts
  <2>2. SizesOf(Made(r) \cup {h}) = s + Sizes[h] /\ s \in Nat
    BY <2>1, SizesAdd
  <2>3. c \in Nat
    BY <2>1, NodesAdd
  <2>4. r.pool_wt >= s + c
    BY DEF Sound, ListsAgree
  <2> HIDE DEF s, c
  <2>5. q.pool_wt >= (s + Sizes[h]) + c
    BY <1>1, <2>2, <2>3, <2>4
  <2>6. QED
    BY <1>4, <2>2, <2>5 DEF c
<1>6. CASE ~Fits(q, NodeSize)
  <2>1. AddRecord(q, h) = q
    BY <1>6 DEF AddRecord
  <2>2. Reaches(r, q, {h})
    BY <1>4 DEF Reaches
  <2>3. QED
    BY <1>4, <2>1, <2>2
<1>7. CASE Fits(q, NodeSize)
  <2> DEFINE n == pldm_pdr_add(q, h)
             w == pldm_pdr_chg_event_generate(n, "added", h)
  <2>1. ContainerMade(q, h)
    BY <1>4 DEF ContainerMade
  <2>2. /\ Sound(n) /\ Records(n) = Records(q) \cup {h} /\ Made(n) = Made(q) \cup {h}
        /\ n.data = q.data /\ n.events = q.events
    BY <1>4, <1>5, <1>7, <2>1, NodeAdded
  <2> HIDE DEF n
  <2>3. /\ Sound(w) /\ Records(w) = Records(n) /\ Made(w) = Made(n) /\ w.data = n.data
        /\ \A R \in SUBSET Handles : Told(R, w.events) = Told(R, n.events) \cup {h}
    <3>1. "added" \in {"added", "deleted", "modified"}
      OBVIOUS
    <3>2. /\ Sound(w) /\ Records(w) = Records(n) /\ Made(w) = Made(n) /\ w.data = n.data
          /\ \A R \in SUBSET Handles : Told(R, w.events) = Heard("added", Told(R, n.events), h)
      BY <2>2, <3>1, EventKeeps
    <3>3. QED
      BY <3>2 DEF Heard
  <2>4. AddRecord(q, h) = w
    BY <1>7 DEF AddRecord, n
  <2> HIDE DEF w
  <2>5. \A R \in SUBSET Handles :
          Told(R, r.events) = Records(r) => Told(R, w.events) = Records(w)
    BY <1>4, <2>2, <2>3
  <2>6. Reaches(r, w, {h})
    BY <1>4, <2>2, <2>3, <2>5 DEF Reaches
  <2>7. QED
    BY <2>2, <2>3, <2>4, <2>6
<1>8. QED
  BY <1>6, <1>7

\* A deleted record is put back.
LEMMA RecordRestored ==
  ASSUME NEW r, Sound(r), NEW h \in ToSet(r.deleted)
  PROVE  LET w == Restored(r, h)
         IN  /\ Reaches(r, w, {h}) /\ Records(w) = Records(r) \cup {h} /\ Made(w) = Made(r)
             /\ w.data = r.data
<1> DEFINE head == InsertInOrder(r.head, h)
           deleted == Without(r.deleted, h)
           largest == LargestScanned(head, r.record_count)
           size == r.size + Sizes[h]
           count == r.record_count + 1
           n == [r EXCEPT !.deleted = deleted, !.head = head, !.largest_pdr_size = largest,
                          !.size = size, !.record_count = count]
           w == pldm_pdr_chg_event_generate(n, "added", h)
<1>1. r \in Repos
  BY DEF Sound
<1>2. Restored(r, h) = w
  BY <1>1 DEF Restored, Repos
<1>3. h \in Handles /\ h \notin Records(r) /\ Sizes[h] \in Nat \ {0}
  BY ListFacts, SizesAssumption DEF Sound, ListsAgree
<1>4. /\ head \in Seq(Handles) /\ Len(head) = Len(r.head) + 1 /\ Sorted(head)
      /\ ToSet(head) = Records(r) \cup {h}
  BY <1>1, <1>3, RepoFields, HandleFacts, ListFacts, InsertKeepsOrder DEF Records
<1>5. /\ deleted \in Seq(Handles) /\ IsInjective(deleted) /\ ToSet(deleted) = ToSet(r.deleted) \ {h}
  BY <1>1, RepoFields, ListFacts, WithoutKeepsOrder
<1>6. largest \in Nat /\ size \in Nat /\ count \in Nat
  <2>1. largest \in Nat
    BY <1>4, LargestIsNat
  <2>2. QED
    BY <1>1, <1>3, <2>1, RepoFields
<1> HIDE DEF head, deleted, largest
<1>7. /\ n.head = head /\ n.deleted = deleted /\ n.record_count = r.record_count + 1
      /\ n.size = r.size + Sizes[h] /\ n.pool_wt = r.pool_wt /\ n.monitored = r.monitored
      /\ n.data = r.data /\ n.events = r.events
  BY <1>1 DEF Repos
<1>8. n \in Repos
  <2> HIDE DEF size, count
  <2>1. QED
    BY <1>1, <1>4, <1>5, <1>6 DEF Repos
<1> HIDE DEF n
<1>9. Records(n) = Records(r) \cup {h} /\ Made(n) = Made(r)
  BY <1>4, <1>5, <1>7 DEF Records, Made
<1>10. ListsAgree(n)
  <2>1. \A i, j \in DOMAIN n.head : i < j => n.head[i] < n.head[j]
    BY <1>4, <1>7 DEF Sorted
  <2>2. Records(n) \cap ToSet(n.deleted) = {}
    BY <1>5, <1>7, <1>9 DEF Sound, ListsAgree
  <2>3. n.record_count = Len(n.head)
    BY <1>4, <1>7 DEF Sound, ListsAgree
  <2>4. n.size = SizesOf(Records(n))
    <3>1. Records(r) \in SUBSET Handles /\ IsFiniteSet(Records(r))
      BY ListFacts
    <3>2. SizesOf(Records(r) \cup {h}) = SizesOf(Records(r)) + Sizes[h]
      BY <1>3, <3>1, SizesAdd
    <3>3. QED
      BY <1>7, <1>9, <3>2 DEF Sound, ListsAgree
  <2>5. n.pool_wt >= SizesOf(Made(n)) + NodeSize * Cardinality(Made(n)) /\ n.pool_wt <= PDR_POOL_SIZE
    BY <1>7, <1>9 DEF Sound, ListsAgree
  <2>6. QED
    BY <1>5, <1>7, <2>1, <2>2, <2>3, <2>4, <2>5 DEF ListsAgree
<1>11. DeletedAreQuiet(n) /\ MadeTogether(n) /\ ToSet(n.deleted) \subseteq LinkRecords
  BY <1>5, <1>7, <1>9 DEF Sound, DeletedAreQuiet, MadeTogether
<1>12. Sound(n)
  BY <1>7, <1>8, <1>10, <1>11 DEF Sound
<1>13. /\ Sound(w) /\ Records(w) = Records(n) /\ Made(w) = Made(n) /\ w.data = n.data
       /\ \A R \in SUBSET Handles : Told(R, w.events) = Told(R, n.events) \cup {h}
  <2>1. "added" \in {"added", "deleted", "modified"}
    OBVIOUS
  <2>2. /\ Sound(w) /\ Records(w) = Records(n) /\ Made(w) = Made(n) /\ w.data = n.data
        /\ \A R \in SUBSET Handles : Told(R, w.events) = Heard("added", Told(R, n.events), h)
    BY <1>3, <1>12, <2>1, EventKeeps
  <2>3. QED
    BY <2>2 DEF Heard
<1> HIDE DEF w
<1>14. Reaches(r, w, {h})
  BY <1>7, <1>9, <1>13 DEF Reaches
<1>15. QED
  BY <1>2, <1>7, <1>9, <1>13, <1>14

\* After a look for it, a record that was ever made is in the list.
LEMMA RecordFound ==
  ASSUME NEW r, Sound(r), NEW h \in Handles
  PROVE  LET w == pldm_pdr_is_exist(r, h)
         IN  /\ Reaches(r, w, {h}) /\ Made(w) = Made(r) /\ w.data = r.data
             /\ h \in Made(r) => h \in Records(w)
<1>1. CASE ~InHead(r, h) /\ InDeleted(r, h)
  BY <1>1, RecordRestored DEF pldm_pdr_is_exist, InDeleted
<1>2. CASE ~(~InHead(r, h) /\ InDeleted(r, h))
  BY <1>2, ReachesSelf DEF pldm_pdr_is_exist, InHead, InDeleted, Made, Records
<1>3. QED
  BY <1>1, <1>2

\* What exists was made.
LEMMA ExistsIsMade == \A r, h : Exists(r, h) <=> h \in Made(r)
  BY DEF Exists, InHead, InDeleted, Made, Records

\* What the fill functions write, and the monitor that is turned on.
LEMMA RecordFilled ==
  ASSUME NEW r \in Repos, NEW h \in Handles
  PROVE  LET w == Monitored(Fill(r, h), h)
         IN  /\ w \in Repos
             /\ w.head = r.head /\ w.deleted = r.deleted /\ w.record_count = r.record_count
             /\ w.size = r.size /\ w.pool_wt = r.pool_wt /\ w.events = r.events
             /\ \A g \in Handles \ {h} : w.data[g] = r.data[g]
             /\ w.monitored \subseteq r.monitored \cup {h}
             /\ r.monitored \subseteq TempRecords => w.monitored \subseteq TempRecords
<1> DEFINE val == IF h \in TempRecords THEN DefaultLimits ELSE NULL
           data == [r.data EXCEPT ![h].val = val]
           monitored == IF h \in TempRecords THEN r.monitored \cup {h} ELSE r.monitored
           w == Monitored(Fill(r, h), h)
<1>1. val \in Vals /\ monitored \in SUBSET Handles /\ monitored \subseteq r.monitored \cup {h}
      /\ (r.monitored \subseteq TempRecords => monitored \subseteq TempRecords)
  BY RepoFields DEF Vals
<1>2. r.data \in [Handles -> Data]
  BY RepoFields
<1>3. data \in [Handles -> Data] /\ \A g \in Handles \ {h} : data[g] = r.data[g]
  <2> HIDE DEF val
  <2>1. [r.data[h] EXCEPT !.val = val] \in Data
    <3>1. r.data[h] \in Data
      BY <1>2
    <3>2. QED
      BY <1>1, <3>1 DEF Data
  <2>2. data = [r.data EXCEPT ![h] = [r.data[h] EXCEPT !.val = val]]
    BY <1>2
  <2>3. QED
    BY <1>2, <2>1, <2>2
<1>4. w = [r EXCEPT !.data = data, !.monitored = monitored]
  <2>1. Fill(r, h) = [r EXCEPT !.data = data]
    BY DEF Fill, Repos
  <2> HIDE DEF data, val
  <2>2. CASE h \in TempRecords
    BY <2>1, <2>2 DEF Monitored, Repos
  <2>3. CASE h \notin TempRecords
    BY <2>1, <2>3 DEF Monitored, Repos
  <2>4. QED
    BY <2>2, <2>3
<1> HIDE DEF w, data, monitored, val
<1>5. /\ w.head = r.head /\ w.deleted = r.deleted /\ w.record_count = r.record_count
      /\ w.size = r.size /\ w.pool_wt = r.pool_wt /\ w.events = r.events
      /\ w.data = data /\ w.monitored = monitored
  BY <1>4 DEF Repos
<1>6. w \in Repos
  BY <1>1, <1>3, <1>4 DEF Repos
<1>7. QED
  BY <1>1, <1>3, <1>5, <1>6 DEF w

\* The pool is taken from, and nothing else.
LEMMA PoolTaken ==
  ASSUME NEW r \in Repos, NEW n \in Nat
  PROVE  LET w == pdr_malloc(r, n)
         IN  /\ w \in Repos /\ w.pool_wt = r.pool_wt + n
             /\ w.head = r.head /\ w.deleted = r.deleted /\ w.record_count = r.record_count
             /\ w.size = r.size /\ w.events = r.events /\ w.data = r.data
             /\ w.monitored = r.monitored
<1> DEFINE w == pdr_malloc(r, n)
           m == r.pool_wt + n
<1>1. m \in Nat
  BY RepoFields
<1>2. w = [r EXCEPT !.pool_wt = m]
  BY DEF pdr_malloc, Repos
<1> HIDE DEF w, m
<1>3. QED
  BY <1>1, <1>2 DEF Repos, w, m

\* The sensor of a link: found, put back or made.
LEMMA SensorAdded ==
  ASSUME NEW r, Sound(r), NEW h \in Handles, ContainerMade(r, h)
  PROVE  Reaches(r, pldm_add_numeric_sensor_pdr(r, h), {h})
<1>1. r \in Repos
  BY DEF Sound
<1>2. CASE Exists(r, h)
  <2> DEFINE f == pldm_pdr_is_exist(r, h)
             w == Monitored(Fill(f, h), h)
  <2>1. Reaches(r, f, {h}) /\ h \in Records(f)
    BY <1>2, RecordFound, ExistsIsMade
  <2>2. Sound(f) /\ f \in Repos
    BY <2>1 DEF Reaches, Sound
  <2> HIDE DEF f
  <2>3. /\ w \in Repos
        /\ w.head = f.head /\ w.deleted = f.deleted /\ w.record_count = f.record_count
        /\ w.size = f.size /\ w.pool_wt = f.pool_wt /\ w.events = f.events
        /\ \A g \in Handles \ {h} : w.data[g] = f.data[g]
        /\ w.monitored \subseteq f.monitored \cup {h}
        /\ f.monitored \subseteq TempRecords => w.monitored \subseteq TempRecords
    BY <2>2, RecordFilled
  <2> HIDE DEF w
  <2>4. h \notin ToSet(f.deleted)
    BY <2>1, <2>2 DEF Sound, ListsAgree
  <2>5. \A g \in ToSet(f.deleted) : g \notin w.monitored /\ w.data[g].change = 0
    <3> SUFFICES ASSUME NEW g \in ToSet(f.deleted)
                 PROVE  g \notin w.monitored /\ w.data[g].change = 0
      OBVIOUS
    <3>1. g \in Handles \ {h} /\ g \notin f.monitored /\ f.data[g].change = 0
      BY <2>2, <2>4, ListFacts DEF Sound, DeletedAreQuiet
    <3>2. QED
      BY <2>3, <3>1
  <2>6. f.pool_wt \in Nat /\ f.pool_wt <= PDR_POOL_SIZE
    BY <2>2, RepoFields DEF Sound, ListsAgree
  <2>7. Sound(w) /\ Records(w) = Records(f) /\ Made(w) = Made(f)
    BY <2>2, <2>3, <2>5, <2>6, SoundSame DEF Sound
  <2>8. Reaches(f, w, {h})
    BY <2>3, <2>7 DEF Reaches
  <2>9. Reaches(r, w, {h})
    BY <2>1, <2>8, ReachesOn
  <2>10. pldm_add_numeric_sensor_pdr(r, h) = w
    BY <1>2 DEF pldm_add_numeric_sensor_pdr, w, f
  <2>11. QED
    BY <2>9, <2>10
<1>3. CASE ~Exists(r, h) /\ Fits(r, Sizes[h])
  <2> DEFINE m == pdr_malloc(r, Sizes[h])
             q == Monitored(Fill(m, h), h)
  <2>1. Sizes[h] \in Nat
    BY SizesAssumption
  <2>2. /\ m \in Repos /\ m.pool_wt = r.pool_wt + Sizes[h]
        /\ m.head = r.head /\ m.deleted = r.deleted /\ m.record_count = r.record_count
        /\ m.size = r.size /\ m.events = r.events /\ m.data = r.data
        /\ m.monitored = r.monitored
    BY <1>1, <2>1, PoolTaken
  <2> HIDE DEF m
  <2>3. /\ q \in Repos
        /\ q.head = m.head /\ q.deleted = m.deleted /\ q.record_count = m.record_count
        /\ q.size = m.size /\ q.pool_wt = m.pool_wt /\ q.events = m.events
        /\ \A g \in Handles \ {h} : q.data[g] = m.data[g]
        /\ q.monitored \subseteq m.monitored \cup {h}
        /\ m.monitored \subseteq TempRecords => q.monitored \subseteq TempRecords
    BY <2>2, RecordFilled
  <2> HIDE DEF q
  <2>4. h \notin Made(r) /\ r.monitored \subseteq TempRecords
    BY <1>3, ExistsIsMade DEF Sound
  <2>5. Reaches(r, AddRecord(q, h), {h})
    BY <1>3, <2>2, <2>3, <2>4, RecordAdded
  <2>6. pldm_add_numeric_sensor_pdr(r, h) = AddRecord(q, h)
    BY <1>3 DEF pldm_add_numeric_sensor_pdr, q, m
  <2>7. QED
    BY <2>5, <2>6
<1>4. CASE ~Exists(r, h) /\ ~Fits(r, Sizes[h])
  BY <1>4, ReachesSelf DEF pldm_add_numeric_sensor_pdr
<1>5. QED
  BY <1>2, <1>3, <1>4

\* A record of what is contained in what: found, put back or made.
LEMMA AssociationAdded ==
  ASSUME NEW r, Sound(r), NEW h \in Handles, ContainerMade(r, h)
  PROVE  LET w == pldm_add_assoc_pdr(r, h)
         IN  Reaches(r, w, {h}) /\ (h \in Made(w) => h \in Records(w))
<1>1. r \in Repos
  BY DEF Sound
<1>2. CASE Exists(r, h)
  BY <1>2, RecordFound, ExistsIsMade DEF pldm_add_assoc_pdr
<1>3. CASE ~Exists(r, h) /\ Fits(r, Sizes[h])
  <2> DEFINE q == pdr_malloc(r, Sizes[h])
  <2>1. Sizes[h] \in Nat
    BY SizesAssumption
  <2>2. /\ q \in Repos /\ q.pool_wt = r.pool_wt + Sizes[h]
        /\ q.head = r.head /\ q.deleted = r.deleted /\ q.record_count = r.record_count
        /\ q.size = r.size /\ q.events = r.events /\ q.data = r.data
        /\ q.monitored = r.monitored
    BY <1>1, <2>1, PoolTaken
  <2> HIDE DEF q
  <2>3. h \notin Made(r) /\ r.monitored \subseteq TempRecords
    BY <1>3, ExistsIsMade DEF Sound
  <2>4. Reaches(r, AddRecord(q, h), {h}) /\ (h \in Made(AddRecord(q, h)) => h \in Records(AddRecord(q, h)))
    BY <1>3, <2>2, <2>3, RecordAdded
  <2>5. pldm_add_assoc_pdr(r, h) = AddRecord(q, h)
    BY <1>3 DEF pldm_add_assoc_pdr, q
  <2>6. QED
    BY <2>4, <2>5
<1>4. CASE ~Exists(r, h) /\ ~Fits(r, Sizes[h])
  BY <1>4, ReachesSelf, ExistsIsMade DEF pldm_add_assoc_pdr
<1>5. QED
  BY <1>2, <1>3, <1>4

\* What is contained is added when its container is there, which is put back for it.
LEMMA ContainedAdded ==
  ASSUME NEW r, Sound(r), NEW container \in Handles, NEW h \in Handles, h # container,
         container \in Made(r) => ContainerMade(r, h)
  PROVE  LET w == AddContained(r, container, h)
         IN  Reaches(r, w, {container, h}) /\ (container \in Made(w) => container \in Records(w))
<1>1. CASE container \in Made(r)
  <2> DEFINE f == pldm_pdr_is_exist(r, container)
             w == pldm_add_assoc_pdr(f, h)
  <2>1. Reaches(r, f, {container}) /\ Made(f) = Made(r) /\ container \in Records(f)
    BY <1>1, RecordFound
  <2> HIDE DEF f
  <2>2. Sound(f) /\ ContainerMade(f, h)
    BY <1>1, <2>1 DEF Reaches, ContainerMade
  <2>3. Reaches(f, w, {h})
    BY <2>2, AssociationAdded
  <2>4. AddContained(r, container, h) = w
    BY <1>1, ExistsIsMade DEF AddContained, f
  <2> HIDE DEF w
  <2>5. container \in Records(w)
    BY <2>1, <2>3 DEF Reaches
  <2>6. Reaches(r, w, {container} \cup {h}) /\ {container} \cup {h} = {container, h}
    BY <2>1, <2>3, ReachesOn
  <2>7. QED
    BY <2>4, <2>5, <2>6
<1>2. CASE container \notin Made(r)
  BY <1>2, ReachesSelf, ExistsIsMade DEF AddContained
<1>3. QED
  BY <1>1, <1>2

\* A record of a link goes to the other list, and nobody watches it any more.
LEMMA RecordDeleted ==
  ASSUME NEW r, Sound(r), NEW h \in LinkRecords, h \in Records(r),
         NEW q, q = [pldm_pdr_delete(r, h) EXCEPT !.monitored = r.monitored \ {h}]
  PROVE  LET w == pldm_pdr_chg_event_generate(q, "deleted", h)
         IN  Reaches(r, w, {h}) /\ Records(w) = Records(r) \ {h}
<1> DEFINE head == Without(r.head, h)
           deleted == Append(r.deleted, h)
           largest == LargestScanned(head, r.record_count)
           size == r.size - Sizes[h]
           count == r.record_count - 1
           data == [r.data EXCEPT ![h].change = 0]
           monitored == r.monitored \ {h}
           w == pldm_pdr_chg_event_generate(q, "deleted", h)
<1>1. r \in Repos /\ h \in Handles /\ Sizes[h] \in Nat \ {0} /\ h \notin ToSet(r.deleted)
  BY HandleFacts, SizesAssumption DEF Sound, ListsAgree
<1>2. q = [r EXCEPT !.data = data, !.head = head, !.deleted = deleted, !.size = size,
                    !.largest_pdr_size = largest, !.record_count = count, !.monitored = monitored]
  BY <1>1 DEF pldm_pdr_delete, Repos
<1>3. /\ head \in Seq(Handles) /\ Len(head) = Len(r.head) - 1 /\ Len(r.head) \in Nat \ {0}
      /\ IsInjective(head) /\ Sorted(head) /\ ToSet(head) = Records(r) \ {h}
  <2>1. Handles \subseteq Nat /\ Sorted(r.head) /\ r.head \in Seq(Handles) /\ IsInjective(r.head)
        /\ h \in ToSet(r.head)
    BY <1>1, HandleFacts, ListFacts, RepoFields DEF Records
  <2>2. QED
    BY <2>1, WithoutKeepsOrder DEF Records
<1>4. deleted \in Seq(Handles) /\ IsInjective(deleted) /\ ToSet(deleted) = ToSet(r.deleted) \cup {h}
  <2> DEFINE n == Len(r.deleted)
  <2>1. r.deleted \in Seq(Handles) /\ IsInjective(r.deleted)
    BY <1>1, RepoFields, ListFacts
  <2>2. /\ deleted \in Seq(Handles) /\ n \in Nat /\ DOMAIN deleted = 1 .. n + 1
        /\ DOMAIN r.deleted = 1 .. n
        /\ deleted[n + 1] = h /\ \A i \in 1 .. n : deleted[i] = r.deleted[i]
    BY <1>1, <2>1
  <2>3. \A i \in 1 .. n : r.deleted[i] # h
    BY <1>1, <2>2 DEF ToSet
  <2> HIDE DEF deleted, n
  <2>4. \A i, j \in 1 .. n : r.deleted[i] = r.deleted[j] => i = j
    BY <2>1, <2>2 DEF IsInjective
  <2>5. ASSUME NEW i \in 1 .. n + 1, NEW j \in 1 .. n + 1, deleted[i] = deleted[j]
        PROVE  i = j
    <3>1. (i = n + 1 \/ i \in 1 .. n) /\ (j = n + 1 \/ j \in 1 .. n)
      BY <2>2
    <3>2. QED
      BY <2>2, <2>3, <2>4, <2>5, <3>1
  <2>6. IsInjective(deleted)
    BY <2>2, <2>5 DEF IsInjective
  <2>7. \A i \in 1 .. n + 1 : i = n + 1 \/ i \in 1 .. n
    BY <2>2
  <2>8. n + 1 \in 1 .. n + 1 /\ 1 .. n \subseteq 1 .. n + 1
    BY <2>2
  <2>9. ToSet(deleted) = ToSet(r.deleted) \cup {h}
    BY <2>2, <2>7, <2>8 DEF ToSet
  <2>10. QED
    BY <2>2, <2>6, <2>9
<1>5. SizesOf(Records(r)) = SizesOf(Records(r) \ {h}) + Sizes[h] /\ SizesOf(Records(r) \ {h}) \in Nat
  <2> DEFINE R == Records(r) \ {h}
  <2>1. R \in SUBSET Handles /\ IsFiniteSet(R)
    BY ListFacts, FS_Subset
  <2>2. h \notin R /\ R \cup {h} = Records(r)
    OBVIOUS
  <2> HIDE DEF R
  <2>3. SizesOf(R \cup {h}) = SizesOf(R) + Sizes[h] /\ SizesOf(R) \in Nat
    BY <1>1, <2>1, <2>2, SizesAdd
  <2>4. QED
    BY <2>2, <2>3 DEF R
<1>6. /\ size = SizesOf(Records(r) \ {h}) /\ size \in Nat
      /\ count = Len(head) /\ count \in Nat /\ largest \in Nat
  <2>1. r.size = SizesOf(Records(r)) /\ r.record_count = Len(r.head)
    BY DEF Sound, ListsAgree
  <2>2. largest \in Nat
    BY <1>3, LargestIsNat
  <2> DEFINE s == SizesOf(Records(r) \ {h})
  <2> HIDE DEF largest, head, s
  <2>3. r.size = s + Sizes[h] /\ s \in Nat
    BY <1>5, <2>1 DEF s
  <2>4. size = s
    BY <1>1, <2>3
  <2>5. QED
    BY <1>3, <2>1, <2>2, <2>3, <2>4 DEF s
<1>7. data \in [Handles -> Data] /\ data[h].change = 0 /\ \A g \in Handles \ {h} : data[g] = r.data[g]
  <2>1. r.data \in [Handles -> Data]
    BY <1>1, RepoFields
  <2>2. [r.data[h] EXCEPT !.change = 0] \in Data /\ [r.data[h] EXCEPT !.change = 0].change = 0
    <3>1. r.data[h] \in Data
      BY <1>1, <2>1
    <3>2. QED
      BY <3>1 DEF Data
  <2>3. data = [r.data EXCEPT ![h] = [r.data[h] EXCEPT !.change = 0]]
    BY <1>1, <2>1
  <2>4. QED
    BY <1>1, <2>1, <2>2, <2>3
<1>8. monitored \in SUBSET Handles /\ monitored \subseteq TempRecords /\ h \notin monitored
  BY <1>1, RepoFields DEF Sound
<1> HIDE DEF head, deleted, largest, size, count, data, monitored
<1>9. /\ q.head = head /\ q.deleted = deleted /\ q.record_count = count
      /\ q.size = size /\ q.pool_wt = r.pool_wt /\ q.monitored = monitored
      /\ q.data = data /\ q.events = r.events
  BY <1>1, <1>2 DEF Repos
<1>10. q \in Repos
  BY <1>1, <1>2, <1>3, <1>4, <1>6, <1>7, <1>8 DEF Repos
<1>11. Records(q) = Records(r) \ {h} /\ Made(q) = Made(r)
  BY <1>3, <1>4, <1>9 DEF Records, Made
<1>12. ListsAgree(q)
  <2>1. \A i, j \in DOMAIN q.head : i < j => q.head[i] < q.head[j]
    BY <1>3, <1>9 DEF Sorted
  <2>2. Records(q) \cap ToSet(q.deleted) = {}
    BY <1>4, <1>9, <1>11 DEF Sound, ListsAgree
  <2>3. q.pool_wt >= SizesOf(Made(q)) + NodeSize * Cardinality(Made(q)) /\ q.pool_wt <= PDR_POOL_SIZE
    BY <1>9, <1>11 DEF Sound, ListsAgree
  <2>4. QED
    BY <1>4, <1>6, <1>9, <1>11, <2>1, <2>2, <2>3 DEF ListsAgree
<1>13. DeletedAreQuiet(q)
  <2> SUFFICES ASSUME NEW g \in ToSet(q.deleted)
               PROVE  g \notin q.monitored /\ q.data[g].change = 0
    BY DEF DeletedAreQuiet
  <2>1. CASE g = h
    BY <1>7, <1>8, <1>9, <2>1
  <2>2. CASE g # h
    <3>1. g \in ToSet(r.deleted) /\ g \in Handles \ {h}
      BY <1>4, <1>9, <2>2, ListFacts
    <3>2. g \notin r.monitored /\ r.data[g].change = 0
      BY <3>1 DEF Sound, DeletedAreQuiet
    <3>3. QED
      BY <1>7, <1>9, <3>1, <3>2 DEF monitored
  <2>3. QED
    BY <2>1, <2>2
<1>14. Sound(q)
  <2>1. MadeTogether(q)
    BY <1>11 DEF Sound, MadeTogether
  <2>2. ToSet(q.deleted) \subseteq LinkRecords
    BY <1>4, <1>9 DEF Sound
  <2>3. QED
    BY <1>8, <1>9, <1>10, <1>12, <1>13, <2>1, <2>2 DEF Sound
<1>15. /\ Sound(w) /\ Records(w) = Records(q) /\ Made(w) = Made(q) /\ w.data = q.data
       /\ \A R \in SUBSET Handles : Told(R, w.events) = Told(R, q.events) \ {h}
  <2>1. "deleted" \in {"added", "deleted", "modified"}
    OBVIOUS
  <2>2. /\ Sound(w) /\ Records(w) = Records(q) /\ Made(w) = Made(q) /\ w.data = q.data
        /\ \A R \in SUBSET Handles : Told(R, w.events) = Heard("deleted", Told(R, q.events), h)
    <3>1. h \in Handles
      BY <1>1
    <3>2. QED
      BY <1>14, <2>1, <3>1, EventKeeps
  <2>3. QED
    BY <2>2 DEF Heard
<1> HIDE DEF w
<1>16. Reaches(r, w, {h})
  BY <1>7, <1>9, <1>11, <1>15 DEF Reaches
<1>17. QED
  BY <1>11, <1>15, <1>16 DEF w

\* The two ways of deleting, for a sensor and for what is contained.
LEMMA SensorDeleted ==
  ASSUME NEW r, Sound(r), NEW h \in LinkRecords
  PROVE  LET w == pldm_delete_numeric_sensor_pdr(r, h)
         IN  Reaches(r, w, {h}) /\ Records(w) = Records(r) \ {h}
<1>1. CASE InHead(r, h)
  <2> DEFINE q == [pldm_pdr_delete(r, h) EXCEPT !.monitored = r.monitored \ {h}]
  <2>1. pldm_delete_numeric_sensor_pdr(r, h) = pldm_pdr_chg_event_generate(q, "deleted", h)
    <3>1. Unmonitored(pldm_pdr_delete(r, h), h) = q
      <4>1. r \in Repos
        BY DEF Sound
      <4>2. pldm_pdr_delete(r, h).monitored = r.monitored
        BY <4>1 DEF pldm_pdr_delete, Repos
      <4>3. QED
        BY <4>2 DEF Unmonitored
    <3>2. QED
      BY <1>1, <3>1 DEF pldm_delete_numeric_sensor_pdr
  <2>2. h \in Records(r)
    BY <1>1 DEF InHead, Records
  <2>3. QED
    BY <2>1, <2>2, RecordDeleted
<1>2. CASE ~InHead(r, h)
  BY <1>2, ReachesSelf DEF pldm_delete_numeric_sensor_pdr, InHead, Records
<1>3. QED
  BY <1>1, <1>2

LEMMA AssociationDeleted ==
  ASSUME NEW r, Sound(r), NEW h \in LinkRecords, h \notin TempRecords
  PROVE  LET w == pldm_delete_assoc_pdr(r, h)
         IN  Reaches(r, w, {h}) /\ Records(w) = Records(r) \ {h}
<1>1. CASE InHead(r, h)
  <2> DEFINE q == [pldm_pdr_delete(r, h) EXCEPT !.monitored = r.monitored \ {h}]
  <2>1. pldm_delete_assoc_pdr(r, h) = pldm_pdr_chg_event_generate(q, "deleted", h)
    <3>1. pldm_pdr_delete(r, h) = q
      <4>1. r \in Repos /\ r.monitored \ {h} = r.monitored
        BY DEF Sound
      <4>2. pldm_pdr_delete(r, h).monitored = r.monitored
        BY <4>1 DEF pldm_pdr_delete, Repos
      <4>3. QED
        BY <4>1, <4>2 DEF pldm_pdr_delete, Repos
    <3>2. QED
      BY <1>1, <3>1 DEF pldm_delete_assoc_pdr
  <2>2. h \in Records(r)
    BY <1>1 DEF InHead, Records
  <2>3. QED
    BY <2>1, <2>2, RecordDeleted
<1>2. CASE ~InHead(r, h)
  BY <1>2, ReachesSelf DEF pldm_delete_assoc_pdr, InHead, Records
<1>3. QED
  BY <1>1, <1>2

\* What each record of a port is contained in.
LEMMA Containers ==
  ASSUME NEW r, NEW port \in Ports
  PROVE  /\ \A h \in {Temp(port), Speed(port), Power(port), Connector(port)} : ContainerMade(r, h)
         /\ Connector(port) \in Made(r) => ContainerMade(r, Plug(port))
         /\ Plug(port) \in Made(r) => ContainerMade(r, CommChan(port))
<1>1. port \in 0 .. 3 /\ \A p \in Ports : p \in 0 .. 3
  BY PortsAssumption DEF Ports
<1>2. ASSUME NEW p \in 0 .. 3
      PROVE  /\ \A h \in {Temp(port), Speed(port), Power(port), Connector(port)} :
                  h # CommChan(p) /\ h # Plug(p)
             /\ Plug(port) # CommChan(p) /\ (Plug(port) = Plug(p) => p = port)
             /\ CommChan(port) # Plug(p) /\ (CommChan(port) = CommChan(p) => p = port)
  BY <1>1 DEF Temp, Speed, Power, Connector, Plug, CommChan
<1>3. QED
  BY <1>1, <1>2, Zenon DEF ContainerMade

\* A link comes up: what is there of its records is there with its containers.
LEMMA LinkComesUp ==
  ASSUME NEW r, Sound(r), NEW port \in Ports
  PROVE  LET w == LinkUp(r, port)
         IN  Reaches(r, w, PortRecords(port)) /\ Linked(w, port)
<1> DEFINE temp == pldm_add_numeric_sensor_pdr(r, Temp(port))
           speed == pldm_add_numeric_sensor_pdr(temp, Speed(port))
           power == pldm_add_numeric_sensor_pdr(speed, Power(port))
           connector == pldm_add_assoc_pdr(power, Connector(port))
           plug == AddContained(connector, Connector(port), Plug(port))
           w == AddContained(plug, Plug(port), CommChan(port))
<1>1. LinkUp(r, port) = w
  BY DEF LinkUp
<1>2. {Temp(port), Speed(port), Power(port), Connector(port), Plug(port), CommChan(port)} \subseteq Handles
  BY PortFacts, HandleFacts
<1>3. Reaches(r, temp, {Temp(port)})
  BY <1>2, Containers, SensorAdded
<1> HIDE DEF temp
<1>4. Reaches(temp, speed, {Speed(port)})
  BY <1>2, <1>3, Containers, SensorAdded DEF Reaches
<1> HIDE DEF speed
<1>5. Reaches(speed, power, {Power(port)})
  BY <1>2, <1>4, Containers, SensorAdded DEF Reaches
<1> HIDE DEF power
<1>6. Reaches(power, connector, {Connector(port)})
  BY <1>2, <1>5, Containers, AssociationAdded DEF Reaches
<1> HIDE DEF connector
<1>7. /\ Reaches(connector, plug, {Connector(port), Plug(port)})
      /\ Connector(port) \in Made(plug) => Connector(port) \in Records(plug)
  <2>1. Sound(connector) /\ Plug(port) # Connector(port)
    BY <1>6, PortFacts DEF Reaches
  <2>2. Connector(port) \in Made(connector) => ContainerMade(connector, Plug(port))
    BY Containers
  <2>3. QED
    BY <1>2, <2>1, <2>2, ContainedAdded
<1> HIDE DEF plug
<1>8. /\ Reaches(plug, w, {Plug(port), CommChan(port)})
      /\ Plug(port) \in Made(w) => Plug(port) \in Records(w)
  <2>1. Sound(plug) /\ CommChan(port) # Plug(port)
    BY <1>7, PortFacts DEF Reaches
  <2>2. Plug(port) \in Made(plug) => ContainerMade(plug, CommChan(port))
    BY Containers
  <2>3. QED
    BY <1>2, <2>1, <2>2, ContainedAdded
<1> HIDE DEF w
<1>9. Reaches(r, w, PortRecords(port))
  <2> DEFINE P == PortRecords(port)
  <2>1. {Temp(port), Speed(port), Power(port), Connector(port), Plug(port), CommChan(port)} \subseteq P
    BY DEF PortRecords, numeric_sensors, assoc_records
  <2> HIDE DEF P
  <2>2. Reaches(r, temp, P) /\ Reaches(temp, speed, P) /\ Reaches(speed, power, P)
        /\ Reaches(power, connector, P) /\ Reaches(connector, plug, P) /\ Reaches(plug, w, P)
    BY <1>3, <1>4, <1>5, <1>6, <1>7, <1>8, <2>1, ReachesMore
  <2>3. \A a, b, c : Reaches(a, b, P) /\ Reaches(b, c, P) => Reaches(a, c, P)
    <3>1. P \cup P = P
      OBVIOUS
    <3>2. QED
      BY <3>1, ReachesOn
  <2>4. QED
    BY <2>2, <2>3 DEF P
<1>10. Linked(w, port)
  <2>1. CommChan(port) \in Records(w) => Plug(port) \in Made(w)
    BY <1>8 DEF Reaches, Sound, MadeTogether, Made
  <2>2. Plug(port) \in Records(w) => Connector(port) \in Made(w)
    BY <1>8 DEF Reaches, Sound, MadeTogether, Made
  <2>3. Connector(port) \in Made(w) => Connector(port) \in Records(w)
    <3>1. Connector(port) \in Handles \ {Plug(port), CommChan(port)}
      BY <1>2, PortFacts
    <3>2. QED
      BY <1>7, <1>8, <3>1 DEF Reaches
  <2>4. QED
    BY <1>8, <2>1, <2>2, <2>3 DEF Linked, InHead, Records
<1>11. QED
  BY <1>1, <1>9, <1>10

\* A link goes down, and takes its records with it.
LEMMA LinkGoesDown ==
  ASSUME NEW r, Sound(r), NEW port \in Ports
  PROVE  LET w == LinkDown(r, port)
         IN  Reaches(r, w, PortRecords(port)) /\ Unlinked(w, port)
<1> DEFINE temp == pldm_delete_numeric_sensor_pdr(r, Temp(port))
           speed == pldm_delete_numeric_sensor_pdr(temp, Speed(port))
           power == pldm_delete_numeric_sensor_pdr(speed, Power(port))
           connector == pldm_delete_assoc_pdr(power, Connector(port))
           plug == pldm_delete_assoc_pdr(connector, Plug(port))
           w == pldm_delete_assoc_pdr(plug, CommChan(port))
<1>1. LinkDown(r, port) = w
  BY DEF LinkDown
<1>2. /\ {Temp(port), Speed(port), Power(port), Connector(port), Plug(port), CommChan(port)} \subseteq LinkRecords
      /\ {Connector(port), Plug(port), CommChan(port)} \cap TempRecords = {}
  BY PortFacts
<1>3. Reaches(r, temp, {Temp(port)}) /\ Records(temp) = Records(r) \ {Temp(port)}
  BY <1>2, SensorDeleted
<1> HIDE DEF temp
<1>4. Reaches(temp, speed, {Speed(port)}) /\ Records(speed) = Records(temp) \ {Speed(port)}
  BY <1>2, <1>3, SensorDeleted DEF Reaches
<1> HIDE DEF speed
<1>5. Reaches(speed, power, {Power(port)}) /\ Records(power) = Records(speed) \ {Power(port)}
  BY <1>2, <1>4, SensorDeleted DEF Reaches
<1> HIDE DEF power
<1>6. Reaches(power, connector, {Connector(port)}) /\ Records(connector) = Records(power) \ {Connector(port)}
  BY <1>2, <1>5, AssociationDeleted DEF Reaches
<1> HIDE DEF connector
<1>7. Reaches(connector, plug, {Plug(port)}) /\ Records(plug) = Records(connector) \ {Plug(port)}
  BY <1>2, <1>6, AssociationDeleted DEF Reaches
<1> HIDE DEF plug
<1>8. Reaches(plug, w, {CommChan(port)}) /\ Records(w) = Records(plug) \ {CommChan(port)}
  BY <1>2, <1>7, AssociationDeleted DEF Reaches
<1> HIDE DEF w
<1>9. Reaches(r, w, PortRecords(port))
  <2> DEFINE P == PortRecords(port)
  <2>1. {Temp(port), Speed(port), Power(port), Connector(port), Plug(port), CommChan(port)} \subseteq P
    BY DEF PortRecords, numeric_sensors, assoc_records
  <2> HIDE DEF P
  <2>2. Reaches(r, temp, P) /\ Reaches(temp, speed, P) /\ Reaches(speed, power, P)
        /\ Reaches(power, connector, P) /\ Reaches(connector, plug, P) /\ Reaches(plug, w, P)
    BY <1>3, <1>4, <1>5, <1>6, <1>7, <1>8, <2>1, ReachesMore
  <2>3. \A a, b, c : Reaches(a, b, P) /\ Reaches(b, c, P) => Reaches(a, c, P)
    <3>1. P \cup P = P
      OBVIOUS
    <3>2. QED
      BY <3>1, ReachesOn
  <2>4. QED
    BY <2>2, <2>3 DEF P
<1>10. Unlinked(w, port)
  BY <1>3, <1>4, <1>5, <1>6, <1>7, <1>8 DEF Unlinked, PortRecords, numeric_sensors, assoc_records
<1>11. QED
  BY <1>1, <1>9, <1>10

Current(r) == r.repo_signature = Contents(r)

\* The signature is computed from the records, and changes nothing else.
LEMMA SignatureUpdated ==
  ASSUME NEW r, Sound(r)
  PROVE  LET w == pldm_monitor_update_repo_signature(r)
         IN  /\ Reaches(r, w, {}) /\ Current(w)
             /\ Records(w) = Records(r) /\ Made(w) = Made(r) /\ w.data = r.data /\ w.events = r.events
<1> DEFINE c == Contents(r)
           w == pldm_monitor_update_repo_signature(r)
<1>1. r \in Repos
  BY DEF Sound
<1>2. c \in Seq([record : Handles, data : Data])
  <2>1. r.head \in Seq(Handles) /\ r.data \in [Handles -> Data]
    BY <1>1, RepoFields
  <2>2. c = [i \in 1 .. Len(r.head) |-> [record |-> r.head[i], data |-> r.data[r.head[i]]]]
    BY <2>1 DEF Contents
  <2>3. \A i \in 1 .. Len(r.head) :
          [record |-> r.head[i], data |-> r.data[r.head[i]]] \in [record : Handles, data : Data]
    BY <2>1
  <2>4. Len(r.head) \in Nat
    BY <2>1
  <2>5. QED
    BY <2>2, <2>3, <2>4
<1>3. w = [r EXCEPT !.repo_signature = c]
  BY DEF pldm_monitor_update_repo_signature
<1> HIDE DEF c, w
<1>4. /\ w.head = r.head /\ w.deleted = r.deleted /\ w.record_count = r.record_count
      /\ w.size = r.size /\ w.pool_wt = r.pool_wt /\ w.monitored = r.monitored
      /\ w.data = r.data /\ w.events = r.events /\ w.repo_signature = c
  BY <1>1, <1>3 DEF Repos
<1>5. w \in Repos
  BY <1>1, <1>2, <1>3 DEF Repos
<1>6. r.pool_wt \in Nat /\ r.pool_wt <= PDR_POOL_SIZE
  BY <1>1, RepoFields DEF Sound, ListsAgree
<1>7. Sound(w) /\ Records(w) = Records(r) /\ Made(w) = Made(r)
  BY <1>4, <1>5, <1>6, SoundSame DEF Sound, DeletedAreQuiet
<1>8. Current(w)
  BY <1>4 DEF Current, Contents, c
<1>9. Reaches(r, w, {})
  BY <1>4, <1>7 DEF Reaches
<1>10. QED
  BY <1>4, <1>7, <1>8, <1>9 DEF w

Settled(r, port, up) == IF up THEN Linked(r, port) ELSE Unlinked(r, port)

\* The link of one port is handled.
LEMMA LinkHandled ==
  ASSUME NEW r, Sound(r), NEW port \in Ports, NEW up \in BOOLEAN
  PROVE  LET w == pldm_link_handle(r, port, up)
         IN  Reaches(r, w, PortRecords(port)) /\ Settled(w, port, up) /\ Current(w)
<1> DEFINE l == IF up THEN LinkUp(r, port) ELSE LinkDown(r, port)
           w == pldm_monitor_update_repo_signature(l)
<1>1. Reaches(r, l, PortRecords(port)) /\ Settled(l, port, up)
  <2>1. CASE up
    BY <2>1, LinkComesUp DEF Settled
  <2>2. CASE ~up
    BY <2>2, LinkGoesDown DEF Settled
  <2>3. QED
    BY <2>1, <2>2
<1>2. pldm_link_handle(r, port, up) = w
  BY DEF pldm_link_handle
<1> HIDE DEF l
<1>3. Reaches(l, w, {}) /\ Current(w) /\ Records(w) = Records(l)
  BY <1>1, SignatureUpdated DEF Reaches
<1> HIDE DEF w
<1>4. Reaches(r, w, PortRecords(port))
  <2>1. PortRecords(port) \cup {} = PortRecords(port)
    OBVIOUS
  <2>2. QED
    BY <1>1, <1>3, <2>1, ReachesOn
<1>5. Settled(w, port, up)
  BY <1>1, <1>3 DEF Settled, Linked, Unlinked, InHead, Records
<1>6. QED
  BY <1>2, <1>3, <1>4, <1>5

\* What is settled for a port stays so when another port is handled.
LEMMA SettledStays ==
  ASSUME NEW r, NEW w, NEW p \in Ports, NEW q \in Ports, p # q, NEW up \in BOOLEAN,
         Settled(r, p, up), Reaches(r, w, PortRecords(q))
  PROVE  Settled(w, p, up)
<1>1. \A h \in PortRecords(p) : h \in Records(w) <=> h \in Records(r)
  <2>1. PortRecords(p) \subseteq Handles \ PortRecords(q)
    BY PortsAreApart, HandleFacts
  <2>2. QED
    BY <2>1 DEF Reaches
<1>2. {Connector(p), Plug(p), CommChan(p)} \subseteq PortRecords(p)
  BY DEF PortRecords, assoc_records
<1>3. QED
  BY <1>1, <1>2 DEF Settled, Linked, Unlinked, InHead, Records

\* The ports are handled one after the other.
LEMMA PortsHandledInTurn ==
  ASSUME NEW r, NEW up, NEW N \in Nat
  PROVE  \E f : f = [n \in 0 .. N |-> IF n = 0 THEN r ELSE pldm_link_handle(f[n - 1], n - 1, up)]
<1> DEFINE S == {m \in Nat : \E f : f = [n \in 0 .. m |->
                    IF n = 0 THEN r ELSE pldm_link_handle(f[n - 1], n - 1, up)]}
<1>1. 0 \in S
  <2> DEFINE f == [n \in 0 .. 0 |-> r]
  <2>1. f = [n \in 0 .. 0 |-> IF n = 0 THEN r ELSE pldm_link_handle(f[n - 1], n - 1, up)]
    OBVIOUS
  <2>2. QED
    BY <2>1
<1>2. ASSUME NEW m \in Nat, m \in S
      PROVE  m + 1 \in S
  <2>1. PICK f : f = [n \in 0 .. m |-> IF n = 0 THEN r ELSE pldm_link_handle(f[n - 1], n - 1, up)]
    BY <1>2
  <2> DEFINE g == [n \in 0 .. m + 1 |-> IF n <= m THEN f[n] ELSE pldm_link_handle(f[m], m, up)]
  <2>2. ASSUME NEW n \in 0 .. m + 1
        PROVE  g[n] = IF n = 0 THEN r ELSE pldm_link_handle(g[n - 1], n - 1, up)
    <3>1. CASE n <= m
      <4>1. n \in 0 .. m /\ (n # 0 => n - 1 \in 0 .. m + 1 /\ n - 1 <= m)
        BY <3>1
      <4>2. f[n] = IF n = 0 THEN r ELSE pldm_link_handle(f[n - 1], n - 1, up)
        BY <2>1, <4>1
      <4>3. g[n] = f[n] /\ (n # 0 => g[n - 1] = f[n - 1])
        BY <3>1, <4>1
      <4>4. QED
        BY <4>2, <4>3
    <3>2. CASE n = m + 1
      <4>1. g[n] = pldm_link_handle(f[m], m, up) /\ m \in 0 .. m + 1 /\ n # 0 /\ n - 1 = m
        BY <3>2
      <4>2. g[m] = f[m]
        BY <4>1
      <4>3. QED
        BY <4>1, <4>2
    <3>3. QED
      BY <3>1, <3>2
  <2>3. g = [n \in 0 .. m + 1 |-> IF n = 0 THEN r ELSE pldm_link_handle(g[n - 1], n - 1, up)]
    BY <2>2
  <2>4. m + 1 \in Nat /\ \E f2 : f2 = [n \in 0 .. m + 1 |->
                  IF n = 0 THEN r ELSE pldm_link_handle(f2[n - 1], n - 1, up)]
    <3> HIDE DEF g
    <3>1. QED
      BY <2>3
  <2>5. QED
    BY <2>4
<1>3. N \in S
  BY <1>1, <1>2, Induction
<1>4. QED
  BY <1>3

\* All links come up or go down: the repository stays in order, every port is settled,
\* no other record is touched, and the signature is that of the records.
LEMMA LinksHandled ==
  ASSUME NEW r, Sound(r), NEW up \in BOOLEAN
  PROVE  LET w == LinkAll(r, up)
         IN  Reaches(r, w, LinkRecords) /\ LinksDecide(w, up) /\ Current(w)
<1> DEFINE Handled(f) == f = [n \in 0 .. MAX_LAN_NUM |->
                            IF n = 0 THEN r ELSE pldm_link_handle(f[n - 1], n - 1, up)]
           handled == CHOOSE f : Handled(f)
<1>1. MAX_LAN_NUM \in Nat \ {0}
  BY PortsAssumption
<1>2. Handled(handled)
  BY <1>1, PortsHandledInTurn
<1>3. LinkAll(r, up) = handled[MAX_LAN_NUM]
  BY DEF LinkAll
<1>4. /\ handled[0] = r
      /\ \A n \in 0 .. MAX_LAN_NUM : n # 0 => handled[n] = pldm_link_handle(handled[n - 1], n - 1, up)
  <2>1. \A n \in 0 .. MAX_LAN_NUM :
          handled[n] = IF n = 0 THEN r ELSE pldm_link_handle(handled[n - 1], n - 1, up)
    <3> HIDE DEF handled
    <3>1. QED
      BY <1>2
  <2>2. 0 \in 0 .. MAX_LAN_NUM
    BY <1>1
  <2> HIDE DEF handled
  <2>3. QED
    BY <2>1, <2>2
<1> HIDE DEF handled, Handled
<1> DEFINE Good(n) == /\ Reaches(r, handled[n], LinkRecords)
                      /\ \A p \in Ports : p < n => Settled(handled[n], p, up)
                      /\ n # 0 => Current(handled[n])
           S == {n \in Nat : n <= MAX_LAN_NUM => Good(n)}
<1>5. 0 \in S
  <2>1. \A p \in Ports : ~(p < 0)
    BY DEF Ports
  <2>2. QED
    BY <1>4, <2>1, ReachesSelf
<1>6. ASSUME NEW n \in Nat, n \in S
      PROVE  n + 1 \in S
  <2> SUFFICES ASSUME n + 1 <= MAX_LAN_NUM
               PROVE  Good(n + 1)
    OBVIOUS
  <2>1. n \in Ports /\ n + 1 \in 0 .. MAX_LAN_NUM /\ n + 1 # 0 /\ (n + 1) - 1 = n /\ n <= MAX_LAN_NUM
    BY <1>1 DEF Ports
  <2>2. Good(n)
    BY <1>6, <2>1
  <2>3. handled[n + 1] = pldm_link_handle(handled[n], n, up)
    BY <1>4, <2>1
  <2>4. /\ Reaches(handled[n], handled[n + 1], PortRecords(n))
        /\ Settled(handled[n + 1], n, up) /\ Current(handled[n + 1])
    BY <2>1, <2>2, <2>3, LinkHandled DEF Reaches
  <2>5. Reaches(r, handled[n + 1], LinkRecords)
    <3>1. LinkRecords \cup PortRecords(n) = LinkRecords
      BY <2>1, HandleFacts
    <3>2. QED
      BY <2>2, <2>4, <3>1, ReachesOn
  <2>6. ASSUME NEW p \in Ports, p < n + 1
        PROVE  Settled(handled[n + 1], p, up)
    <3>1. CASE p = n
      BY <2>4, <3>1
    <3>2. CASE p # n
      <4>1. p < n
        BY <2>6, <3>2 DEF Ports
      <4>2. Settled(handled[n], p, up)
        BY <2>2, <4>1
      <4>3. QED
        BY <2>1, <2>4, <3>2, <4>2, SettledStays
    <3>3. QED
      BY <3>1, <3>2
  <2>7. QED
    BY <2>4, <2>5, <2>6
<1>7. MAX_LAN_NUM \in S
  <2> HIDE DEF S
  <2>1. QED
    BY <1>1, <1>5, <1>6, Induction
<1>8. Good(MAX_LAN_NUM)
  BY <1>1, <1>7
<1>9. \A p \in Ports : Settled(handled[MAX_LAN_NUM], p, up)
  BY <1>1, <1>8 DEF Ports
<1>10. QED
  BY <1>1, <1>3, <1>8, <1>9 DEF LinksDecide, Settled

\* The events of the last step are forgotten.
LEMMA EventsForgotten ==
  ASSUME NEW r, Sound(r)
  PROVE  LET w == NoEvents(r)
         IN  /\ Sound(w) /\ Records(w) = Records(r) /\ Made(w) = Made(r) /\ w.data = r.data
             /\ w.head = r.head /\ w.deleted = r.deleted
             /\ w.events = <<>> /\ (Current(r) => Current(w))
<1> DEFINE w == NoEvents(r)
<1>1. r \in Repos
  BY DEF Sound
<1>2. w = [r EXCEPT !.events = <<>>]
  BY DEF NoEvents
<1> HIDE DEF w
<1>3. /\ w.head = r.head /\ w.deleted = r.deleted /\ w.record_count = r.record_count
      /\ w.size = r.size /\ w.pool_wt = r.pool_wt /\ w.monitored = r.monitored
      /\ w.data = r.data /\ w.events = <<>> /\ w.repo_signature = r.repo_signature
  BY <1>1, <1>2 DEF Repos
<1>4. w \in Repos
  <2> DEFINE E == <<>>
  <2>1. E \in Seq(Events) /\ w = [r EXCEPT !.events = E]
    BY <1>2
  <2> HIDE DEF E
  <2>2. QED
    BY <1>1, <2>1 DEF Repos
<1>5. r.pool_wt \in Nat /\ r.pool_wt <= PDR_POOL_SIZE
  BY <1>1, RepoFields DEF Sound, ListsAgree
<1>6. Sound(w) /\ Records(w) = Records(r) /\ Made(w) = Made(r)
  BY <1>3, <1>4, <1>5, SoundSame DEF Sound, DeletedAreQuiet
<1>7. QED
  BY <1>3, <1>6 DEF w, Current, Contents

(***************************************************************************)
(* Start-up.                                                               *)
(***************************************************************************)
\* The repository before any record.
LEMMA EmptyIsSound ==
  ASSUME NEW locator \in Vals
  PROVE  LET r == pldm_pdr_init(locator)
         IN  /\ Sound(r) /\ Made(r) = {} /\ r.pool_wt = 0 /\ Current(r)
<1> DEFINE data == [h \in Handles |-> [change |-> 0,
                      val |-> IF h = TerminusLocator THEN locator
                              ELSE IF h \in TempRecords THEN DefaultLimits ELSE NULL]]
           r == pldm_pdr_init(locator)
<1>1. data \in [Handles -> Data]
  BY DEF Data, Vals
<1>2. r = [ head |-> <<>>, deleted |-> <<>>, record_count |-> 0, size |-> 0,
            largest_pdr_size |-> 0, repo_signature |-> <<>>, data |-> data,
            pool_wt |-> 0, monitored |-> {}, events |-> <<>> ]
  BY DEF pldm_pdr_init
<1> HIDE DEF data, r
<1>3. r \in Repos
  <2>1. <<>> \in Seq(Handles) /\ <<>> \in Seq([record : Handles, data : Data]) /\ <<>> \in Seq(Events)
        /\ {} \in SUBSET Handles /\ 0 \in Nat
    OBVIOUS
  <2>2. QED
    BY <1>1, <1>2, <2>1 DEF Repos
<1>4. /\ r.head = <<>> /\ r.deleted = <<>> /\ r.record_count = 0 /\ r.size = 0 /\ r.pool_wt = 0
      /\ r.monitored = {} /\ r.repo_signature = <<>>
  BY <1>2
<1>5. ToSet(<<>>) = {} /\ DOMAIN <<>> = {} /\ Len(<<>>) = 0
  BY DEF ToSet
<1>6. Records(r) = {} /\ Made(r) = {}
  BY <1>4, <1>5 DEF Records, Made
<1>7. ListsAgree(r)
  <2>1. SizesOf({}) = 0 /\ Cardinality({}) = 0 /\ NodeSize \in Nat /\ PDR_POOL_SIZE \in Nat
    BY NothingIsEmpty, FS_EmptySet, SizesAssumption
  <2>2. r.pool_wt >= SizesOf(Made(r)) + NodeSize * Cardinality(Made(r)) /\ r.pool_wt <= PDR_POOL_SIZE
    BY <1>4, <1>6, <2>1
  <2>3. IsInjective(r.deleted)
    BY <1>4, <1>5 DEF IsInjective
  <2>4. QED
    BY <1>4, <1>5, <1>6, <2>1, <2>2, <2>3 DEF ListsAgree
<1>8. DeletedAreQuiet(r) /\ MadeTogether(r)
  BY <1>4, <1>5, <1>6 DEF DeletedAreQuiet, MadeTogether
<1>9. Sound(r)
  BY <1>3, <1>4, <1>5, <1>7, <1>8 DEF Sound
<1>10. Current(r)
  <2>1. Contents(r) = <<>>
    BY <1>4, <1>5 DEF Contents
  <2>2. QED
    BY <1>4, <2>1 DEF Current
<1>11. QED
  BY <1>4, <1>6, <1>9, <1>10 DEF r

\* The records of flash are added one after the other.
LEMMA RecordsLoadedInTurn ==
  ASSUME NEW r, NEW N \in Nat
  PROVE  \E f : f = [n \in 0 .. N |-> IF n = 0 THEN r ELSE pldm_pdr_add(f[n - 1], NvmList[n])]
<1> DEFINE S == {m \in Nat : \E f : f = [n \in 0 .. m |->
                    IF n = 0 THEN r ELSE pldm_pdr_add(f[n - 1], NvmList[n])]}
<1>1. 0 \in S
  <2> DEFINE f == [n \in 0 .. 0 |-> r]
  <2>1. f = [n \in 0 .. 0 |-> IF n = 0 THEN r ELSE pldm_pdr_add(f[n - 1], NvmList[n])]
    OBVIOUS
  <2>2. QED
    BY <2>1
<1>2. ASSUME NEW m \in Nat, m \in S
      PROVE  m + 1 \in S
  <2>1. PICK f : f = [n \in 0 .. m |-> IF n = 0 THEN r ELSE pldm_pdr_add(f[n - 1], NvmList[n])]
    BY <1>2
  <2> DEFINE g == [n \in 0 .. m + 1 |-> IF n <= m THEN f[n] ELSE pldm_pdr_add(f[m], NvmList[m + 1])]
  <2>2. ASSUME NEW n \in 0 .. m + 1
        PROVE  g[n] = IF n = 0 THEN r ELSE pldm_pdr_add(g[n - 1], NvmList[n])
    <3>1. CASE n <= m
      <4>1. n \in 0 .. m /\ (n # 0 => n - 1 \in 0 .. m + 1 /\ n - 1 <= m)
        BY <3>1
      <4>2. f[n] = IF n = 0 THEN r ELSE pldm_pdr_add(f[n - 1], NvmList[n])
        BY <2>1, <4>1
      <4>3. g[n] = f[n] /\ (n # 0 => g[n - 1] = f[n - 1])
        BY <3>1, <4>1
      <4>4. QED
        BY <4>2, <4>3
    <3>2. CASE n = m + 1
      <4>1. g[n] = pldm_pdr_add(f[m], NvmList[m + 1]) /\ m \in 0 .. m + 1 /\ n # 0 /\ n - 1 = m
        BY <3>2
      <4>2. g[m] = f[m]
        BY <4>1
      <4>3. QED
        BY <3>2, <4>1, <4>2
    <3>3. QED
      BY <3>1, <3>2
  <2>3. g = [n \in 0 .. m + 1 |-> IF n = 0 THEN r ELSE pldm_pdr_add(g[n - 1], NvmList[n])]
    BY <2>2
  <2>4. m + 1 \in Nat /\ \E f2 : f2 = [n \in 0 .. m + 1 |->
                  IF n = 0 THEN r ELSE pldm_pdr_add(f2[n - 1], NvmList[n])]
    <3> HIDE DEF g
    <3>1. QED
      BY <2>3
  <2>5. QED
    BY <2>4
<1>3. N \in S
  BY <1>1, <1>2, Induction
<1>4. QED
  BY <1>3

\* Loading the records of flash leaves the repository in order, also when the pool is
\* used up meanwhile.
LEMMA FlashIsLoaded ==
  ASSUME NEW spare \in Nat, NEW locator \in Vals
  PROVE  Sound(pldm_monitor_pdr_init(spare, locator))
<1> DEFINE empty == pldm_pdr_init(locator)
           total == SizesOf(NvmRecords)
           area == spare + total
           start == pdr_malloc(empty, area)
           Loading(f) == f = [n \in 0 .. Len(NvmList) |->
                           IF n = 0 THEN start ELSE pldm_pdr_add(f[n - 1], NvmList[n])]
           loaded == CHOOSE f : Loading(f)
<1>1. pldm_monitor_pdr_init(spare, locator) =
        IF Fits(empty, area) THEN loaded[Len(NvmList)] ELSE empty
  BY DEF pldm_monitor_pdr_init
<1>2. Sound(empty) /\ Made(empty) = {} /\ empty.pool_wt = 0
  BY EmptyIsSound
<1>3. CASE ~Fits(empty, area)
  BY <1>1, <1>2, <1>3
<1>4. CASE Fits(empty, area)
  <2>1. NvmList \in Seq(Handles) /\ Len(NvmList) \in Nat /\ NvmRecords \in SUBSET Handles
        /\ IsFiniteSet(NvmRecords)
    <3>1. NvmRecords \in SUBSET Handles
      BY HandleFacts
    <3>2. \A i \in DOMAIN NvmList : NvmList[i] \in NvmRecords
      BY DEF NvmRecords, ToSet
    <3>3. NvmList \in Seq(Nat \ {0})
      BY NvmAssumption
    <3>4. NvmList \in Seq(Handles)
      BY <3>1, <3>2, <3>3
    <3>5. IsFiniteSet(NvmRecords)
      BY <3>3, ListIsFinite DEF NvmRecords
    <3>6. QED
      BY <3>1, <3>4, <3>5
  <2>2. total \in Nat
    BY <2>1, BytesAreFinite
  <2>3. Loading(loaded)
    BY <2>1, RecordsLoadedInTurn
  <2> HIDE DEF empty, total
  <2>4. Sound(start) /\ Made(start) = {} /\ start.pool_wt >= total
    <3>1. empty \in Repos /\ area \in Nat
      BY <1>2, <2>2 DEF Sound
    <3>2. /\ start \in Repos /\ start.pool_wt = empty.pool_wt + area
          /\ start.head = empty.head /\ start.deleted = empty.deleted
          /\ start.record_count = empty.record_count
          /\ start.size = empty.size /\ start.events = empty.events /\ start.data = empty.data
          /\ start.monitored = empty.monitored
      BY <3>1, PoolTaken
    <3> HIDE DEF start
    <3>3. start.pool_wt \in Nat /\ empty.pool_wt <= start.pool_wt /\ start.pool_wt <= PDR_POOL_SIZE
          /\ start.pool_wt >= total
      <4>1. PDR_POOL_SIZE \in Nat
        BY SizesAssumption
      <4>2. QED
        BY <1>2, <1>4, <2>2, <3>2, <4>1 DEF Fits
    <3>4. QED
      BY <1>2, <3>2, <3>3, SoundSame DEF Sound, DeletedAreQuiet
  <2> HIDE DEF start, area
  <2>5. /\ loaded[0] = start
        /\ \A n \in 0 .. Len(NvmList) : n # 0 => loaded[n] = pldm_pdr_add(loaded[n - 1], NvmList[n])
    <3>1. \A n \in 0 .. Len(NvmList) :
            loaded[n] = IF n = 0 THEN start ELSE pldm_pdr_add(loaded[n - 1], NvmList[n])
      <4> HIDE DEF loaded
      <4>1. QED
        BY <2>3
    <3>2. 0 \in 0 .. Len(NvmList)
      BY <2>1
    <3> HIDE DEF loaded
    <3>3. QED
      BY <3>1, <3>2
  <2> HIDE DEF loaded, Loading
  <2> DEFINE Good(n) == /\ Sound(loaded[n])
                        /\ Made(loaded[n]) \subseteq {NvmList[i] : i \in 1 .. n}
                        /\ loaded[n].pool_wt >= total + NodeSize * Cardinality(Made(loaded[n]))
             S == {n \in Nat : n <= Len(NvmList) => Good(n)}
  <2>6. 0 \in S
    <3>1. Cardinality({}) = 0 /\ NodeSize \in Nat
      BY FS_EmptySet, SizesAssumption
    <3>2. start.pool_wt >= total + NodeSize * Cardinality(Made(start))
      <4>1. NodeSize * 0 = 0 /\ total + 0 = total
        BY <2>2, <3>1
      <4>2. QED
        BY <2>4, <3>1, <4>1
    <3>3. QED
      BY <2>4, <2>5, <3>2
  <2>7. ASSUME NEW n \in Nat, n \in S
        PROVE  n + 1 \in S
    <3> SUFFICES ASSUME n + 1 <= Len(NvmList)
                 PROVE  Good(n + 1)
      OBVIOUS
    <3> DEFINE q == loaded[n]
               h == NvmList[n + 1]
               w == loaded[n + 1]
    <3>1. n + 1 \in 1 .. Len(NvmList) /\ n + 1 \in 0 .. Len(NvmList) /\ n + 1 # 0 /\ (n + 1) - 1 = n
          /\ n <= Len(NvmList)
      BY <2>1
    <3>2. Good(n) /\ w = pldm_pdr_add(q, h)
      BY <2>5, <2>7, <3>1
    <3>3. h \in NvmRecords /\ h \in Handles
      BY <2>1, <3>1 DEF NvmRecords, ToSet
    <3>4. h \notin Made(q)
      <4>1. \A i, j \in 1 .. Len(NvmList) : NvmList[i] = NvmList[j] => i = j
        BY <2>1, NvmAssumption DEF IsInjective
      <4>2. \A i \in 1 .. n : i \in 1 .. Len(NvmList) /\ i # n + 1
        BY <2>1, <3>1
      <4>3. \A i \in 1 .. n : NvmList[i] # h
        BY <3>1, <4>1, <4>2
      <4>4. QED
        BY <3>2, <4>3
    <3>5. ContainerMade(q, h)
      <4>1. \A port \in Ports : CommChan(port) \in LinkRecords /\ Plug(port) \in LinkRecords
        BY PortFacts
      <4>2. h \notin LinkRecords
        BY <3>3, HandleFacts
      <4>3. QED
        BY <4>1, <4>2 DEF ContainerMade
    <3> HIDE DEF h
    <3>6. CASE ~Fits(q, NodeSize)
      <4>1. w = q
        BY <3>2, <3>6 DEF pldm_pdr_add
      <4>2. {NvmList[i] : i \in 1 .. n} \subseteq {NvmList[i] : i \in 1 .. n + 1}
        <5>1. 1 .. n \subseteq 1 .. n + 1
          OBVIOUS
        <5>2. QED
          BY <5>1
      <4>3. QED
        BY <3>2, <4>1, <4>2
    <3>7. CASE Fits(q, NodeSize)
      <4> DEFINE c == NodeSize * Cardinality(Made(q))
                 s == SizesOf(Made(q) \cup {h})
      <4>1. Made(q) \in SUBSET Handles /\ IsFiniteSet(Made(q))
        BY <3>2, ListFacts
      <4>2. NodeSize * Cardinality(Made(q) \cup {h}) = c + NodeSize /\ c \in Nat /\ NodeSize \in Nat
        BY <3>3, <3>4, <4>1, NodesAdd
      <4>3. s <= total /\ s \in Nat
        <5>1. Made(q) \cup {h} \in SUBSET NvmRecords
          <6>1. \A i \in 1 .. n : NvmList[i] \in NvmRecords
            <7>1. \A i \in 1 .. n : i \in DOMAIN NvmList
              BY <2>1, <3>1
            <7>2. QED
              BY <7>1 DEF NvmRecords, ToSet
          <6>2. QED
            BY <3>2, <3>3, <6>1
        <5>2. s <= total
          BY <2>1, <5>1, SizesGrow DEF total
        <5>3. s \in Nat
          <6>1. SizesOf(Made(q) \cup {h}) = SizesOf(Made(q)) + Sizes[h]
                /\ SizesOf(Made(q)) \in Nat /\ Sizes[h] \in Nat \ {0}
            BY <3>3, <3>4, <4>1, SizesAdd
          <6>2. QED
            BY <6>1
        <5>4. QED
          BY <5>2, <5>3
      <4>4. q.pool_wt >= total + c /\ q.pool_wt \in Nat
        BY <3>2, RepoFields DEF Sound
      <4> HIDE DEF c, s
      <4>5. q.pool_wt >= s + c
        BY <2>2, <4>2, <4>3, <4>4
      <4>6. q.pool_wt >= SizesOf(Made(q) \cup {h}) + NodeSize * Cardinality(Made(q))
        BY <4>5 DEF s, c
      <4>7. /\ Sound(w) /\ Made(w) = Made(q) \cup {h} /\ w.pool_wt = q.pool_wt + NodeSize
        BY <3>2, <3>3, <3>4, <3>5, <3>7, <4>6, NodeAdded
      <4>8. w.pool_wt >= total + NodeSize * Cardinality(Made(w))
        <5>1. w.pool_wt >= total + (c + NodeSize)
          BY <2>2, <4>2, <4>4, <4>7
        <5>2. QED
          BY <4>2, <4>7, <5>1
      <4>9. Made(w) \subseteq {NvmList[i] : i \in 1 .. n + 1}
        <5>1. \A i \in 1 .. n : i \in 1 .. n + 1
          OBVIOUS
        <5>2. n + 1 \in 1 .. n + 1
          OBVIOUS
        <5>3. QED
          BY <3>2, <4>7, <5>1, <5>2 DEF h
      <4>10. QED
        BY <4>7, <4>8, <4>9
    <3>8. QED
      BY <3>6, <3>7
  <2>8. Len(NvmList) \in S
    <3> HIDE DEF S
    <3>1. QED
      BY <2>1, <2>6, <2>7, Induction
  <2>9. Sound(loaded[Len(NvmList)])
    BY <2>1, <2>8
  <2>10. QED
    BY <1>1, <1>4, <2>9 DEF empty, area, total, start, loaded, Loading
<1>5. QED
  BY <1>3, <1>4

(***************************************************************************)
(* The commands that change the records.                                   *)
(***************************************************************************)
\* A record is written: its change number counts up, and an event tells of it.
LEMMA RecordModified ==
  ASSUME NEW r, Sound(r), NEW h \in Records(r), NEW val \in Vals
  PROVE  LET w == Modified(r, h, val)
         IN  /\ Reaches(r, w, {h}) /\ Current(w)
             /\ Records(w) = Records(r)
             /\ w.data[h].change = r.data[h].change + 1
             /\ \E e \in ToSet(w.events) : e.record = h
<1> DEFINE data == [r.data EXCEPT ![h] = [change |-> @.change + 1, val |-> val]]
           q == [r EXCEPT !.data = data]
           n == pldm_pdr_chg_event_generate(q, "modified", h)
           w == pldm_monitor_update_repo_signature(n)
<1>1. r \in Repos /\ h \in Handles /\ h \notin ToSet(r.deleted)
  BY ListFacts DEF Sound, ListsAgree
<1>2. Modified(r, h, val) = w
  BY <1>1 DEF Modified, Repos
<1>3. /\ data \in [Handles -> Data] /\ data[h].change = r.data[h].change + 1
      /\ \A g \in Handles \ {h} : data[g] = r.data[g]
  <2>1. r.data \in [Handles -> Data]
    BY <1>1, RepoFields
  <2>2. [change |-> r.data[h].change + 1, val |-> val] \in Data
    <3>1. r.data[h] \in Data
      BY <1>1, <2>1
    <3>2. QED
      BY <3>1 DEF Data
  <2>3. data = [r.data EXCEPT ![h] = [change |-> r.data[h].change + 1, val |-> val]]
    BY <1>1, <2>1
  <2>4. QED
    BY <1>1, <2>1, <2>2, <2>3
<1> HIDE DEF data
<1>4. /\ q.head = r.head /\ q.deleted = r.deleted /\ q.record_count = r.record_count
      /\ q.size = r.size /\ q.pool_wt = r.pool_wt /\ q.monitored = r.monitored
      /\ q.data = data /\ q.events = r.events
  BY <1>1 DEF Repos
<1>5. q \in Repos
  BY <1>1, <1>3 DEF Repos
<1> HIDE DEF q
<1>6. r.pool_wt \in Nat /\ r.pool_wt <= PDR_POOL_SIZE
  BY <1>1, RepoFields DEF Sound, ListsAgree
<1>7. \A g \in ToSet(r.deleted) : g \notin q.monitored /\ q.data[g].change = 0
  <2>1. \A g \in ToSet(r.deleted) : g \in Handles \ {h}
    BY <1>1, ListFacts
  <2>2. QED
    BY <1>3, <1>4, <2>1 DEF Sound, DeletedAreQuiet
<1>8. Sound(q) /\ Records(q) = Records(r) /\ Made(q) = Made(r)
  BY <1>4, <1>5, <1>6, <1>7, SoundSame DEF Sound
<1>9. /\ Sound(n) /\ Records(n) = Records(q) /\ Made(n) = Made(q) /\ n.data = q.data
      /\ \A R \in SUBSET Handles : Told(R, n.events) = Told(R, q.events)
      /\ \E e \in ToSet(n.events) : e.record = h
  <2>1. "modified" \in {"added", "deleted", "modified"}
    OBVIOUS
  <2>2. h \in Handles
    BY <1>1
  <2>3. /\ Sound(n) /\ Records(n) = Records(q) /\ Made(n) = Made(q) /\ n.data = q.data
        /\ \A R \in SUBSET Handles : Told(R, n.events) = Heard("modified", Told(R, q.events), h)
        /\ \E e \in ToSet(n.events) : e.record = h
    BY <1>8, <2>1, <2>2, EventKeeps
  <2>4. QED
    BY <2>3 DEF Heard
<1> HIDE DEF n
<1>10. /\ Reaches(n, w, {}) /\ Current(w)
       /\ Records(w) = Records(n) /\ Made(w) = Made(n) /\ w.data = n.data /\ w.events = n.events
  BY <1>9, SignatureUpdated
<1> HIDE DEF w
<1>11. Reaches(r, w, {h})
  <2>1. Sound(w)
    BY <1>10 DEF Reaches
  <2>2. \A R \in SUBSET Handles :
          Told(R, r.events) = Records(r) => Told(R, w.events) = Records(w)
    BY <1>4, <1>8, <1>9, <1>10
  <2>3. QED
    BY <1>3, <1>4, <1>8, <1>9, <1>10, <2>1, <2>2 DEF Reaches
<1>12. QED
  BY <1>2, <1>3, <1>4, <1>8, <1>9, <1>10, <1>11

\* From one repository to the next one: it stays in order, nothing that was made is lost, the
\* events tell the change, and a record that stays keeps its data, or counts its change
\* number up and has an event.
Moves(r, s, up) ==
  /\ Sound(s) /\ Current(s) /\ LinksDecide(s, up)
  /\ Made(r) \subseteq Made(s)
  /\ Told(Records(r), s.events) = Records(s)
  /\ \A h \in Records(r) \cap Records(s) :
       \/ s.data[h] = r.data[h]
       \/ /\ s.data[h].change = r.data[h].change + 1
          /\ \E e \in ToSet(s.events) : e.record = h

\* Which records are linked is all that decides.
LEMMA LinksStay ==
  ASSUME NEW r, NEW s, NEW up, Records(s) = Records(r), LinksDecide(r, up)
  PROVE  LinksDecide(s, up)
  BY DEF LinksDecide, Linked, Unlinked, InHead, Records

\* A step that leaves the records alone.
LEMMA QuietMoves ==
  ASSUME NEW r, Sound(r), Current(r), NEW up, LinksDecide(r, up)
  PROVE  LET s == NoEvents(r)
         IN  Moves(r, s, up) /\ Records(s) = Records(r) /\ Made(s) = Made(r) /\ s.data = r.data
<1> DEFINE s == NoEvents(r)
<1>1. /\ Sound(s) /\ Records(s) = Records(r) /\ Made(s) = Made(r) /\ s.data = r.data
      /\ s.events = <<>> /\ Current(s)
  BY EventsForgotten
<1> HIDE DEF s
<1>2. Told(Records(r), s.events) = Records(r)
  BY <1>1, ListFacts, ToldNothing
<1>3. QED
  BY <1>1, <1>2, LinksStay DEF Moves, s

\* A record is written.
LEMMA ModifiedMoves ==
  ASSUME NEW r, Sound(r), NEW up, LinksDecide(r, up), NEW h \in Records(r), NEW val \in Vals
  PROVE  Moves(r, Modified(NoEvents(r), h, val), up)
<1> DEFINE q == NoEvents(r)
           s == Modified(q, h, val)
<1>1. /\ Sound(q) /\ Records(q) = Records(r) /\ Made(q) = Made(r) /\ q.data = r.data
      /\ q.events = <<>>
  BY EventsForgotten
<1> HIDE DEF q
<1>2. /\ Reaches(q, s, {h}) /\ Current(s)
      /\ Records(s) = Records(q)
      /\ s.data[h].change = q.data[h].change + 1
      /\ \E e \in ToSet(s.events) : e.record = h
  BY <1>1, RecordModified
<1> HIDE DEF s
<1>3. Told(Records(r), s.events) = Records(s)
  <2>1. Records(r) \in SUBSET Handles /\ Told(Records(r), q.events) = Records(q)
    BY <1>1, ListFacts, ToldNothing
  <2>2. QED
    BY <1>2, <2>1 DEF Reaches
<1>4. \A g \in Records(r) \cap Records(s) :
         \/ s.data[g] = r.data[g]
         \/ /\ s.data[g].change = r.data[g].change + 1
            /\ \E e \in ToSet(s.events) : e.record = g
  <2> SUFFICES ASSUME NEW g \in Records(r) \cap Records(s)
               PROVE  \/ s.data[g] = r.data[g]
                      \/ /\ s.data[g].change = r.data[g].change + 1
                         /\ \E e \in ToSet(s.events) : e.record = g
    OBVIOUS
  <2>1. CASE g = h
    BY <1>1, <1>2, <2>1
  <2>2. CASE g # h
    <3>1. g \in Handles \ {h}
      BY <2>2, ListFacts
    <3>2. QED
      BY <1>1, <1>2, <3>1 DEF Reaches
  <2>3. QED
    BY <2>1, <2>2
<1>5. LinksDecide(s, up)
  BY <1>1, <1>2, LinksStay
<1>6. QED
  BY <1>1, <1>2, <1>3, <1>4, <1>5 DEF Reaches, Moves, s, q

\* The links of all ports change: no record of theirs stays.
LEMMA LinksMove ==
  ASSUME NEW r, Sound(r), NEW up \in BOOLEAN, LinksDecide(r, ~up)
  PROVE  Moves(r, LinkAll(NoEvents(r), up), up)
<1> DEFINE q == NoEvents(r)
           s == LinkAll(q, up)
<1>1. /\ Sound(q) /\ Records(q) = Records(r) /\ Made(q) = Made(r) /\ q.data = r.data
      /\ q.events = <<>>
  BY EventsForgotten
<1> HIDE DEF q
<1>2. Reaches(q, s, LinkRecords) /\ LinksDecide(s, up) /\ Current(s)
  BY <1>1, LinksHandled
<1> HIDE DEF s
<1>3. Told(Records(r), s.events) = Records(s)
  <2>1. Records(r) \in SUBSET Handles /\ Told(Records(r), q.events) = Records(q)
    BY <1>1, ListFacts, ToldNothing
  <2>2. QED
    BY <1>2, <2>1 DEF Reaches
<1>4. \A g \in Records(r) \cap Records(s) : s.data[g] = r.data[g]
  <2> SUFFICES ASSUME NEW g \in Records(r) \cap Records(s)
               PROVE  s.data[g] = r.data[g]
    OBVIOUS
  <2>1. g \notin LinkRecords
    <3>1. ASSUME NEW port \in Ports, g \in PortRecords(port)
          PROVE  FALSE
      <4>1. CASE up
        BY <3>1, <4>1 DEF LinksDecide, Unlinked
      <4>2. CASE ~up
        BY <1>2, <3>1, <4>2 DEF LinksDecide, Unlinked
      <4>3. QED
        BY <4>1, <4>2
    <3>2. QED
      BY <3>1 DEF LinkRecords
  <2>2. g \in Handles \ LinkRecords
    BY <2>1, ListFacts
  <2>3. QED
    BY <1>1, <1>2, <2>2 DEF Reaches
<1>5. QED
  BY <1>1, <1>2, <1>3, <1>4 DEF Reaches, Moves, s, q

(***************************************************************************)
(* The inductive invariant.                                                *)
(***************************************************************************)
Flags == {"START", "MIDDLE", "END", "START_AND_END"}
Busy(flag) == flag \in {"START", "MIDDLE"}

\* A transfer under way has its record, and bytes of it left; otherwise no handle waits.
Transfer(made, find, flag, previous) ==
  /\ flag \in Flags
  /\ Busy(flag) => find \in made /\ previous \in 1 .. Sizes[find] - 1
  /\ ~Busy(flag) => previous = 0

TransferInv ==
  Transfer(Made(repo), gs_find_pdr, gs_pdr_transfer_flag, gs_pdr_previous_data_transfer_handle)

RepoInv ==
  /\ Sound(repo) /\ Current(repo) /\ LinksDecide(repo, op_cnt)
  /\ op_cnt \in BOOLEAN /\ tid \in Tids /\ eid \in Eids

PartSet == [record : Handles, from : Nat, len : Nat, data : Data]

\* The parts are of one record, without gap or overlap, and up to the handle that is asked
\* for next, or to the end.
PartsInv ==
  /\ parts \in Seq(PartSet) /\ next_handle \in Nat /\ whole \in BOOLEAN
  /\ next_handle # 0 <=> parts # <<>> /\ ~whole
  /\ whole => parts # <<>>
  /\ parts # <<>> =>
       /\ parts[1].from = 0
       /\ \A i \in 2 .. Len(parts) : /\ parts[i].record = parts[1].record
                                     /\ parts[i].from = parts[i - 1].from + parts[i - 1].len
       /\ LET last == parts[Len(parts)]
          IN  last.from + last.len = IF whole THEN Sizes[parts[1].record] ELSE next_handle
       /\ ~whole => parts[1].record = next_record

\* The parts are of one version, which is that of the repository as long as its change number
\* is; while parts are to come the record is there, unless it was deleted meanwhile.
VersionInv ==
  /\ moved \in BOOLEAN
  /\ ~moved => \A i \in DOMAIN parts : parts[i].data = parts[1].data
  /\ next_handle # 0 /\ ~moved =>
       /\ next_record \in Records(repo)
       /\ parts[1].data.change <= repo.data[next_record].change
       /\ parts[1].data.change = repo.data[next_record].change => parts[1].data = repo.data[next_record]

\* What was there all the time and lies before the record that is asked for next was visited.
WalkInv ==
  /\ next_record \in Nat /\ torn \in BOOLEAN
  /\ lasting \subseteq Records(repo)
  /\ ~torn => \A h \in lasting : next_record = NULL \/ h < next_record => h \in visited

IInv == RepoInv /\ TransferInv /\ PartsInv /\ VersionInv /\ WalkInv

\* A walk begins before every record.
LEMMA WalkBegins ==
  ASSUME NEW r, Sound(r)
  PROVE  /\ FirstRecord \in Nat /\ FirstRecord # NULL
         /\ \A h \in Records(r) : ~(h < FirstRecord)
<1>1. FirstRecord \in Nat /\ FirstRecord # NULL /\ \A h \in Handles : FirstRecord <= h
  BY ReaderAssumption DEF NULL
<1>2. ASSUME NEW h \in Records(r)
      PROVE  ~(h < FirstRecord)
  <2>1. h \in Handles
    BY ListFacts
  <2>2. h \in Nat /\ FirstRecord <= h
    BY <1>1, <2>1, HandleFacts
  <2>3. QED
    BY <1>1, <2>2
<1>3. QED
  BY <1>1, <1>2

\* What starts up is in order.
LEMMA InitHolds == SessionInit => IInv
<1> SUFFICES ASSUME SessionInit
             PROVE  IInv
  OBVIOUS
<1>1. PICK spare \in Spares, t \in Tids, e \in Eids :
        repo = NoEvents(LinkAll(pldm_monitor_pdr_init(spare, Address(t, e)), TRUE))
  BY DEF SessionInit, Init
<1> DEFINE start == pldm_monitor_pdr_init(spare, Address(t, e))
           linked == LinkAll(start, TRUE)
<1>2. Sound(start)
  <2>1. spare \in Nat /\ Address(t, e) \in Vals
    BY SizesAssumption DEF Vals
  <2>2. QED
    BY <2>1, FlashIsLoaded
<1> HIDE DEF start
<1>3. Sound(linked) /\ LinksDecide(linked, TRUE) /\ Current(linked)
  BY <1>2, LinksHandled DEF Reaches
<1>4. repo = NoEvents(linked)
  BY <1>1 DEF start
<1> HIDE DEF linked
<1>5. Sound(repo) /\ Records(repo) = Records(linked) /\ Current(repo)
  BY <1>3, <1>4, EventsForgotten
<1>6. RepoInv
  BY <1>3, <1>5, LinksStay, AddressAssumption DEF RepoInv, SessionInit, Init
<1>7. TransferInv
  BY DEF TransferInv, Transfer, Flags, Busy, SessionInit, Init
<1>8. /\ parts = <<>> /\ parts \in Seq(PartSet) /\ DOMAIN parts = {}
      /\ next_handle = 0 /\ next_record = FirstRecord /\ lasting = Records(repo)
      /\ whole = FALSE /\ moved = FALSE /\ torn = FALSE
  BY DEF SessionInit
<1>9. PartsInv
  BY <1>8 DEF PartsInv
<1>10. VersionInv
  BY <1>8 DEF VersionInv
<1>11. WalkInv
  BY <1>5, <1>8, WalkBegins DEF WalkInv
<1>12. QED
  BY <1>6, <1>7, <1>9, <1>10, <1>11 DEF IInv

\* Whatever the repository does, it moves.
LEMMA RepoSteps ==
  ASSUME RepoInv, SessionNext
  PROVE  RepoInv' /\ Moves(repo, repo', op_cnt')
<1> USE DEF RepoInv
<1>1. CASE LinksChange
  <2>1. /\ op_cnt' = ~op_cnt /\ repo' = LinkAll(NoEvents(repo), op_cnt')
        /\ tid' = tid /\ eid' = eid /\ op_cnt' \in BOOLEAN /\ op_cnt = ~op_cnt'
    BY <1>1 DEF LinksChange
  <2>2. Moves(repo, repo', op_cnt')
    BY <2>1, LinksMove
  <2>3. QED
    BY <2>1, <2>2 DEF Moves
<1>2. ASSUME NEW h \in TempRecords \cap Handles, NEW limits \in Limits, SetThresholds(h, limits)
      PROVE  RepoInv' /\ Moves(repo, repo', op_cnt')
  <2>1. /\ repo' = IF InHead(repo, h) THEN Modified(NoEvents(repo), h, limits) ELSE NoEvents(repo)
        /\ tid' = tid /\ eid' = eid /\ op_cnt' = op_cnt
    BY <1>2 DEF SetThresholds
  <2>2. CASE InHead(repo, h)
    <3>1. h \in Records(repo) /\ limits \in Vals
      BY <2>2 DEF InHead, Records, Vals
    <3>2. Moves(repo, repo', op_cnt')
      BY <2>1, <2>2, <3>1, ModifiedMoves
    <3>3. QED
      BY <2>1, <3>2 DEF Moves
  <2>3. CASE ~InHead(repo, h)
    <3>1. Moves(repo, repo', op_cnt')
      BY <2>1, <2>3, QuietMoves
    <3>2. QED
      BY <2>1, <3>1 DEF Moves
  <2>4. QED
    BY <2>2, <2>3
<1>3. ASSUME NEW t \in Tids, NEW e \in Eids, SetAddress(t, e)
      PROVE  RepoInv' /\ Moves(repo, repo', op_cnt')
  <2>1. /\ repo' = terminus_locator_pdr_chg(NoEvents(repo), t, e)
        /\ tid' = t /\ eid' = e /\ op_cnt' = op_cnt
    BY <1>3 DEF SetAddress
  <2>2. Records(NoEvents(repo)) = Records(repo)
    BY EventsForgotten
  <2>3. CASE repo' = Modified(NoEvents(repo), TerminusLocator, Address(t, e))
             /\ InHead(NoEvents(repo), TerminusLocator)
    <3>1. TerminusLocator \in Records(repo) /\ Address(t, e) \in Vals
      BY <2>2, <2>3 DEF InHead, Records, Vals
    <3>2. Moves(repo, repo', op_cnt')
      BY <2>1, <2>3, <3>1, ModifiedMoves
    <3>3. QED
      BY <2>1, <3>2 DEF Moves
  <2>4. CASE repo' = NoEvents(repo)
    <3>1. Moves(repo, repo', op_cnt')
      BY <2>1, <2>4, QuietMoves
    <3>2. QED
      BY <2>1, <3>1 DEF Moves
  <2>5. QED
    BY <2>1, <2>3, <2>4 DEF terminus_locator_pdr_chg
<1>4. ASSUME repo' = NoEvents(repo), tid' = tid, eid' = eid, op_cnt' = op_cnt
      PROVE  RepoInv' /\ Moves(repo, repo', op_cnt')
  <2>1. Moves(repo, repo', op_cnt')
    BY <1>4, QuietMoves
  <2>2. QED
    BY <1>4, <2>1 DEF Moves
<1>5. CASE StartsWalk \/ TimePasses
  BY <1>4, <1>5 DEF StartsWalk, TimePasses
<1>6. ASSUME NEW cnt \in Counts, NEW generator \in BOOLEAN, NEW lost \in BOOLEAN,
             Asks(cnt, generator, lost)
      PROVE  RepoInv' /\ Moves(repo, repo', op_cnt')
  BY <1>4, <1>6 DEF Asks, pldm_monitor_get_pdr
<1>7. QED
  BY <1>1, <1>2, <1>3, <1>5, <1>6 DEF SessionNext, RecordsChange

(***************************************************************************)
(* GetPDR.                                                                 *)
(***************************************************************************)
\* What the last part of a record names is the next one of a sorted list, or nothing.
LEMMA NextInOrder ==
  ASSUME NEW list \in Seq(Handles), Sorted(list), NEW h \in ToSet(list)
  PROVE  LET next == Next_in(list, h)
         IN  /\ next \in Nat
             /\ \A g \in ToSet(list) : next = NULL \/ g < next => g = h \/ g < h
<1> DEFINE at == Place(list, h)
           next == Next_in(list, h)
<1>1. at \in 1 .. Len(list) /\ list[at] = h /\ Len(list) \in Nat
  <2>1. \E i \in DOMAIN list : list[i] = h
    BY DEF ToSet
  <2>2. QED
    BY <2>1 DEF Place
<1>2. next = IF at < Len(list) THEN list[at + 1] ELSE NULL
  BY DEF Next_in
<1> HIDE DEF at, next
<1>3. \A i \in 1 .. Len(list) : list[i] \in Nat /\ list[i] # NULL
  <2>1. \A i \in 1 .. Len(list) : list[i] \in Handles
    OBVIOUS
  <2>2. QED
    BY <2>1, HandleFacts DEF NULL
<1>4. next \in Nat
  BY <1>1, <1>2, <1>3 DEF NULL
<1>5. ASSUME NEW g \in ToSet(list), next = NULL \/ g < next
      PROVE  g = h \/ g < h
  <2>1. PICK i \in 1 .. Len(list) : g = list[i]
    BY DEF ToSet
  <2>2. \A j, k \in 1 .. Len(list) : j < k => list[j] < list[k]
    BY DEF Sorted
  <2>3. CASE i <= at
    <3>1. i = at \/ i < at
      BY <1>1, <2>1, <2>3
    <3>2. QED
      BY <1>1, <2>1, <2>2, <3>1
  <2>4. CASE i > at
    <3>1. at < Len(list) /\ at + 1 \in 1 .. Len(list) /\ (at + 1 = i \/ at + 1 < i)
      BY <1>1, <2>1, <2>4
    <3>2. next = list[at + 1]
      BY <1>2, <3>1
    <3>3. next # NULL /\ next \in Nat /\ g \in Nat
      BY <1>3, <2>1, <3>1, <3>2
    <3>4. g = next \/ next < g
      BY <2>1, <2>2, <3>1, <3>2
    <3>5. QED
      BY <1>5, <3>3, <3>4
  <2>5. QED
    BY <1>1, <2>1, <2>3, <2>4
<1>6. QED
  BY <1>4, <1>5 DEF next

\* The place of a record in any list gives a record or nothing.
LEMMA NextIsNat ==
  ASSUME NEW list \in Seq(Handles), NEW h \in ToSet(list)
  PROVE  Next_in(list, h) \in Nat
<1> DEFINE at == Place(list, h)
<1>1. at \in 1 .. Len(list) /\ Len(list) \in Nat
  <2>1. \E i \in DOMAIN list : list[i] = h
    BY DEF ToSet
  <2>2. QED
    BY <2>1 DEF Place
<1> HIDE DEF at
<1>2. at < Len(list) => list[at + 1] \in Handles
  BY <1>1
<1>3. QED
  BY <1>2, HandleFacts DEF Next_in, at, NULL

\* Whether a transfer is under way when the request comes decides which record it is about.
LEMMA RequestTaken ==
  ASSUME Sound(repo), TransferInv, NEW op \in {"FIRST", "NEXT"}, NEW h \in Nat, h # NULL,
         NEW handle \in Nat, handle = 0 <=> op = "FIRST", NEW chg,
         CplCode(op, h, handle, chg) = "SUCCESS"
  PROVE  /\ handle = gs_pdr_previous_data_transfer_handle
         /\ Found(h) = h /\ h \in Made(repo) /\ h \in Handles
         /\ handle \in 0 .. Sizes[h] - 1 /\ Sizes[h] \in Nat
         /\ op = "FIRST" => h \in Records(repo)
         /\ op = "NEXT" => chg = repo.data[h].change
<1>1. Found(h) = h /\ handle = gs_pdr_previous_data_transfer_handle /\ ~WrongChange(op, h, chg)
  <2>1. CASE Found(h) # h
    BY <2>1 DEF CplCode
  <2>2. CASE handle # gs_pdr_previous_data_transfer_handle /\ Found(h) = h
    BY <2>2 DEF CplCode
  <2>3. CASE WrongChange(op, h, chg) /\ handle = gs_pdr_previous_data_transfer_handle /\ Found(h) = h
    BY <2>3 DEF CplCode
  <2>4. QED
    BY <2>1, <2>2, <2>3
<1>2. Made(repo) \in SUBSET Handles /\ Records(repo) \subseteq Made(repo)
  BY ListFacts DEF Made
<1>3. op = "NEXT" => chg = repo.data[h].change
  BY <1>1 DEF WrongChange
<1>4. CASE Busy(gs_pdr_transfer_flag)
  <2>1. Found(h) = gs_find_pdr
    BY <1>4 DEF Found, Busy
  <2>2. h \in Made(repo) /\ handle \in 1 .. Sizes[h] - 1
    BY <1>1, <1>4, <2>1 DEF TransferInv, Transfer
  <2>3. Sizes[h] \in Nat
    BY <1>2, <2>2, SizesAssumption
  <2>4. handle # 0 /\ handle \in 0 .. Sizes[h] - 1
    BY <2>2, <2>3
  <2>5. QED
    BY <1>1, <1>2, <1>3, <2>2, <2>3, <2>4
<1>5. CASE ~Busy(gs_pdr_transfer_flag)
  <2>1. gs_pdr_transfer_flag \in {"START_AND_END", "END"} /\ handle = 0
    BY <1>1, <1>5 DEF TransferInv, Transfer, Flags, Busy
  <2>2. Found(h) = IF InHead(repo, h) THEN h ELSE NULL
    BY <2>1 DEF Found
  <2>3. h \in Records(repo)
    BY <1>1, <2>2 DEF InHead, Records
  <2>4. Sizes[h] \in Nat \ {0}
    BY <1>2, <2>3, SizesAssumption
  <2>5. handle \in 0 .. Sizes[h] - 1
    BY <2>1, <2>4
  <2>6. QED
    BY <1>1, <1>2, <1>3, <2>3, <2>4, <2>5
<1>6. QED
  BY <1>4, <1>5

IsLast(flag) == flag \in {"END", "START_AND_END"}

\* The part a request gets: up to cnt bytes from its handle on, and what comes next.
LEMMA PartGiven ==
  ASSUME Sound(repo), NEW op \in {"FIRST", "NEXT"}, NEW h \in Made(repo),
         NEW handle \in 0 .. Sizes[h] - 1, NEW cnt \in Counts
  PROVE  LET p == Part(op, h, handle, cnt)
         IN  /\ p.cpl_code = "SUCCESS"
             /\ p.part \in PartSet /\ p.part.record = h /\ p.part.from = handle
             /\ p.part.data = repo.data[h]
             /\ p.transfer_flag \in Flags /\ (IsLast(p.transfer_flag) <=> ~Busy(p.transfer_flag))
             /\ IsLast(p.transfer_flag) =>
                  /\ p.next_data_transfer_handle = 0
                  /\ p.part.from + p.part.len = Sizes[h]
                  /\ p.next_record_handle = NextRecord(h) /\ NextRecord(h) \in Nat
             /\ ~IsLast(p.transfer_flag) =>
                  /\ p.next_data_transfer_handle \in 1 .. Sizes[h] - 1
                  /\ p.part.from + p.part.len = p.next_data_transfer_handle
                  /\ p.next_record_handle = h
<1> DEFINE left == Sizes[h] - handle
           final == cnt >= left
           n == IF final THEN left ELSE cnt
           flag == CASE final /\ op = "FIRST" -> "START_AND_END"
                     [] final /\ op = "NEXT" -> "END"
                     [] ~final /\ op = "FIRST" -> "START"
                     [] ~final /\ op = "NEXT" -> "MIDDLE"
           p == Part(op, h, handle, cnt)
<1>1. h \in Handles /\ Sizes[h] \in Nat /\ cnt \in Nat \ {0} /\ repo.data[h] \in Data
  <2>1. h \in Handles
    BY ListFacts
  <2>2. repo.data \in [Handles -> Data]
    BY RepoFields DEF Sound
  <2>3. QED
    BY <2>1, <2>2, SizesAssumption, ReaderAssumption
<1>2. n \in Nat /\ (final => handle + n = Sizes[h]) /\ (~final => handle + n \in 1 .. Sizes[h] - 1)
  BY <1>1
<1>3. flag \in Flags /\ (IsLast(flag) <=> final) /\ (IsLast(flag) <=> ~Busy(flag))
  <2> HIDE DEF final
  <2>1. CASE final /\ op = "FIRST"
    BY <2>1 DEF Flags, IsLast, Busy
  <2>2. CASE final /\ op = "NEXT"
    BY <2>2 DEF Flags, IsLast, Busy
  <2>3. CASE ~final /\ op = "FIRST"
    BY <2>3 DEF Flags, IsLast, Busy
  <2>4. CASE ~final /\ op = "NEXT"
    BY <2>4 DEF Flags, IsLast, Busy
  <2>5. QED
    BY <2>1, <2>2, <2>3, <2>4
<1>4. p = [ cpl_code |-> "SUCCESS",
            transfer_flag |-> flag,
            next_record_handle |-> IF final THEN NextRecord(h) ELSE h,
            next_data_transfer_handle |-> IF final THEN 0 ELSE handle + n,
            part |-> [record |-> h, from |-> handle, len |-> n, data |-> repo.data[h]] ]
  BY DEF Part
<1>5. NextRecord(h) \in Nat
  <2>1. repo.head \in Seq(Handles) /\ repo.deleted \in Seq(Handles)
    BY RepoFields DEF Sound
  <2>2. CASE InHead(repo, h)
    BY <2>1, <2>2, NextIsNat DEF NextRecord, InHead
  <2>3. CASE ~InHead(repo, h)
    <3>1. h \in ToSet(repo.deleted)
      BY <2>3 DEF Made, Records, InHead
    <3>2. QED
      BY <2>1, <2>3, <3>1, NextIsNat DEF NextRecord
  <2>4. QED
    BY <2>2, <2>3
<1> HIDE DEF p, flag, n, final, left
<1>6. [record |-> h, from |-> handle, len |-> n, data |-> repo.data[h]] \in PartSet
  BY <1>1, <1>2 DEF PartSet
<1>7. /\ p.cpl_code = "SUCCESS" /\ p.transfer_flag = flag
      /\ p.next_record_handle = IF final THEN NextRecord(h) ELSE h
      /\ p.next_data_transfer_handle = IF final THEN 0 ELSE handle + n
      /\ p.part = [record |-> h, from |-> handle, len |-> n, data |-> repo.data[h]]
  BY <1>4
<1>8. p.part \in PartSet /\ p.part.record = h /\ p.part.from = handle /\ p.part.len = n
      /\ p.part.data = repo.data[h]
  BY <1>6, <1>7
<1>9. QED
  BY <1>2, <1>3, <1>5, <1>7, <1>8 DEF p

(***************************************************************************)
(* The steps of the reader.                                                *)
(***************************************************************************)
\* The transfer under way keeps its record: it is never lost.
LEMMA TransferStays ==
  ASSUME TransferInv, Moves(repo, repo', op_cnt'), UNCHANGED transferVars
  PROVE  TransferInv'
  BY DEF TransferInv, Transfer, Moves, transferVars

\* The records change under the reader.
LEMMA ChangeKeeps ==
  ASSUME IInv, RecordsChange, RepoInv', Moves(repo, repo', op_cnt')
  PROVE  IInv'
<1>1. /\ UNCHANGED transferVars
      /\ UNCHANGED <<next_record, next_handle, parts, whole, visited, torn>>
      /\ lasting' = lasting \cap Records(repo')
      /\ moved' = (moved \/ (parts # <<>> /\ ~whole /\ ~InHead(repo', parts[1].record)))
  BY DEF RecordsChange, LinksChange, SetThresholds, SetAddress
<1>2. TransferInv'
  BY <1>1, TransferStays DEF IInv
<1>3. PartsInv'
  BY <1>1 DEF IInv, PartsInv
<1>4. WalkInv'
  <2>1. next_record' = next_record /\ torn' = torn /\ visited' = visited /\ lasting' \subseteq lasting
        /\ lasting' \subseteq Records(repo)'
    BY <1>1
  <2>2. QED
    BY <2>1 DEF IInv, WalkInv
<1>5. VersionInv'
  <2>1. moved' \in BOOLEAN /\ (~moved' => ~moved)
    BY <1>1 DEF IInv, VersionInv
  <2>2. ~moved' => \A i \in DOMAIN parts' : parts'[i].data = parts'[1].data
    BY <1>1, <2>1 DEF IInv, VersionInv
  <2>3. ASSUME next_handle' # 0, ~moved'
        PROVE  /\ next_record' \in Records(repo')
               /\ parts'[1].data.change <= repo'.data[next_record'].change
               /\ parts'[1].data.change = repo'.data[next_record'].change =>
                    parts'[1].data = repo'.data[next_record']
    <3> DEFINE h == next_record
               first == parts[1].data
    <3>1. next_handle # 0 /\ ~moved /\ parts # <<>> /\ ~whole
      BY <1>1, <2>1, <2>3 DEF IInv, PartsInv
    <3>2. /\ h \in Records(repo) /\ first.change <= repo.data[h].change
          /\ first.change = repo.data[h].change => first = repo.data[h]
      BY <3>1 DEF IInv, VersionInv
    <3>3. parts[1].record = h
      BY <3>1 DEF IInv, PartsInv
    <3>4. h \in Records(repo')
      BY <1>1, <2>3, <3>1, <3>3 DEF InHead, Records
    <3>5. \/ repo'.data[h] = repo.data[h]
          \/ repo'.data[h].change = repo.data[h].change + 1
      BY <3>2, <3>4 DEF Moves
    <3>6. first.change \in Nat /\ repo.data[h].change \in Nat
      <4>1. parts \in Seq(PartSet) /\ parts # <<>>
        BY <3>1 DEF IInv, PartsInv
      <4>2. parts[1] \in PartSet
        BY <4>1
      <4>3. repo.data \in [Handles -> Data] /\ h \in Handles
        BY <3>2, RepoFields, ListFacts DEF IInv, RepoInv, Sound
      <4>4. repo.data[h] \in Data
        BY <4>3
      <4>5. QED
        BY <4>2, <4>4 DEF PartSet, Data
    <3> HIDE DEF h, first
    <3>7. /\ first.change <= repo'.data[h].change
          /\ first.change = repo'.data[h].change => first = repo'.data[h]
      BY <3>2, <3>5, <3>6
    <3>8. QED
      BY <1>1, <3>4, <3>7 DEF h, first
  <2>4. QED
    BY <2>1, <2>2, <2>3 DEF VersionInv
<1>6. QED
  BY <1>2, <1>3, <1>4, <1>5 DEF IInv

\* A walk begins.
LEMMA StartKeeps ==
  ASSUME IInv, StartsWalk, RepoInv'
  PROVE  IInv'
<1>1. /\ UNCHANGED transferVars /\ repo' = NoEvents(repo)
      /\ next_record' = FirstRecord /\ next_handle' = 0
      /\ parts' = <<>> /\ whole' = FALSE /\ moved' = FALSE
      /\ lasting' = Records(repo) /\ torn' = FALSE
  BY DEF StartsWalk
<1>2. Sound(repo) /\ Records(repo') = Records(repo) /\ Made(repo') = Made(repo)
  BY <1>1, EventsForgotten DEF IInv, RepoInv
<1>3. TransferInv'
  BY <1>1, <1>2 DEF IInv, TransferInv, Transfer, transferVars
<1>4. PartsInv'
  <2>1. parts' \in Seq(PartSet)
    BY <1>1
  <2>2. QED
    BY <1>1, <2>1 DEF PartsInv
<1>5. VersionInv'
  <2>1. DOMAIN parts' = {}
    BY <1>1
  <2>2. QED
    BY <1>1, <2>1 DEF VersionInv
<1>6. WalkInv'
  <2>1. FirstRecord \in Nat /\ FirstRecord # NULL /\ \A h \in Records(repo) : ~(h < FirstRecord)
    BY <1>2, WalkBegins
  <2>2. QED
    BY <1>1, <1>2, <2>1 DEF WalkInv
<1>7. QED
  BY <1>3, <1>4, <1>5, <1>6 DEF IInv

\* What the reader knows stays true as long as neither it nor the records move.
LEMMA ReaderStays ==
  ASSUME IInv, repo' = NoEvents(repo),
         UNCHANGED <<next_record, next_handle, parts, whole, moved, visited, lasting, torn>>
  PROVE  PartsInv' /\ VersionInv' /\ WalkInv'
<1>1. Records(repo') = Records(repo) /\ repo'.data = repo.data
  BY EventsForgotten DEF IInv, RepoInv
<1>2. PartsInv'
  BY DEF IInv, PartsInv
<1>3. VersionInv'
  BY <1>1 DEF IInv, VersionInv
<1>4. WalkInv'
  BY <1>1 DEF IInv, WalkInv
<1>5. QED
  BY <1>2, <1>3, <1>4

\* A sequence with one more part.
LEMMA PartAppended ==
  ASSUME NEW s \in Seq(PartSet), NEW p \in PartSet, NEW n, n = Len(s)
  PROVE  /\ Append(s, p) \in Seq(PartSet) /\ Append(s, p) # <<>> /\ n \in Nat
         /\ Len(Append(s, p)) = n + 1 /\ DOMAIN Append(s, p) = 1 .. n + 1
         /\ Append(s, p)[n + 1] = p /\ \A i \in 1 .. n : Append(s, p)[i] = s[i]
<1>1. /\ Append(s, p) \in Seq(PartSet) /\ n \in Nat
      /\ Len(Append(s, p)) = n + 1 /\ DOMAIN Append(s, p) = 1 .. n + 1
  OBVIOUS
<1>2. Append(s, p)[n + 1] = p /\ \A i \in 1 .. n : Append(s, p)[i] = s[i]
  OBVIOUS
<1>3. Append(s, p) # <<>>
  BY <1>1
<1>4. QED
  BY <1>1, <1>2, <1>3

\* The part that is received goes on where the parts before it ended.
LEMMA ReceiveKeepsParts ==
  ASSUME IInv, next_record # NULL,
         NEW op, op = IF next_handle = 0 THEN "FIRST" ELSE "NEXT", Receives(op),
         rsp'.part \in PartSet, rsp'.part.record = next_record, rsp'.part.from = next_handle,
         IsLast(rsp'.transfer_flag) =>
           /\ rsp'.next_data_transfer_handle = 0
           /\ rsp'.part.from + rsp'.part.len = Sizes[next_record],
         ~IsLast(rsp'.transfer_flag) =>
           /\ rsp'.next_data_transfer_handle \in Nat \ {0}
           /\ rsp'.part.from + rsp'.part.len = rsp'.next_data_transfer_handle
           /\ rsp'.next_record_handle = next_record
  PROVE  PartsInv'
<1> DEFINE p == rsp'.part
           last == IsLast(rsp'.transfer_flag)
           s == IF op = "FIRST" THEN <<>> ELSE parts
           n == Len(s)
<1>1. /\ parts' = Append(s, p) /\ whole' = last
      /\ next_record' = rsp'.next_record_handle
      /\ next_handle' = rsp'.next_data_transfer_handle
  BY DEF Receives, IsLast
<1>2. s \in Seq(PartSet) /\ (next_handle = 0 => s = <<>>) /\ (next_handle # 0 => s = parts)
  BY DEF IInv, PartsInv
<1> HIDE DEF s
<1>3. /\ parts' \in Seq(PartSet) /\ parts' # <<>> /\ n \in Nat
      /\ Len(parts') = n + 1 /\ DOMAIN parts' = 1 .. n + 1
      /\ parts'[n + 1] = p /\ \A i \in 1 .. n : parts'[i] = s[i]
  BY <1>1, <1>2, PartAppended
<1>4. whole' \in BOOLEAN /\ next_handle' \in Nat /\ (next_handle' # 0 <=> ~last)
  BY <1>1 DEF IsLast
<1>5. CASE next_handle = 0
  <2>1. n = 0 /\ parts'[1] = p /\ Len(parts') = 1
    BY <1>2, <1>3, <1>5
  <2>2. /\ parts'[1].from = 0 /\ parts'[1].record = next_record
        /\ \A i \in 2 .. Len(parts') : FALSE
    BY <1>5, <2>1
  <2>3. parts'[Len(parts')].from + parts'[Len(parts')].len
          = IF whole' THEN Sizes[parts'[1].record] ELSE next_handle'
    BY <1>1, <2>1, <2>2
  <2>4. ~whole' => parts'[1].record = next_record'
    BY <1>1, <2>2
  <2>5. QED
    BY <1>1, <1>3, <1>4, <2>2, <2>3, <2>4 DEF PartsInv
<1>6. CASE next_handle # 0
  <2>1. /\ s = parts /\ parts # <<>> /\ ~whole
        /\ parts[1].from = 0 /\ parts[1].record = next_record
        /\ \A i \in 2 .. Len(parts) : /\ parts[i].record = parts[1].record
                                      /\ parts[i].from = parts[i - 1].from + parts[i - 1].len
        /\ parts[Len(parts)].from + parts[Len(parts)].len = next_handle
    BY <1>2, <1>6 DEF IInv, PartsInv
  <2>2. n = Len(parts) /\ n # 0 /\ 1 \in 1 .. n /\ parts'[1] = parts[1]
    <3>1. n = Len(parts) /\ n # 0
      BY <1>2, <2>1
    <3>2. 1 \in 1 .. n
      BY <1>3, <3>1
    <3>3. QED
      BY <1>3, <2>1, <3>1, <3>2
  <2>3. ASSUME NEW i \in 2 .. n + 1
        PROVE  /\ parts'[i].record = parts'[1].record
               /\ parts'[i].from = parts'[i - 1].from + parts'[i - 1].len
    <3>1. CASE i = n + 1
      <4>1. parts'[i] = p /\ i - 1 = n /\ n \in 1 .. n /\ parts'[i - 1] = parts[n]
        BY <1>3, <2>1, <2>2, <3>1
      <4>2. QED
        BY <2>1, <2>2, <4>1
    <3>2. CASE i # n + 1
      <4>1. i \in 2 .. n /\ i \in 1 .. n /\ i - 1 \in 1 .. n
        BY <1>3, <3>2
      <4>2. parts'[i] = parts[i] /\ parts'[i - 1] = parts[i - 1]
        BY <1>3, <2>1, <4>1
      <4>3. QED
        BY <2>1, <2>2, <4>1, <4>2
    <3>3. QED
      BY <3>1, <3>2
  <2>4. parts'[Len(parts')].from + parts'[Len(parts')].len
          = IF whole' THEN Sizes[parts'[1].record] ELSE next_handle'
    BY <1>1, <1>3, <2>1, <2>2
  <2>5. ~whole' => parts'[1].record = next_record'
    BY <1>1, <2>1, <2>2
  <2>6. QED
    BY <1>1, <1>3, <1>4, <2>1, <2>2, <2>3, <2>4, <2>5 DEF PartsInv
<1>7. QED
  BY <1>5, <1>6

\* The part that is received is of the version of those before it: the change number is that
\* of the record, so that it is what the first part said.
LEMMA ReceiveKeepsVersion ==
  ASSUME IInv, PartsInv', NEW generator \in BOOLEAN,
         NEW op, op = IF next_handle = 0 THEN "FIRST" ELSE "NEXT", Receives(op),
         NEW chg, chg = IF op = "FIRST" \/ generator THEN 0 ELSE parts[1].data.change,
         repo' = NoEvents(repo),
         rsp'.part \in PartSet, rsp'.part.data = repo.data[next_record],
         op = "FIRST" => next_record \in Records(repo),
         op = "NEXT" => chg = repo.data[next_record].change,
         ~IsLast(rsp'.transfer_flag) => rsp'.next_record_handle = next_record,
         IsLast(rsp'.transfer_flag) => rsp'.next_data_transfer_handle = 0
  PROVE  VersionInv'
<1> DEFINE p == rsp'.part
           s == IF op = "FIRST" THEN <<>> ELSE parts
           n == Len(s)
<1>1. /\ parts' = Append(s, p) /\ moved' = (op = "NEXT" /\ moved)
      /\ next_record' = rsp'.next_record_handle
      /\ next_handle' = rsp'.next_data_transfer_handle
  BY DEF Receives
<1>2. Records(repo') = Records(repo) /\ repo'.data = repo.data
  BY EventsForgotten DEF IInv, RepoInv
<1>3. s \in Seq(PartSet) /\ (next_handle = 0 => s = <<>>) /\ (next_handle # 0 => s = parts)
  BY DEF IInv, PartsInv
<1> HIDE DEF s
<1>4. /\ n \in Nat /\ DOMAIN parts' = 1 .. n + 1
      /\ parts'[n + 1] = p /\ \A i \in 1 .. n : parts'[i] = s[i]
  BY <1>1, <1>3, PartAppended
<1>5. moved' \in BOOLEAN
  BY <1>1 DEF IInv, VersionInv
<1>6. next_handle' # 0 => next_record' = next_record
  BY <1>1
<1>7. CASE next_handle = 0
  <2>1. op = "FIRST" /\ n = 0 /\ parts'[1] = p
    BY <1>3, <1>4, <1>7
  <2>2. \A i \in DOMAIN parts' : i = 1
    BY <1>4, <2>1
  <2>3. p.data.change \in Nat
    BY DEF PartSet, Data
  <2>4. QED
    BY <1>2, <1>5, <1>6, <2>1, <2>2, <2>3 DEF VersionInv
<1>8. CASE next_handle # 0
  <2>1. op = "NEXT" /\ s = parts /\ parts # <<>> /\ parts \in Seq(PartSet)
    BY <1>3, <1>8 DEF IInv, PartsInv
  <2>2. n # 0 /\ 1 \in 1 .. n /\ parts'[1] = parts[1] /\ parts[1] \in PartSet
    <3>1. n # 0 /\ parts[1] \in PartSet
      BY <2>1
    <3>2. 1 \in 1 .. n
      BY <1>4, <3>1
    <3>3. QED
      BY <1>4, <2>1, <3>1, <3>2
  <2>3. CASE moved
    BY <1>1, <1>5, <2>1, <2>3 DEF VersionInv
  <2>4. CASE ~moved
    <3> DEFINE d == repo.data[next_record]
               first == parts[1].data
    <3>1. /\ next_record \in Records(repo)
          /\ first.change <= d.change
          /\ first.change = d.change => first = d
      BY <1>8, <2>4 DEF IInv, VersionInv
    <3>2. chg = d.change /\ (chg = 0 \/ chg = first.change)
      BY <2>1
    <3>3. first.change \in Nat /\ d.change \in Nat
      BY <2>2 DEF PartSet, Data
    <3> HIDE DEF d, first
    <3>4. first.change = d.change
      BY <3>1, <3>2, <3>3
    <3>5. first = d
      BY <3>1, <3>4
    <3>6. \A i \in 1 .. n : parts[i].data = first
      BY <2>1, <2>4 DEF IInv, VersionInv, first
    <3>7. \A i \in 1 .. n + 1 : parts'[i].data = first
      <4> SUFFICES ASSUME NEW i \in 1 .. n + 1
                   PROVE  parts'[i].data = first
        OBVIOUS
      <4>1. CASE i = n + 1
        BY <1>4, <3>5, <4>1 DEF d
      <4>2. CASE i # n + 1
        <5>1. i \in 1 .. n
          BY <1>4, <4>2
        <5>2. QED
          BY <1>4, <2>1, <3>6, <5>1
      <4>3. QED
        BY <4>1, <4>2
    <3>8. parts'[1].data = first
      BY <2>2 DEF first
    <3>9. next_handle' # 0 =>
            /\ next_record' \in Records(repo')
            /\ parts'[1].data = repo'.data[next_record']
      BY <1>2, <1>6, <3>1, <3>5, <3>8 DEF d
    <3>10. parts'[1].data.change <= parts'[1].data.change
      BY <3>3, <3>8
    <3>11. QED
      BY <1>4, <1>5, <3>7, <3>8, <3>9, <3>10 DEF VersionInv
  <2>5. QED
    BY <2>3, <2>4
<1>9. QED
  BY <1>7, <1>8

\* With the last part of a record that is still there, the walk goes on to the next record
\* of the list.
LEMMA ReceiveKeepsWalk ==
  ASSUME IInv, NEW op, Receives(op), repo' = NoEvents(repo),
         next_record \in Made(repo),
         IsLast(rsp'.transfer_flag) =>
           /\ rsp'.next_record_handle = NextRecord(next_record) /\ NextRecord(next_record) \in Nat,
         ~IsLast(rsp'.transfer_flag) => rsp'.next_record_handle = next_record
  PROVE  WalkInv'
<1> DEFINE last == IsLast(rsp'.transfer_flag)
           h == next_record
<1>1. /\ next_record' = rsp'.next_record_handle
      /\ visited' = IF last THEN visited \cup {h} ELSE visited
      /\ torn' = (torn \/ (last /\ ~InHead(repo, h)))
      /\ lasting' = lasting
  BY DEF Receives, IsLast
<1>2. Records(repo') = Records(repo)
  BY EventsForgotten DEF IInv, RepoInv
<1>3. CASE ~last
  BY <1>1, <1>2, <1>3 DEF IInv, WalkInv
<1>4. CASE last
  <2>1. torn' \in BOOLEAN /\ next_record' \in Nat /\ lasting' \subseteq Records(repo')
    BY <1>1, <1>2, <1>4 DEF IInv, WalkInv
  <2>2. ASSUME ~torn', NEW g \in lasting', next_record' = NULL \/ g < next_record'
        PROVE  g \in visited'
    <3>1. ~torn /\ h \in ToSet(repo.head) /\ g \in lasting /\ g \in ToSet(repo.head)
      BY <1>1, <1>4, <2>2 DEF InHead, IInv, WalkInv, Records
    <3>2. next_record' = Next_in(repo.head, h)
      BY <1>1, <1>4, <3>1 DEF NextRecord, InHead
    <3>3. repo.head \in Seq(Handles) /\ Sorted(repo.head)
      BY RepoFields, ListFacts DEF IInv, RepoInv, Sound
    <3>4. g = h \/ g < h
      BY <2>2, <3>1, <3>2, <3>3, NextInOrder
    <3>5. QED
      BY <1>1, <1>4, <3>1, <3>4 DEF IInv, WalkInv
  <2>3. QED
    BY <2>1, <2>2 DEF WalkInv
<1>5. QED
  BY <1>3, <1>4

\* The reader asks: it is refused, the response is lost, or it has one more part.
LEMMA AskKeeps ==
  ASSUME IInv, RepoInv', NEW cnt \in Counts, NEW generator \in BOOLEAN, NEW lost \in BOOLEAN,
         Asks(cnt, generator, lost)
  PROVE  IInv'
<1> DEFINE op == IF next_handle = 0 THEN "FIRST" ELSE "NEXT"
           chg == IF op = "FIRST" \/ generator THEN 0 ELSE parts[1].data.change
           h == next_record
           handle == next_handle
<1>1. /\ h # NULL
      /\ pldm_monitor_get_pdr(op, h, handle, cnt, chg)
      /\ IF rsp'.cpl_code = "SUCCESS"
         THEN IF lost THEN UNCHANGED <<next_record, next_handle, parts, whole, moved,
                                         visited, lasting, torn>>
              ELSE Receives(op)
         ELSE UNCHANGED readerVars
  BY DEF Asks
<1>2. op \in {"FIRST", "NEXT"} /\ h \in Nat /\ handle \in Nat /\ (handle = 0 <=> op = "FIRST")
  BY DEF IInv, PartsInv, WalkInv
<1> HIDE DEF op, chg
<1>3. Sound(repo) /\ repo' = NoEvents(repo) /\ gs_find_pdr' = Found(h)
  BY <1>1 DEF IInv, RepoInv, pldm_monitor_get_pdr
<1>4. Made(repo') = Made(repo)
  BY <1>3, EventsForgotten
<1>5. CASE CplCode(op, h, handle, chg) # "SUCCESS"
  <2>1. /\ rsp' = [cpl_code |-> CplCode(op, h, handle, chg)]
        /\ UNCHANGED <<gs_pdr_transfer_flag, gs_pdr_previous_data_transfer_handle>>
    BY <1>1, <1>5 DEF pldm_monitor_get_pdr
  <2>2. UNCHANGED <<next_record, next_handle, parts, whole, moved, visited, lasting, torn>>
    <3>1. rsp'.cpl_code # "SUCCESS"
      BY <1>5, <2>1
    <3>2. QED
      BY <1>1, <3>1 DEF readerVars
  <2>3. TransferInv'
    <3>1. Busy(gs_pdr_transfer_flag) => Found(h) = gs_find_pdr
      BY DEF Found, Busy
    <3>2. QED
      BY <1>3, <1>4, <2>1, <3>1 DEF IInv, TransferInv, Transfer
  <2>4. PartsInv' /\ VersionInv' /\ WalkInv'
    BY <1>3, <2>2, ReaderStays
  <2>5. QED
    BY <2>3, <2>4 DEF IInv
<1>6. CASE CplCode(op, h, handle, chg) = "SUCCESS"
  <2>1. /\ rsp' = Part(op, h, handle, cnt)
        /\ gs_pdr_transfer_flag' = rsp'.transfer_flag
        /\ gs_pdr_previous_data_transfer_handle' = rsp'.next_data_transfer_handle
    BY <1>1, <1>6 DEF pldm_monitor_get_pdr
  <2>2. /\ Found(h) = h /\ h \in Made(repo) /\ h \in Handles
        /\ handle \in 0 .. Sizes[h] - 1 /\ Sizes[h] \in Nat
        /\ op = "FIRST" => h \in Records(repo)
        /\ op = "NEXT" => chg = repo.data[h].change
    BY <1>1, <1>2, <1>3, <1>6, RequestTaken DEF IInv
  <2>3. /\ rsp'.cpl_code = "SUCCESS"
        /\ rsp'.part \in PartSet /\ rsp'.part.record = h /\ rsp'.part.from = handle
        /\ rsp'.part.data = repo.data[h]
        /\ rsp'.transfer_flag \in Flags /\ (IsLast(rsp'.transfer_flag) <=> ~Busy(rsp'.transfer_flag))
        /\ IsLast(rsp'.transfer_flag) =>
             /\ rsp'.next_data_transfer_handle = 0
             /\ rsp'.part.from + rsp'.part.len = Sizes[h]
             /\ rsp'.next_record_handle = NextRecord(h) /\ NextRecord(h) \in Nat
        /\ ~IsLast(rsp'.transfer_flag) =>
             /\ rsp'.next_data_transfer_handle \in 1 .. Sizes[h] - 1
             /\ rsp'.part.from + rsp'.part.len = rsp'.next_data_transfer_handle
             /\ rsp'.next_record_handle = h
    <3> DEFINE r2 == rsp'
    <3>1. r2 = Part(op, h, handle, cnt)
      BY <2>1
    <3> HIDE DEF r2
    <3>2. /\ r2.cpl_code = "SUCCESS"
          /\ r2.part \in PartSet /\ r2.part.record = h /\ r2.part.from = handle
          /\ r2.part.data = repo.data[h]
          /\ r2.transfer_flag \in Flags /\ (IsLast(r2.transfer_flag) <=> ~Busy(r2.transfer_flag))
          /\ IsLast(r2.transfer_flag) =>
               /\ r2.next_data_transfer_handle = 0
               /\ r2.part.from + r2.part.len = Sizes[h]
               /\ r2.next_record_handle = NextRecord(h) /\ NextRecord(h) \in Nat
          /\ ~IsLast(r2.transfer_flag) =>
               /\ r2.next_data_transfer_handle \in 1 .. Sizes[h] - 1
               /\ r2.part.from + r2.part.len = r2.next_data_transfer_handle
               /\ r2.next_record_handle = h
      BY <1>2, <1>3, <2>2, <3>1, PartGiven
    <3>3. QED
      BY <3>2 DEF r2
  <2>4. TransferInv'
    BY <1>3, <1>4, <2>1, <2>2, <2>3 DEF TransferInv, Transfer
  <2>5. CASE lost
    BY <1>1, <1>3, <2>3, <2>4, <2>5, ReaderStays DEF IInv
  <2>6. CASE ~lost
    <3>1. Receives(op)
      BY <1>1, <2>3, <2>6
    <3>2. PartsInv'
      <4>1. op = IF next_handle = 0 THEN "FIRST" ELSE "NEXT"
        BY DEF op
      <4>2. \A k \in 1 .. Sizes[h] - 1 : k \in Nat \ {0}
        BY <2>2
      <4>3. QED
        BY <1>1, <2>3, <3>1, <4>1, <4>2, ReceiveKeepsParts
    <3>3. VersionInv'
      <4>1. op = IF next_handle = 0 THEN "FIRST" ELSE "NEXT"
        BY DEF op
      <4>2. chg = IF op = "FIRST" \/ generator THEN 0 ELSE parts[1].data.change
        BY DEF chg
      <4>3. QED
        BY <1>3, <2>2, <2>3, <3>1, <3>2, <4>1, <4>2, ReceiveKeepsVersion
    <3>4. WalkInv'
      BY <1>3, <2>2, <2>3, <3>1, ReceiveKeepsWalk
    <3>5. QED
      BY <2>4, <3>2, <3>3, <3>4 DEF IInv
  <2>7. QED
    BY <2>5, <2>6
<1>7. QED
  BY <1>5, <1>6

\* Each step keeps the invariant.
LEMMA StepKeeps == IInv /\ [SessionNext]_sessionVars => IInv'
<1> SUFFICES ASSUME IInv, [SessionNext]_sessionVars
             PROVE  IInv'
  OBVIOUS
<1>1. CASE UNCHANGED sessionVars
  BY <1>1 DEF IInv, RepoInv, TransferInv, PartsInv, VersionInv, WalkInv,
              sessionVars, repoVars, transferVars, readerVars
<1>2. CASE SessionNext
  <2>1. RepoInv' /\ Moves(repo, repo', op_cnt')
    BY <1>2, RepoSteps DEF IInv
  <2>2. CASE RecordsChange
    BY <2>1, <2>2, ChangeKeeps
  <2>3. CASE StartsWalk
    BY <2>1, <2>3, StartKeeps
  <2>4. CASE TimePasses
    <3>1. /\ repo' = NoEvents(repo) /\ UNCHANGED transferVars
          /\ UNCHANGED <<next_record, next_handle, parts, whole, moved, visited, lasting, torn>>
      BY <2>4 DEF TimePasses
    <3>2. TransferInv'
      BY <2>1, <3>1, TransferStays DEF IInv
    <3>3. PartsInv' /\ VersionInv' /\ WalkInv'
      BY <3>1, ReaderStays
    <3>4. QED
      BY <2>1, <3>2, <3>3 DEF IInv
  <2>5. ASSUME NEW cnt \in Counts, NEW generator \in BOOLEAN, NEW lost \in BOOLEAN,
               Asks(cnt, generator, lost)
        PROVE  IInv'
    BY <2>1, <2>5, AskKeeps
  <2>6. QED
    BY <1>2, <2>2, <2>3, <2>4, <2>5 DEF SessionNext
<1>3. QED
  BY <1>1, <1>2

\* The lists, the pool, the signature and the transfers agree, the parts are of one version,
\* and a walk misses nothing: what the theorems below follow from.
THEOREM InvariantHolds == SessionSpec => []IInv
<1>1. SessionInit => IInv
  BY InitHolds
<1>2. IInv /\ [SessionNext]_sessionVars => IInv'
  BY StepKeeps
<1>3. QED
  BY <1>1, <1>2, PTL DEF SessionSpec

\* Lists, counters, pool, monitors, signature and transfer agree after every command, for any
\* records in flash, any sizes and any pool, also when it is used up in the middle of the
\* records of a port.
THEOREM RepositoryIsConsistent == SessionSpec => []RepoIsConsistent
<1>1. IInv => RepoIsConsistent
  <2> SUFFICES ASSUME IInv
               PROVE  RepoIsConsistent
    OBVIOUS
  <2>1. ListsAgree(repo) /\ LinksDecide(repo, op_cnt) /\ DeletedAreQuiet(repo)
    BY DEF IInv, RepoInv, Sound
  <2>2. SignatureIsCurrent
    BY DEF IInv, RepoInv, Current, SignatureIsCurrent
  <2>3. TransferInRange
    BY ExistsIsMade DEF IInv, TransferInv, Transfer, Busy, TransferInRange
  <2>4. QED
    BY <2>1, <2>2, <2>3 DEF RepoIsConsistent
<1>2. QED
  BY <1>1, InvariantHolds, PTL

\* A record that was received in parts is the whole record, in one version, whatever happened
\* to the records between the parts, unless it was deleted meanwhile.
THEOREM TransfersAreOneVersion == SessionSpec => []TransferIsOneVersion
<1>1. IInv => TransferIsOneVersion
  <2> SUFFICES ASSUME IInv, whole
               PROVE  LET last == parts[Len(parts)]
                      IN  /\ parts[1].from = 0 /\ last.from + last.len = Sizes[last.record]
                          /\ \A i \in 2 .. Len(parts) :
                               /\ parts[i].record = last.record
                               /\ parts[i].from = parts[i - 1].from + parts[i - 1].len
                               /\ moved \/ parts[i].data = last.data
    BY DEF TransferIsOneVersion
  <2> DEFINE n == Len(parts)
  <2>1. /\ parts \in Seq(PartSet) /\ parts # <<>>
        /\ parts[1].from = 0
        /\ \A i \in 2 .. n : /\ parts[i].record = parts[1].record
                             /\ parts[i].from = parts[i - 1].from + parts[i - 1].len
        /\ parts[n].from + parts[n].len = Sizes[parts[1].record]
    <3>1. parts \in Seq(PartSet) /\ parts # <<>>
      BY DEF IInv, PartsInv
    <3>2. QED
      BY <3>1 DEF IInv, PartsInv
  <2>2. n \in Nat /\ n # 0 /\ DOMAIN parts = 1 .. n
    BY <2>1
  <2>3. parts[n].record = parts[1].record
    <3>1. n = 1 \/ n \in 2 .. n
      BY <2>2
    <3>2. QED
      BY <2>1, <3>1
  <2>4. ~moved => \A i \in 1 .. n : parts[i].data = parts[n].data
    <3>1. n \in 1 .. n
      BY <2>2
    <3>2. QED
      BY <2>2, <3>1 DEF IInv, VersionInv
  <2>5. \A i \in 2 .. n : i \in 1 .. n
    BY <2>2
  <2>6. QED
    BY <2>1, <2>3, <2>4, <2>5
<1>2. QED
  BY <1>1, InvariantHolds, PTL

\* A walk that came to its end has seen every record that was there all the time, however
\* many came and went, unless a record was deleted under the reader.
THEOREM WalksVisitEveryRecord == SessionSpec => []WalkVisitsEveryRecord
<1>1. IInv => WalkVisitsEveryRecord
  BY DEF IInv, WalkInv, WalkVisitsEveryRecord
<1>2. QED
  BY <1>1, InvariantHolds, PTL

\* The events of each step tell a controller which records came and went, in an order that
\* leads from the old list to the new one, and of every record that was written.
THEOREM EventsTellEveryChange == SessionSpec => EventsTellTheChange
<1>1. IInv /\ [SessionNext]_sessionVars =>
        [ /\ Told(Records(repo), repo'.events) = Records(repo')
          /\ \A h \in Records(repo) \cap Records(repo') :
               repo'.data[h] # repo.data[h] =>
                 \E event \in ToSet(repo'.events) : event.record = h ]_repo
  <2> SUFFICES ASSUME IInv, [SessionNext]_sessionVars, repo' # repo
               PROVE  /\ Told(Records(repo), repo'.events) = Records(repo')
                      /\ \A h \in Records(repo) \cap Records(repo') :
                           repo'.data[h] # repo.data[h] =>
                             \E event \in ToSet(repo'.events) : event.record = h
    OBVIOUS
  <2>1. SessionNext
    BY DEF sessionVars, repoVars
  <2>2. Moves(repo, repo', op_cnt')
    BY <2>1, RepoSteps DEF IInv
  <2>3. QED
    BY <2>2 DEF Moves
<1>2. QED
  BY <1>1, InvariantHolds, PTL DEF SessionSpec, EventsTellTheChange
=============================================================================
