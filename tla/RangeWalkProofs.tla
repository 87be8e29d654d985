-------------------------- MODULE RangeWalkProofs --------------------------
(***************************************************************************)
(* Proofs about RangeWalk: every query of a walk is one the endpoint       *)
(* accepts, and what a finished walk returns is what was asked for.        *)
(***************************************************************************)
EXTENDS RangeWalk, FiniteSetTheorems, FunctionTheorems, SequenceTheorems, TLAPS

USE DEF None, Some

-----------------------------------------------------------------------------
(* Putting things in order.                                                *)

(* InOrder lists a finite, totally ordered set once through, in order.     *)
LEMMA InOrderLists ==
  ASSUME NEW S, IsFiniteSet(S), NEW before \in [S -> SUBSET S],
         \A k \in S : k \notin before[k],
         \A j, k \in S : j # k => j \in before[k] \/ k \in before[j],
         \A j, k \in S : j \in before[k] => before[j] \subseteq before[k]
  PROVE  /\ Cardinality(S) \in Nat
         /\ InOrder(before) \in [1..Cardinality(S) -> S]
         /\ \A k \in S : \E n \in 1..Cardinality(S) : InOrder(before)[n] = k
         /\ \A m, n \in 1..Cardinality(S) : m < n => InOrder(before)[m] \in before[InOrder(before)[n]]
<1> DEFINE N == Cardinality(S)
           rank == [k \in S |-> Cardinality(before[k])]
<1>1. N \in Nat
  BY FS_CardinalityType
<1>2. \A k \in S : IsFiniteSet(before[k]) /\ rank[k] \in Nat /\ rank[k] < N
  <2> TAKE k \in S
  <2>1. IsFiniteSet(S \ {k}) /\ Cardinality(S \ {k}) = N - 1
    BY FS_RemoveElement
  <2>2. before[k] \in SUBSET (S \ {k})
    OBVIOUS
  <2>3. IsFiniteSet(before[k]) /\ Cardinality(before[k]) <= Cardinality(S \ {k})
    BY <2>1, <2>2, FS_Subset
  <2> QED BY <1>1, <2>1, <2>3, FS_CardinalityType
<1>3. \A j, k \in S : j \in before[k] => rank[j] < rank[k]
  <2> SUFFICES ASSUME NEW j \in S, NEW k \in S, j \in before[k]
               PROVE  rank[j] < rank[k]
    OBVIOUS
  <2>1. before[j] \in SUBSET before[k] /\ before[j] # before[k]
    OBVIOUS
  <2>2. Cardinality(before[j]) <= Cardinality(before[k])
        /\ (Cardinality(before[k]) = Cardinality(before[j]) => before[k] = before[j])
    BY <1>2, <2>1, FS_Subset
  <2>3. Cardinality(before[j]) < Cardinality(before[k])
    BY <1>2, <2>1, <2>2
  <2> QED BY <2>3
<1>4. \A j, k \in S : rank[j] = rank[k] => j = k
  BY <1>2, <1>3
<1>5. \A r \in 0..(N - 1) : \E k \in S : rank[k] = r
  <2> SUFFICES ASSUME NEW r \in 0..(N - 1), \A k \in S : rank[k] # r
               PROVE  FALSE
    OBVIOUS
  <2> DEFINE T == (0..(N - 1)) \ {r}
  <2>1. IsFiniteSet(0..(N - 1)) /\ Cardinality(0..(N - 1)) = N
    BY <1>1, FS_Interval
  <2>2. IsFiniteSet(T) /\ Cardinality(T) = N - 1
    <3> DEFINE I == 0..(N - 1)
    <3>1. IsFiniteSet(I) /\ Cardinality(I) = N /\ r \in I
      BY <2>1
    <3> HIDE DEF I
    <3>2. IsFiniteSet(I \ {r}) /\ Cardinality(I \ {r}) = N - 1
      BY <3>1, FS_RemoveElement
    <3> QED BY <3>2 DEF I
  <2>3. rank \in [S -> T]
    BY <1>1, <1>2
  <2> HIDE DEF T, rank
  <2>4. \E x, y \in S : x # y /\ rank[x] = rank[y]
    BY <1>1, <2>2, <2>3, FS_PigeonHole
  <2> QED BY <1>4, <2>4
<1>6. InOrder(before) = [n \in 1..N |-> CHOOSE k \in S : rank[k] = n - 1]
  BY DEF InOrder
<1>7. \A n \in 1..N : /\ InOrder(before)[n] \in S
                      /\ rank[InOrder(before)[n]] = n - 1
  <2> HIDE DEF rank
  <2> TAKE n \in 1..N
  <2>1. \E k \in S : rank[k] = n - 1
    BY <1>1, <1>5
  <2> QED BY <1>6, <2>1
<1>8. \A k \in S : \E n \in 1..N : InOrder(before)[n] = k
  <2> SUFFICES ASSUME NEW k \in S PROVE \E n \in 1..N : InOrder(before)[n] = k
    OBVIOUS
  <2>1. rank[k] + 1 \in 1..N
    BY <1>1, <1>2
  <2>2. rank[InOrder(before)[rank[k] + 1]] = rank[k]
    BY <1>1, <1>2, <1>7, <2>1
  <2> QED BY <1>4, <1>7, <2>1, <2>2
<1>9. ASSUME NEW m \in 1..N, NEW n \in 1..N, m < n
      PROVE  InOrder(before)[m] \in before[InOrder(before)[n]]
  <2> SUFFICES ASSUME NEW j \in S, NEW k \in S, rank[j] = m - 1, rank[k] = n - 1
               PROVE  j \in before[k]
    BY <1>7
  <2>1. rank[j] \in Int /\ rank[k] \in Int /\ rank[j] < rank[k]
    BY <1>1, <1>2, <1>9
  <2>2. k \notin before[j] /\ j # k
    BY <1>3, <2>1
  <2> QED BY <2>2
<1> HIDE DEF rank
<1>10. InOrder(before) \in [1..N -> S]
  BY <1>6, <1>7
<1> QED BY <1>1, <1>8, <1>9, <1>10

-----------------------------------------------------------------------------
(* What a walk makes of a page.                                            *)

DistinctIds(s) == \A i, j \in DOMAIN s : i # j => s[i].id # s[j].id

(* The nth new item of a page is at places[n]. *)
NewAt(page, places) ==
  /\ \A n \in DOMAIN NewItems(page) :
       NewItems(page)[n] = page[places[n]] /\ NotSeen(page[places[n]], items)
  /\ \A m, n \in DOMAIN NewItems(page) : m < n => places[m] < places[n]
  /\ \A k \in DOMAIN page :
       NotSeen(page[k], items) => \E n \in DOMAIN NewItems(page) : places[n] = k

(* NewItems(page) lists the items of a page that were not seen before, in  *)
(* the order of the page.                                                  *)
LEMMA NewItemsList ==
  ASSUME NEW H, NEW page \in Seq(H), DistinctIds(page)
  PROVE  /\ NewItems(page) \in Seq(H)
         /\ \E places \in [DOMAIN NewItems(page) -> DOMAIN page] : NewAt(page, places)
<1> DEFINE S == NewPlaces(page)
           before == [k \in S |-> {j \in S : j < k}]
           places == InOrder(before)
           N == Cardinality(S)
<1>1. DOMAIN page = 1..Len(page) /\ Len(page) \in Nat
  OBVIOUS
<1>2. S \subseteq 1..Len(page) /\ S = {k \in DOMAIN page : NotSeen(page[k], items)}
  BY <1>1 DEF NewPlaces, DistinctIds
<1>3. IsFiniteSet(S)
  <2>1. IsFiniteSet(1..Len(page))
    BY <1>1, FS_Interval
  <2> HIDE DEF S
  <2> QED BY <1>2, <2>1, FS_Subset
<1>4. /\ N \in Nat
      /\ places \in [1..N -> S]
      /\ \A k \in S : \E n \in 1..N : places[n] = k
      /\ \A m, n \in 1..N : m < n => places[m] \in before[places[n]]
  <2>1. before \in [S -> SUBSET S]
    OBVIOUS
  <2>2. \A k \in S : k \notin before[k]
    BY <1>2
  <2>3. \A j, k \in S : j # k => j \in before[k] \/ k \in before[j]
    BY <1>2
  <2>4. \A j, k \in S : j \in before[k] => before[j] \subseteq before[k]
    BY <1>2
  <2> HIDE DEF before, S
  <2> QED BY <1>3, <2>1, <2>2, <2>3, <2>4, InOrderLists
<1>5. \A m, n \in 1..N : m < n => places[m] < places[n]
  <2> HIDE DEF places, N, S
  <2> QED BY <1>4
<1>6. NewItems(page) = [n \in 1..N |-> page[places[n]]]
  <2>1. NewItems(page) = [n \in DOMAIN places |-> page[places[n]]]
    BY DEF NewItems
  <2> HIDE DEF places, N
  <2> QED BY <1>4, <2>1
<1> HIDE DEF places, N, S
<1>7. NewItems(page) \in Seq(H) /\ DOMAIN NewItems(page) = 1..N
  BY <1>1, <1>2, <1>4, <1>6
<1>8. places \in [DOMAIN NewItems(page) -> DOMAIN page] /\ NewAt(page, places)
  BY <1>1, <1>2, <1>4, <1>5, <1>6, <1>7 DEF NewAt
<1> QED BY <1>7, <1>8

(* The cap leaves room, or nothing has been collected and nothing comes. *)
RoomFor(page) ==
  cap = None \/ \E l \in Nat : cap = Some(l) /\ (Len(items) < l \/ page = <<>>)

(* The first n of a sequence. *)
LEMMA FirstOnes ==
  ASSUME NEW H, NEW s \in Seq(H), NEW n \in 0..Len(s)
  PROVE  /\ SubSeq(s, 1, n) \in Seq(H) /\ Len(SubSeq(s, 1, n)) = n
         /\ \A i \in 1..n : SubSeq(s, 1, n)[i] = s[i]
<1>1. SubSeq(s, 1, n) = [i \in 1..n |-> s[i]]
  BY SubSeqProperties
<1> QED BY <1>1

(* One sequence and then another. *)
LEMMA OneThenOther ==
  ASSUME NEW H, NEW s \in Seq(H), NEW t \in Seq(H)
  PROVE  /\ s \o t \in Seq(H)
         /\ Len(s \o t) = Len(s) + Len(t)
         /\ \A i \in 1..(Len(s) + Len(t)) :
              (s \o t)[i] = IF i <= Len(s) THEN s[i] ELSE t[i - Len(s)]
OBVIOUS

LEMMA PlaceInSecond ==
  ASSUME NEW a \in Nat, NEW p \in Nat, NEW k \in 1..(a + p), ~(k <= a)
  PROVE  k - a \in 1..p
OBVIOUS

(* How many of a page's new items are pushed, and where they end up. *)
LEMMA CollectShape ==
  ASSUME NEW H, NEW page \in Seq(H), DistinctIds(page), items \in Seq(H), RoomFor(page)
  PROVE  /\ Collect(page).items \in Seq(H)
         /\ Collect(page).full \in BOOLEAN
         /\ Len(Collect(page).items) \in Len(items)..(Len(items) + Len(NewItems(page)))
         /\ \A i \in 1..Len(Collect(page).items) :
              Collect(page).items[i] =
                IF i <= Len(items) THEN items[i] ELSE NewItems(page)[i - Len(items)]
         /\ Collect(page).full => cap = Some(Len(Collect(page).items))
         /\ ~Collect(page).full =>
              /\ Len(Collect(page).items) = Len(items) + Len(NewItems(page))
              /\ \A l \in cap : NewItems(page) = <<>> \/ Len(Collect(page).items) < l
<1> DEFINE new == NewItems(page)
           stops == {n \in DOMAIN new : CapReached(Len(items) + n)}
           pushed == IF stops = {} THEN Len(new) ELSE Min(stops)
           front == SubSeq(new, 1, pushed)
<1>1. new \in Seq(H)
  BY NewItemsList
<1>2. Collect(page) = [items |-> items \o front, full |-> stops # {}]
  BY DEF Collect
<1> HIDE DEF new
<1>3. DOMAIN new = 1..Len(new) /\ Len(new) \in Nat /\ Len(items) \in Nat
  BY <1>1
<1>4. ASSUME stops # {}
      PROVE  \E l \in Nat : /\ cap = Some(l) /\ pushed = l - Len(items)
                            /\ pushed \in 1..Len(new)
  <2>1. PICK n \in stops : TRUE
    BY <1>4
  <2>2. new # <<>>
    BY <1>3, <2>1
  <2>3. page # <<>>
    <3> SUFFICES ASSUME page = <<>> PROVE FALSE
      OBVIOUS
    <3>1. NewItems(page) = <<>>
      <4>1. PICK places \in [DOMAIN new -> DOMAIN page] : TRUE
        BY NewItemsList DEF new
      <4>2. DOMAIN page = {}
        OBVIOUS
      <4>3. DOMAIN new = {}
        BY <4>1, <4>2
      <4> QED BY <1>1, <1>3, <4>3 DEF new
    <3> QED BY <2>2, <3>1 DEF new
  <2>4. \E l \in cap : Len(items) + n >= l
    BY <2>1 DEF CapReached
  <2>5. PICK l \in Nat : cap = {l} /\ Len(items) < l
    BY <2>3, <2>4 DEF RoomFor
  <2>6. stops = {m \in 1..Len(new) : Len(items) + m >= l}
    BY <1>3, <2>5 DEF CapReached
  <2> HIDE DEF stops
  <2>7. l - Len(items) \in stops /\ \A m \in stops : l - Len(items) <= m
    BY <1>3, <2>1, <2>5, <2>6
  <2>8. Min(stops) = l - Len(items)
    <3>1. ASSUME NEW x \in stops, \A y \in stops : x <= y
          PROVE  x = l - Len(items)
      <4>1. x \in Int /\ l - Len(items) \in Int
        BY <1>3, <2>6
      <4>2. x <= l - Len(items) /\ l - Len(items) <= x
        BY <2>7, <3>1
      <4> QED BY <4>1, <4>2
    <3> QED BY <2>7, <3>1 DEF Min
  <2>9. pushed = l - Len(items)
    BY <1>4, <2>8
  <2> HIDE DEF pushed
  <2> QED BY <1>3, <2>5, <2>6, <2>7, <2>9
<1>5. pushed \in 0..Len(new) /\ (stops = {} => pushed = Len(new))
  <2>1. CASE stops = {}
    BY <1>3, <2>1
  <2>2. CASE stops # {}
    <3> HIDE DEF pushed, stops
    <3> QED BY <1>3, <1>4, <2>2
  <2> QED BY <2>1, <2>2
<1>6. stops = {} => \A l \in cap : new = <<>> \/ Len(items) + Len(new) < l
  <2> SUFFICES ASSUME stops = {}, NEW l \in cap, new # <<>>
               PROVE  Len(items) + Len(new) < l
    OBVIOUS
  <2>1. Len(new) \in DOMAIN new
    BY <1>1, <1>3
  <2>2. ~CapReached(Len(items) + Len(new))
    BY <2>1
  <2>3. l \in Nat
    BY DEF RoomFor
  <2> QED BY <1>3, <2>2, <2>3 DEF CapReached
<1> HIDE DEF stops, pushed
<1>7. /\ front \in Seq(H) /\ Len(front) = pushed
      /\ \A i \in 1..pushed : front[i] = new[i]
  BY <1>1, <1>3, <1>5, FirstOnes
<1> HIDE DEF front
<1>8. /\ items \o front \in Seq(H)
      /\ Len(items \o front) = Len(items) + pushed
      /\ \A i \in 1..(Len(items) + pushed) :
           (items \o front)[i] = IF i <= Len(items) THEN items[i] ELSE new[i - Len(items)]
  <2>1. /\ items \o front \in Seq(H)
        /\ Len(items \o front) = Len(items) + Len(front)
        /\ \A i \in 1..(Len(items) + Len(front)) :
             (items \o front)[i] = IF i <= Len(items) THEN items[i] ELSE front[i - Len(items)]
    BY <1>7, OneThenOther
  <2> DEFINE both == items \o front
  <2> HIDE DEF both
  <2>2. /\ both \in Seq(H)
        /\ Len(both) = Len(items) + pushed
        /\ \A i \in 1..(Len(items) + pushed) :
             both[i] = IF i <= Len(items) THEN items[i] ELSE front[i - Len(items)]
    BY <1>7, <2>1 DEF both
  <2>3. Len(items) \in Nat /\ pushed \in Nat
    <3>1. ASSUME NEW n \in Nat, NEW p \in 0..n PROVE p \in Nat
      OBVIOUS
    <3> QED BY <1>3, <1>5, <3>1
  <2>4. ASSUME NEW i \in 1..(Len(items) + pushed)
        PROVE  both[i] = IF i <= Len(items) THEN items[i] ELSE new[i - Len(items)]
    <3>1. CASE i <= Len(items)
      BY <2>2, <3>1
    <3>2. CASE ~(i <= Len(items))
      <4>1. i - Len(items) \in 1..pushed
        BY <2>3, <3>2, PlaceInSecond
      <4>2. front[i - Len(items)] = new[i - Len(items)]
        BY <1>7, <4>1
      <4> QED BY <2>2, <3>2, <4>2
    <3> QED BY <3>1, <3>2
  <2> QED BY <2>2, <2>4 DEF both
<1>9. Collect(page).items = items \o front /\ Collect(page).full = (stops # {})
  BY <1>2
<1>10. stops # {} => cap = Some(Len(items) + pushed)
  BY <1>3, <1>4
<1>11. /\ Collect(page).items \in Seq(H)
       /\ Collect(page).full \in BOOLEAN
       /\ Len(Collect(page).items) = Len(items) + pushed
       /\ \A i \in 1..(Len(items) + pushed) :
            Collect(page).items[i] = IF i <= Len(items) THEN items[i] ELSE new[i - Len(items)]
  BY <1>8, <1>9
<1>12. ~Collect(page).full =>
         pushed = Len(new) /\ \A l \in cap : new = <<>> \/ Len(items) + pushed < l
  BY <1>5, <1>6, <1>9
<1>13. Collect(page).full => cap = Some(Len(items) + pushed)
  BY <1>9, <1>10
<1>14. Len(items) + pushed \in Len(items)..(Len(items) + Len(new))
  <2>1. ASSUME NEW a \in Nat, NEW b \in Nat, NEW p \in 0..b
        PROVE  a + p \in a..(a + b)
    OBVIOUS
  <2>2. pushed \in 0..Len(new)
    BY <1>5
  <2> QED BY <1>3, <2>1, <2>2
<1>15. new = NewItems(page)
  BY DEF new
<1> QED BY <1>11, <1>12, <1>13, <1>14, <1>15

Descending(s) == \A i, j \in DOMAIN s : i < j => s[i].at >= s[j].at

(* What Collect(page) keeps: what there was, and of the page all that is   *)
(* new, or, of a page in descending order, the newest of it.               *)
LEMMA CollectKeeps ==
  ASSUME NEW H, \A x, y \in H : x.id = y.id => x = y,
         NEW page \in Seq(H), DistinctIds(page),
         items \in Seq(H), DistinctIds(items), RoomFor(page)
  PROVE  /\ DistinctIds(Collect(page).items)
         /\ ToSet(items) \subseteq ToSet(Collect(page).items)
         /\ ToSet(Collect(page).items) \subseteq ToSet(items) \union ToSet(page)
         /\ ~Collect(page).full => ToSet(Collect(page).items) = ToSet(items) \union ToSet(page)
         /\ Descending(page) =>
              \A x \in ToSet(page) \ ToSet(Collect(page).items), y \in ToSet(Collect(page).items) :
                y \in ToSet(items) \/ y.at >= x.at
<1> DEFINE new == NewItems(page)
           got == Collect(page).items
           D == 1..Len(got)
<1>1. /\ new \in Seq(H)
      /\ DOMAIN new = 1..Len(new) /\ Len(new) \in Nat
      /\ DOMAIN page = 1..Len(page) /\ Len(page) \in Nat
      /\ DOMAIN items = 1..Len(items) /\ Len(items) \in Nat
  BY NewItemsList
<1>2. PICK places \in [DOMAIN new -> DOMAIN page] : NewAt(page, places)
  BY NewItemsList
<1>20. /\ \A n \in DOMAIN new : new[n] = page[places[n]] /\ NotSeen(page[places[n]], items)
       /\ \A m, n \in DOMAIN new : m < n => places[m] < places[n]
       /\ \A k \in DOMAIN page : NotSeen(page[k], items) => \E n \in DOMAIN new : places[n] = k
  BY <1>2 DEF NewAt
<1>3. /\ got \in Seq(H)
      /\ Len(got) \in Len(items)..(Len(items) + Len(new))
      /\ \A i \in D : got[i] = IF i <= Len(items) THEN items[i] ELSE new[i - Len(items)]
      /\ ~Collect(page).full => Len(got) = Len(items) + Len(new)
  BY CollectShape
<1> HIDE DEF new, got
<1>30. Len(got) \in Nat /\ Len(items) <= Len(got) /\ Len(got) <= Len(items) + Len(new)
  BY <1>1, <1>3
<1>4. /\ DOMAIN got = D /\ Len(got) \in Nat
      /\ \A i \in D : i <= Len(items) => i \in DOMAIN items /\ got[i] = items[i]
      /\ \A i \in D : ~(i <= Len(items)) => i - Len(items) \in DOMAIN new /\ got[i] = new[i - Len(items)]
  <2>1. DOMAIN got = D /\ Len(got) \in Nat
    BY <1>3
  <2>2. ASSUME NEW i \in D
        PROVE  /\ i <= Len(items) => i \in DOMAIN items
               /\ ~(i <= Len(items)) => i - Len(items) \in DOMAIN new
    BY <1>1, <1>30
  <2>3. \A i \in D : /\ i <= Len(items) => got[i] = items[i]
                     /\ ~(i <= Len(items)) => got[i] = new[i - Len(items)]
    BY <1>3
  <2> QED BY <2>1, <2>2, <2>3
<1>5. \A i \in 1..Len(items) : i \in D /\ got[i] = items[i]
  <2> TAKE i \in 1..Len(items)
  <2>1. i \in D /\ i <= Len(items)
    BY <1>1, <1>30
  <2> QED BY <1>4, <2>1
<1>6. ASSUME NEW k \in DOMAIN page, ~NotSeen(page[k], items)
      PROVE  page[k] \in ToSet(items)
  <2>1. PICK i \in DOMAIN items : items[i].id = page[k].id
    BY <1>6 DEF NotSeen
  <2>2. items[i] \in H /\ page[k] \in H
    BY <1>1
  <2>3. items[i] = page[k]
    BY <2>1, <2>2
  <2> QED BY <2>3 DEF ToSet
<1>7. DistinctIds(got)
  <2>1. SUFFICES ASSUME NEW i \in D, NEW j \in D, i < j
                 PROVE  got[i].id # got[j].id
    <3>1. \A i, j \in D : i # j => i < j \/ j < i
      BY <1>4
    <3> QED BY <1>4, <2>1, <3>1 DEF DistinctIds
  <2>2. CASE j <= Len(items)
    <3>1. i <= Len(items)
      BY <1>1, <1>4, <2>1, <2>2
    <3>2. i \in DOMAIN items /\ j \in DOMAIN items /\ got[i] = items[i] /\ got[j] = items[j] /\ i # j
      BY <1>4, <2>1, <2>2, <3>1
    <3> QED BY <3>2 DEF DistinctIds
  <2>3. CASE i <= Len(items) /\ ~(j <= Len(items))
    <3>1. i \in DOMAIN items /\ got[i] = items[i]
      BY <1>4, <2>3
    <3>2. PICK n \in DOMAIN new : got[j] = new[n]
      BY <1>4, <2>3
    <3>3. NotSeen(got[j], items)
      BY <1>2, <1>20, <3>2
    <3> QED BY <3>1, <3>3 DEF NotSeen
  <2>4. CASE ~(i <= Len(items)) /\ ~(j <= Len(items))
    <3>1. i - Len(items) \in DOMAIN new /\ j - Len(items) \in DOMAIN new
          /\ got[i] = new[i - Len(items)] /\ got[j] = new[j - Len(items)]
      BY <1>4, <2>4
    <3>2. i - Len(items) < j - Len(items)
      BY <1>1, <1>4, <2>1
    <3>3. PICK m \in DOMAIN page, n \in DOMAIN page :
            got[i] = page[m] /\ got[j] = page[n] /\ m < n
      BY <1>2, <1>20, <3>1, <3>2
    <3>4. m # n
      BY <1>1, <3>3
    <3> QED BY <3>3, <3>4 DEF DistinctIds
  <2> QED BY <2>2, <2>3, <2>4
<1>8. ToSet(items) \subseteq ToSet(got)
  BY <1>1, <1>4, <1>5 DEF ToSet
<1>9. ToSet(got) \subseteq ToSet(items) \union ToSet(page)
  <2> SUFFICES ASSUME NEW i \in D PROVE got[i] \in ToSet(items) \union ToSet(page)
    BY <1>4 DEF ToSet
  <2> QED BY <1>2, <1>20, <1>4 DEF ToSet
<1>10. ASSUME NEW k \in DOMAIN page, page[k] \notin ToSet(got)
       PROVE  \E n \in DOMAIN new : /\ places[n] = k
                                    /\ ~(Len(items) + n \in D)
  <2>1. NotSeen(page[k], items)
    BY <1>6, <1>8, <1>10
  <2>2. PICK n \in DOMAIN new : places[n] = k
    BY <1>2, <1>20, <2>1
  <2>3. new[n] = page[k]
    BY <1>2, <1>20, <2>2
  <2>4. ASSUME Len(items) + n \in D PROVE FALSE
    <3>1. ~(Len(items) + n <= Len(items)) /\ (Len(items) + n) - Len(items) = n
      BY <1>1
    <3>2. got[Len(items) + n] = new[n]
      BY <1>4, <2>4, <3>1
    <3> QED BY <1>4, <1>10, <2>3, <2>4, <3>2 DEF ToSet
  <2> QED BY <2>2, <2>4
<1>11. ASSUME ~Collect(page).full PROVE ToSet(page) \subseteq ToSet(got)
  <2> SUFFICES ASSUME NEW k \in DOMAIN page, page[k] \notin ToSet(got) PROVE FALSE
    BY DEF ToSet
  <2>1. PICK n \in DOMAIN new : ~(Len(items) + n \in D)
    BY <1>10
  <2>2. Len(got) = Len(items) + Len(new)
    BY <1>3, <1>11
  <2>3. Len(items) + n \in 1..(Len(items) + Len(new))
    <3>1. n \in 1..Len(new)
      BY <1>1
    <3> QED BY <1>1, <3>1
  <2> QED BY <2>1, <2>2, <2>3
<1>12. ASSUME Descending(page), NEW x \in ToSet(page) \ ToSet(got), NEW y \in ToSet(got),
              y \notin ToSet(items)
       PROVE  y.at >= x.at
  <2>1. PICK k \in DOMAIN page : x = page[k]
    BY <1>12 DEF ToSet
  <2>2. PICK n \in DOMAIN new : places[n] = k /\ ~(Len(items) + n \in D)
    BY <1>10, <1>12, <2>1
  <2>3. PICK i \in D : y = got[i]
    BY <1>4 DEF ToSet
  <2>4. ~(i <= Len(items))
    BY <1>4, <1>12, <2>3 DEF ToSet
  <2>5. i - Len(items) \in DOMAIN new /\ y = new[i - Len(items)]
    BY <1>4, <2>3, <2>4
  <2>6. i - Len(items) < n
    <3>1. n \in 1..Len(new) /\ i \in 1..Len(got)
      BY <1>1
    <3> QED BY <1>1, <1>4, <2>2, <3>1
  <2>7. places[i - Len(items)] < k
    BY <1>2, <1>20, <2>2, <2>5, <2>6
  <2>8. y = page[places[i - Len(items)]] /\ places[i - Len(items)] \in DOMAIN page
    BY <1>2, <1>20, <2>5
  <2> QED BY <1>12, <2>1, <2>7, <2>8 DEF Descending
<1>13. got = Collect(page).items
  BY DEF got
<1> QED BY <1>7, <1>8, <1>9, <1>11, <1>12, <1>13

(* NewestFirst puts a sequence in descending order, item for item. *)
LEMMA NewestFirstSorts ==
  ASSUME NEW H, \A x \in H : x.at \in Int, NEW s \in Seq(H), DistinctIds(s)
  PROVE  /\ NewestFirst(s) \in Seq(H)
         /\ Len(NewestFirst(s)) = Len(s)
         /\ ToSet(NewestFirst(s)) = ToSet(s)
         /\ DistinctIds(NewestFirst(s))
         /\ Descending(NewestFirst(s))
<1> DEFINE S == DOMAIN s
           newer(j, k) == s[j].at > s[k].at \/ (s[j].at = s[k].at /\ j < k)
           before == [k \in S |-> {j \in S : newer(j, k)}]
           places == InOrder(before)
           sorted == NewestFirst(s)
<1>1. S = 1..Len(s) /\ Len(s) \in Nat
  OBVIOUS
<1>2. IsFiniteSet(S) /\ Cardinality(S) = Len(s)
  <2>1. IsFiniteSet(1..Len(s)) /\ Cardinality(1..Len(s)) = Len(s)
    <3>1. ASSUME NEW n \in Nat PROVE IsFiniteSet(1..n) /\ Cardinality(1..n) = n
      <4>1. IsFiniteSet(1..n) /\ Cardinality(1..n) = IF 1 > n THEN 0 ELSE n - 1 + 1
        BY FS_Interval
      <4> QED BY <4>1
    <3> QED BY <1>1, <3>1
  <2> HIDE DEF S
  <2> QED BY <1>1, <2>1
<1>3. \A k \in S : s[k].at \in Int /\ s[k] \in H
  BY <1>1
<1>4. /\ places \in [1..Len(s) -> S]
      /\ \A k \in S : \E n \in 1..Len(s) : places[n] = k
      /\ \A m, n \in 1..Len(s) : m < n => places[m] \in before[places[n]]
  <2>1. before \in [S -> SUBSET S]
    OBVIOUS
  <2>2. \A k \in S : k \notin before[k]
    BY <1>1, <1>3
  <2>3. \A j, k \in S : j # k => j \in before[k] \/ k \in before[j]
    <3> SUFFICES ASSUME NEW j \in S, NEW k \in S, j # k
                 PROVE  newer(j, k) \/ newer(k, j)
      OBVIOUS
    <3>1. s[j].at \in Int /\ s[k].at \in Int /\ (j < k \/ k < j)
      BY <1>1, <1>3
    <3> QED BY <3>1
  <2>4. \A j, k \in S : j \in before[k] => before[j] \subseteq before[k]
    <3> SUFFICES ASSUME NEW j \in S, NEW k \in S, newer(j, k), NEW l \in S, newer(l, j)
                 PROVE  newer(l, k)
      OBVIOUS
    <3>1. s[j].at \in Int /\ s[k].at \in Int /\ s[l].at \in Int
          /\ j \in Int /\ k \in Int /\ l \in Int
      BY <1>1, <1>3
    <3> QED BY <3>1
  <2> HIDE DEF before, S
  <2>5. /\ Cardinality(S) \in Nat
        /\ InOrder(before) \in [1..Cardinality(S) -> S]
        /\ \A k \in S : \E n \in 1..Cardinality(S) : InOrder(before)[n] = k
        /\ \A m, n \in 1..Cardinality(S) :
             m < n => InOrder(before)[m] \in before[InOrder(before)[n]]
    BY <1>2, <2>1, <2>2, <2>3, <2>4, InOrderLists
  <2> QED BY <1>2, <2>5
<1>5. sorted = [n \in 1..Len(s) |-> s[places[n]]]
  <2>1. sorted = [n \in DOMAIN places |-> s[places[n]]]
    BY DEF NewestFirst
  <2> HIDE DEF places
  <2> QED BY <1>4, <2>1
<1>6. \A m, n \in 1..Len(s) :
        m < n => s[places[m]].at >= s[places[n]].at /\ places[m] # places[n]
  <2> SUFFICES ASSUME NEW m \in 1..Len(s), NEW n \in 1..Len(s), m < n
               PROVE  s[places[m]].at >= s[places[n]].at /\ places[m] # places[n]
    OBVIOUS
  <2> HIDE DEF places
  <2>1. places[m] \in S /\ places[n] \in S /\ places[m] \in before[places[n]]
    BY <1>4
  <2> QED BY <1>1, <1>3, <2>1
<1> HIDE DEF places, sorted, before
<1>7. sorted \in Seq(H) /\ Len(sorted) = Len(s) /\ DOMAIN sorted = 1..Len(s)
  BY <1>1, <1>3, <1>4, <1>5
<1>8. ToSet(sorted) = ToSet(s)
  <2>1. ToSet(sorted) \subseteq ToSet(s)
    BY <1>4, <1>5, <1>7 DEF ToSet
  <2>2. ASSUME NEW k \in S PROVE s[k] \in ToSet(sorted)
    <3>1. PICK n \in 1..Len(s) : places[n] = k
      BY <1>4
    <3> QED BY <1>5, <1>7, <3>1 DEF ToSet
  <2> QED BY <2>1, <2>2 DEF ToSet
<1>9. DistinctIds(sorted)
  <2> SUFFICES ASSUME NEW m \in 1..Len(s), NEW n \in 1..Len(s), m # n
               PROVE  sorted[m].id # sorted[n].id
    BY <1>7 DEF DistinctIds
  <2>1. m < n \/ n < m
    BY <1>1
  <2>2. places[m] \in S /\ places[n] \in S /\ places[m] # places[n]
    BY <1>4, <1>6, <2>1
  <2> QED BY <1>5, <2>2 DEF DistinctIds
<1>10. Descending(sorted)
  BY <1>5, <1>6, <1>7 DEF Descending
<1> QED BY <1>7, <1>8, <1>9, <1>10 DEF sorted

-----------------------------------------------------------------------------
(* The inductive invariant.                                                *)

Walking == pc \in {"Fetch", "Sent"}

Inside(from, to) == {x \in history : Within(x, from, to)}

Served == UNION cursor

Current == Inside(window_start, window_end)

(* What the windows already done hold. *)
Covered == IF window_end = end THEN {} ELSE Inside(window_end, end)

Typed ==
  /\ request \in Requests
  /\ history \in Histories
  /\ server \in [counts_in : {"Both", "Start", "End"}, newest_first : BOOLEAN]
  /\ pc \in {"Plan", "Fetch", "Sent", "Done", "Refused", "Failed"}
  /\ start \in Int /\ end \in Int /\ window_end \in Int
  /\ cap = None \/ cap = request.limit
  /\ cursor = None \/ \E S \in SUBSET history : cursor = Some(S)
  /\ items \in Seq(history)
  /\ rate_limit_budget \in 0..RetryBudget
  /\ windows \in 0..(MAX_WINDOWS + 1)

NotBegun == pc = "Plan" => cursor = None /\ items = <<>>

Planned ==
  Walking =>
    /\ Acceptable(request)
    /\ start = The(request.start_date)
    /\ end = EndOf(request)
    /\ cap = request.limit

(* The windows done reach from the end of the range to window_end, which   *)
(* is not beyond its start.                                                *)
Positioned ==
  Walking =>
    /\ start <= window_end /\ window_end <= end
    /\ window_end = end \/ start < window_end

(* What is collected is what the windows done hold and what the current    *)
(* one has served, each item once, and there is room for more.             *)
Gathered ==
  Walking =>
    /\ DistinctIds(items)
    /\ Served \subseteq Current
    /\ ToSet(items) = Covered \union Served
    /\ \A l \in cap : Len(items) < l \/ (l = 0 /\ items = <<>>)

(* An endpoint that lists the newest first has served the newest. *)
NewestServed ==
  Walking /\ server.newest_first => \A y \in Served, x \in Current \ Served : y.at >= x.at

Finished == Complete /\ EachOnceNewestFirst /\ CapKeepsTheNewest

IInv ==
  Typed /\ NotBegun /\ Planned /\ Positioned /\ Gathered /\ NewestServed /\ Finished

-----------------------------------------------------------------------------
(* The parts the proof of its invariance rests on.                         *)

(* The dates of a request that is accepted. *)
LEMMA AcceptedDates ==
  ASSUME NEW r \in Requests, Acceptable(r)
  PROVE  The(r.start_date) \in Dates /\ EndOf(r) \in Dates /\ The(r.start_date) <= EndOf(r)
<1>1. r.start_date \in Option(Dates) /\ r.end_date \in Option(Dates)
  BY RequestAssumption
<1>2. \A o \in Option(Dates) : o # None => The(o) \in Dates
  BY DEF Option, The
<1>3. The(r.start_date) \in Dates /\ EndOf(r) \in Dates
  BY <1>1, <1>2, RangeAssumption DEF Acceptable, EndOf
<1>4. Dates \subseteq Int
  BY RangeAssumption DEF Dates, Lowest
<1> QED BY <1>3, <1>4 DEF Acceptable

(* The window that ends at window_end. *)
LEMMA WindowStart ==
  ASSUME start \in Dates, window_end \in Int, start <= window_end
  PROVE  /\ window_start \in Int
         /\ start <= window_start /\ window_start <= window_end
         /\ window_end - window_start <= MAX_WINDOW_MS
         /\ start < window_end => window_start < window_end
         /\ start < window_start => window_start = window_end - MAX_WINDOW_MS
  BY RangeAssumption DEF Dates, Lowest, window_start, Bigger

(* Windows that share their boundary leave nothing out between them,       *)
(* whichever of its ends the endpoint counts in.                           *)
LEMMA WindowsMeet ==
  ASSUME NEW x, x.at \in Int, NEW a \in Int, NEW b \in Int, NEW c \in Int, a < b, b < c,
         server.counts_in \in {"Both", "Start", "End"}
  PROVE  Within(x, a, c) <=> Within(x, a, b) \/ Within(x, b, c)
  BY DEF Within

(* What lies in a window lies in a wider one. *)
LEMMA WindowsNest ==
  ASSUME NEW x, x.at \in Int, NEW a \in Int, NEW b \in Int, NEW c \in Int, a <= b, b < c,
         server.counts_in \in {"Both", "Start", "End"}, Within(x, b, c)
  PROVE  Within(x, a, c)
  BY DEF Within

(* What lies in a window lies between its ends. *)
LEMMA WindowBounds ==
  ASSUME NEW x, x.at \in Int, NEW a \in Int, NEW b \in Int, a <= b, Within(x, a, b)
  PROVE  a <= x.at /\ x.at <= b
  BY DEF Within

(* A page is made of different items of those not served yet. *)
LEMMA PagesHold ==
  ASSUME NEW page \in Pages, history \in Histories
  PROVE  /\ page \in Seq(Unserved) /\ page \in Seq(history)
         /\ ToSet(page) \subseteq Unserved
         /\ DistinctIds(page)
         /\ \A l \in request.limit : Len(page) <= l
         /\ server.newest_first =>
              /\ Descending(page)
              /\ \A x \in Unserved \ ToSet(page), y \in ToSet(page) : y.at >= x.at
<1>1. PICK S \in SUBSET Unserved : page \in SetToSeqs(S)
  BY DEF Pages
<1>2. Unserved \subseteq history
  BY DEF Unserved
<1>3. IsFiniteSet(S) /\ S \subseteq history
  <2>1. IsFiniteSet(history) /\ S \in SUBSET history
    BY <1>1, <1>2, HistoryAssumption
  <2> QED BY <2>1, FS_Subset
<1>4. Cardinality(S) \in Nat
  BY <1>3, FS_CardinalityType
<1>5. page \in [1..Cardinality(S) -> S]
      /\ \A i, j \in 1..Cardinality(S) : i # j => page[i] # page[j]
  BY <1>1 DEF SetToSeqs
<1>6. page \in Seq(S) /\ DOMAIN page = 1..Cardinality(S)
  BY <1>4, <1>5
<1>7. page \in Seq(Unserved) /\ page \in Seq(history) /\ ToSet(page) \subseteq Unserved
  BY <1>1, <1>2, <1>3, <1>5, <1>6 DEF ToSet
<1>8. DistinctIds(page)
  <2>1. \A x, y \in history : x.id = y.id => x = y
    BY HistoryAssumption
  <2> QED BY <1>3, <1>5, <1>6, <2>1 DEF DistinctIds
<1>9. \A l \in request.limit : Len(page) <= l
  BY DEF Pages
<1>10. server.newest_first =>
         /\ Descending(page)
         /\ \A x \in Unserved \ ToSet(page), y \in ToSet(page) : y.at >= x.at
  BY DEF Pages, Descending, ToSet
<1> QED BY <1>7, <1>8, <1>9, <1>10

(* As many items as ids. *)
LEMMA DistinctCount ==
  ASSUME NEW H, NEW s \in Seq(H), DistinctIds(s)
  PROVE  IsFiniteSet(ToSet(s)) /\ Cardinality(ToSet(s)) = Len(s)
<1>1. DOMAIN s = 1..Len(s) /\ Len(s) \in Nat /\ s \in [1..Len(s) -> ToSet(s)]
  BY DEF ToSet
<1>2. \A i, j \in 1..Len(s) : s[i] = s[j] => i = j
  BY <1>1 DEF DistinctIds
<1>3. s \in Bijection(1..Len(s), ToSet(s))
  BY <1>1, <1>2 DEF ToSet, Bijection, Injection, IsInjective, Surjection
<1>4. IsFiniteSet(1..Len(s)) /\ Cardinality(1..Len(s)) = Len(s)
  <2>1. ASSUME NEW n \in Nat PROVE IsFiniteSet(1..n) /\ Cardinality(1..n) = n
    <3>1. IsFiniteSet(1..n) /\ Cardinality(1..n) = IF 1 > n THEN 0 ELSE n - 1 + 1
      BY FS_Interval
    <3> QED BY <3>1
  <2> QED BY <1>1, <2>1
<1>5. ExistsBijection(1..Len(s), ToSet(s))
  BY <1>3 DEF ExistsBijection
<1> QED BY <1>4, <1>5, FS_Bijection

(* Where a walk is when a page arrives. *)
LEMMA WalkGeometry ==
  ASSUME IInv, Walking
  PROVE  /\ history \in Histories /\ items \in Seq(history)
         /\ server.counts_in \in {"Both", "Start", "End"}
         /\ start \in Dates /\ start \in Int /\ end \in Int /\ window_end \in Int
         /\ window_start \in Int
         /\ start <= window_start /\ window_start <= window_end /\ window_end <= end
         /\ window_end = end \/ start < window_end
         /\ start < window_end => window_start < window_end
         /\ \A x \in history : x.at \in Int
         /\ \A x, y \in history : x.id = y.id => x = y
<1>1. /\ history \in Histories /\ items \in Seq(history)
      /\ server.counts_in \in {"Both", "Start", "End"}
      /\ start \in Int /\ end \in Int /\ window_end \in Int
  BY DEF IInv, Typed
<1>2. request \in Requests /\ Acceptable(request) /\ start = The(request.start_date)
  BY DEF IInv, Typed, Planned
<1>3. start \in Dates
  BY <1>2, AcceptedDates
<1>4. start <= window_end /\ window_end <= end /\ (window_end = end \/ start < window_end)
  BY DEF IInv, Positioned
<1>5. \A x \in history : x.at \in Int
  BY <1>1, HistoryAssumption
<1>6. \A x, y \in history : x.id = y.id => x = y
  BY <1>1, HistoryAssumption
<1>7. /\ window_start \in Int
      /\ start <= window_start /\ window_start <= window_end
      /\ start < window_end => window_start < window_end
  BY <1>1, <1>3, <1>4, WindowStart
<1> QED BY <1>1, <1>3, <1>4, <1>5, <1>6, <1>7

(* The windows done and the current one together. *)
LEMMA CoveredSoFar ==
  ASSUME IInv, Walking
  PROVE  /\ Covered \union Current = Inside(window_start, end)
         /\ Inside(window_start, end) \subseteq Wanted
         /\ \A x \in Covered : window_end <= x.at
         /\ \A x \in Current : window_start <= x.at /\ x.at <= window_end
         /\ \A x \in Wanted \ Covered : x.at <= window_end
         /\ \A x \in Wanted \ (Covered \union Current) : x.at <= window_start
<1>0. /\ server.counts_in \in {"Both", "Start", "End"}
      /\ start \in Int /\ end \in Int /\ window_end \in Int /\ window_start \in Int
      /\ start <= window_start /\ window_start <= window_end /\ window_end <= end
      /\ window_end = end \/ start < window_end
      /\ start < window_end => window_start < window_end
      /\ \A x \in history : x.at \in Int
  BY WalkGeometry
<1>1. CASE window_end = end
  <2>1. Covered = {} /\ Current = Inside(window_start, end)
    BY <1>1 DEF Covered, Current
  <2>2. Inside(window_start, end) \subseteq Wanted
    <3>1. CASE window_start = end
      <4>1. start = end
        BY <1>0, <1>1, <3>1
      <4> QED BY <3>1, <4>1 DEF Inside, Wanted
    <3>2. CASE window_start < end
      BY <1>0, <3>2, WindowsNest DEF Inside, Wanted
    <3> QED BY <1>0, <3>1, <3>2
  <2>3. \A x \in Current : window_start <= x.at /\ x.at <= window_end
    BY <1>0, WindowBounds DEF Current, Inside
  <2>4. \A x \in Wanted : x.at <= window_end
    BY <1>0, <1>1, WindowBounds DEF Wanted
  <2>5. ASSUME NEW x \in Wanted, x \notin Current PROVE x.at <= window_start
    <3>1. x \in history /\ Within(x, start, end) /\ ~Within(x, window_start, end)
      BY <1>1, <2>5 DEF Wanted, Current, Inside
    <3>2. CASE start = window_start
      BY <3>1, <3>2
    <3>3. CASE window_start = end
      BY <1>1, <2>4, <3>3
    <3>4. CASE start < window_start /\ window_start < end
      <4>1. Within(x, start, window_start)
        BY <1>0, <3>1, <3>4, WindowsMeet
      <4> QED BY <1>0, <3>1, <4>1, WindowBounds
    <3> QED BY <1>0, <1>1, <3>2, <3>3, <3>4
  <2> QED BY <2>1, <2>2, <2>3, <2>4, <2>5
<1>2. CASE window_end # end
  <2>0. window_start < window_end /\ window_end < end /\ start < end /\ window_start < end
        /\ start < window_end
    BY <1>0, <1>2
  <2>1. Covered = Inside(window_end, end) /\ Current = Inside(window_start, window_end)
    BY <1>2 DEF Covered, Current
  <2>2. Covered \union Current = Inside(window_start, end)
    BY <1>0, <2>0, <2>1, WindowsMeet DEF Inside
  <2>3. Inside(window_start, end) \subseteq Wanted
    BY <1>0, <2>0, WindowsNest DEF Inside, Wanted
  <2>4. \A x \in Current : window_start <= x.at /\ x.at <= window_end
    BY <1>0, <2>1, WindowBounds DEF Inside
  <2>5. \A x \in Covered : window_end <= x.at
    BY <1>0, <2>1, WindowBounds DEF Inside
  <2>6. ASSUME NEW x \in Wanted, x \notin Covered PROVE x.at <= window_end
    <3>1. x \in history /\ Within(x, start, end) /\ ~Within(x, window_end, end)
      BY <2>1, <2>6 DEF Wanted, Inside
    <3>2. Within(x, start, window_end)
      BY <1>0, <2>0, <3>1, WindowsMeet
    <3> QED BY <1>0, <2>0, <3>1, <3>2, WindowBounds
  <2>7. ASSUME NEW x \in Wanted, x \notin Inside(window_start, end) PROVE x.at <= window_start
    <3>1. x \in history /\ Within(x, start, end) /\ ~Within(x, window_start, end)
      BY <2>7 DEF Wanted, Inside
    <3>2. start < window_start
      BY <1>0, <3>1
    <3>3. Within(x, start, window_start)
      BY <1>0, <2>0, <3>1, <3>2, WindowsMeet
    <3> QED BY <1>0, <3>1, <3>2, <3>3, WindowBounds
  <2> QED BY <2>2, <2>3, <2>4, <2>5, <2>6, <2>7
<1> QED BY <1>1, <1>2

(* What has been collected once a page's items are. *)
LEMMA PageCollected ==
  ASSUME IInv, pc = "Sent", NEW page \in Pages
  PROVE  /\ Collect(page).items \in Seq(history)
         /\ Collect(page).full \in BOOLEAN
         /\ DistinctIds(Collect(page).items)
         /\ Unserved = Current \ Served
         /\ ToSet(page) \subseteq Current
         /\ ToSet(Collect(page).items) \subseteq Wanted
         /\ ~Collect(page).full =>
              /\ ToSet(Collect(page).items) = Covered \union Served \union ToSet(page)
              /\ \A l \in cap : Len(Collect(page).items) < l
                                \/ (l = 0 /\ Collect(page).items = <<>>)
         /\ Collect(page).full => cap = Some(Len(Collect(page).items))
         /\ server.newest_first =>
              \A x \in Wanted \ ToSet(Collect(page).items), y \in ToSet(Collect(page).items) :
                y.at >= x.at
<1> DEFINE got == Collect(page).items
<1>0. Walking
  BY DEF Walking
<1>1. /\ history \in Histories /\ items \in Seq(history)
      /\ window_end \in Int /\ window_start \in Int /\ window_start <= window_end
      /\ \A x \in history : x.at \in Int
      /\ \A x, y \in history : x.id = y.id => x = y
  BY <1>0, WalkGeometry
<1>2. /\ page \in Seq(history)
      /\ ToSet(page) \subseteq Unserved
      /\ DistinctIds(page)
      /\ \A l \in request.limit : Len(page) <= l
      /\ server.newest_first =>
           /\ Descending(page)
           /\ \A x \in Unserved \ ToSet(page), y \in ToSet(page) : y.at >= x.at
  BY <1>1, PagesHold
<1>3. /\ DistinctIds(items)
      /\ Served \subseteq Current
      /\ ToSet(items) = Covered \union Served
      /\ \A l \in cap : Len(items) < l \/ (l = 0 /\ items = <<>>)
  BY <1>0 DEF IInv, Gathered
<1>4. cap = request.limit /\ (cap = None \/ \E l \in Nat : cap = Some(l))
  <2>1. cap = request.limit /\ request \in Requests
    BY <1>0 DEF IInv, Typed, Planned
  <2> QED BY <2>1, RequestAssumption
<1>5. RoomFor(page)
  <2>1. ASSUME NEW l \in Nat, cap = Some(l) PROVE Len(items) < l \/ page = <<>>
    <3>1. CASE Len(items) < l
      BY <3>1
    <3>2. CASE l = 0
      <4>1. Len(page) <= 0
        BY <1>2, <1>4, <2>1, <3>2
      <4> QED BY <1>2, <4>1
    <3> QED BY <1>3, <2>1, <3>1, <3>2
  <2> QED BY <1>4, <2>1 DEF RoomFor
<1>6. /\ Covered \union Current = Inside(window_start, end)
      /\ Inside(window_start, end) \subseteq Wanted
      /\ \A x \in Covered : window_end <= x.at
      /\ \A x \in Current : window_start <= x.at /\ x.at <= window_end
      /\ \A x \in Wanted \ Covered : x.at <= window_end
      /\ \A x \in Wanted \ (Covered \union Current) : x.at <= window_start
  BY <1>0, CoveredSoFar
<1>7. /\ got \in Seq(history)
      /\ Collect(page).full \in BOOLEAN
      /\ Collect(page).full => cap = Some(Len(got))
      /\ ~Collect(page).full =>
           /\ Len(got) = Len(items) + Len(NewItems(page))
           /\ \A l \in cap : NewItems(page) = <<>> \/ Len(got) < l
  BY <1>1, <1>2, <1>5, CollectShape
<1>8. /\ DistinctIds(got)
      /\ ToSet(items) \subseteq ToSet(got)
      /\ ToSet(got) \subseteq ToSet(items) \union ToSet(page)
      /\ ~Collect(page).full => ToSet(got) = ToSet(items) \union ToSet(page)
      /\ Descending(page) =>
           \A x \in ToSet(page) \ ToSet(got), y \in ToSet(got) : y \in ToSet(items) \/ y.at >= x.at
  BY <1>1, <1>2, <1>3, <1>5, CollectKeeps
<1> HIDE DEF got
<1>9. Unserved = Current \ Served /\ ToSet(page) \subseteq Current
  BY <1>2 DEF Unserved, Current, Served, Inside
<1>10. ToSet(got) \subseteq Wanted
  BY <1>3, <1>6, <1>8, <1>9
<1>11. ASSUME ~Collect(page).full, NEW l \in cap
       PROVE  Len(got) < l \/ (l = 0 /\ got = <<>>)
  <2>1. CASE NewItems(page) = <<>>
    <3>1. Len(got) = Len(items)
      BY <1>1, <1>7, <1>11, <2>1
    <3>2. items = <<>> => got = <<>>
      BY <1>7, <3>1
    <3> QED BY <1>3, <3>1, <3>2
  <2> QED BY <1>7, <1>11, <2>1
<1>12. ASSUME server.newest_first, NEW x \in Wanted \ ToSet(got), NEW y \in ToSet(got)
       PROVE  y.at >= x.at
  <2>1. x \notin Covered /\ x \notin Served /\ x \in history
    BY <1>3, <1>8, <1>12 DEF Wanted
  <2>2. y \in Covered \/ y \in Served \/ y \in ToSet(page)
    BY <1>3, <1>8
  <2>3. y \in history
    BY <1>10 DEF Wanted
  <2>4. x.at \in Int /\ y.at \in Int
    BY <1>1, <2>1, <2>3
  <2>5. CASE y \in Covered
    BY <1>1, <1>6, <1>12, <2>1, <2>4, <2>5
  <2>6. CASE y \in Current /\ x \notin Current
    BY <1>1, <1>6, <1>12, <2>1, <2>4, <2>6
  <2>7. CASE y \in Served /\ x \in Current
    BY <1>0, <1>12, <2>1, <2>7 DEF IInv, NewestServed
  <2>8. CASE y \in ToSet(page) /\ y \notin ToSet(items) /\ x \in Current
    <3>1. x \in Unserved
      BY <1>9, <2>1, <2>8
    <3> QED BY <1>2, <1>8, <1>12, <2>8, <3>1
  <2> QED BY <1>3, <1>9, <2>2, <2>5, <2>6, <2>7, <2>8
<1>13. got = Collect(page).items
  BY DEF got
<1> QED BY <1>3, <1>7, <1>8, <1>9, <1>10, <1>11, <1>12, <1>13

-----------------------------------------------------------------------------
(* The invariant holds. *)

(* It holds at first. *)
LEMMA InitInvariant == Init => IInv
<1> SUFFICES ASSUME Init PROVE IInv
  OBVIOUS
<1>1. Typed
  BY RangeAssumption DEF Init, Typed
<1>2. pc = "Plan" /\ ~Walking
  BY DEF Init, Walking
<1> QED BY <1>1, <1>2 DEF Init, IInv, NotBegun, Planned, Positioned, Gathered, NewestServed,
                          Finished, Complete, EachOnceNewestFirst, CapKeepsTheNewest

(* What a walk that ends returns. *)
LEMMA WalkReturns ==
  ASSUME IInv, pc = "Sent", NEW page \in Pages, NEW more \in BOOLEAN, PageArrives(page, more),
         pc' = "Done"
  PROVE  items' \in Seq(history) /\ Finished'
<1> DEFINE got == Collect(page)
           wanted == {x \in history : Within(x, start, end)}
<1>1. Walking
  BY DEF Walking
<1>2. /\ history \in Histories
      /\ start \in Int /\ window_start \in Int /\ start <= window_start
      /\ \A x \in history : x.at \in Int
  BY <1>1, WalkGeometry
<1>3. /\ got.items \in Seq(history)
      /\ got.full \in BOOLEAN
      /\ DistinctIds(got.items)
      /\ Unserved = Current \ Served
      /\ ToSet(page) \subseteq Current
      /\ ToSet(got.items) \subseteq wanted
      /\ ~got.full =>
           /\ ToSet(got.items) = Covered \union Served \union ToSet(page)
           /\ \A l \in cap : Len(got.items) < l \/ (l = 0 /\ got.items = <<>>)
      /\ got.full => cap = Some(Len(got.items))
      /\ server.newest_first =>
           \A x \in wanted \ ToSet(got.items), y \in ToSet(got.items) : y.at >= x.at
  BY PageCollected DEF Wanted
<1>4. Served \subseteq Current /\ Covered \union Current = Inside(window_start, end)
  BY <1>1, CoveredSoFar DEF IInv, Gathered
<1>5. /\ got.full \/ (~more /\ LastWindow)
      /\ items' = NewestFirst(got.items)
      /\ Unserved \ ToSet(page) # {} => more
      /\ UNCHANGED <<request, history, server, start, end, cap>>
  BY DEF PageArrives, inputs, plan
<1> HIDE DEF got
<1>6. ~got.full => ToSet(got.items) = wanted
  <2> SUFFICES ASSUME ~got.full PROVE ToSet(got.items) = wanted
    OBVIOUS
  <2>1. ToSet(got.items) = Covered \union Current
    BY <1>3, <1>4, <1>5
  <2>2. window_start = start
    BY <1>2, <1>5 DEF LastWindow
  <2> QED BY <1>4, <2>1, <2>2 DEF Inside
<1>7. /\ items' \in Seq(history)
      /\ Len(items') = Len(got.items)
      /\ ToSet(items') = ToSet(got.items)
      /\ DistinctIds(items')
      /\ Descending(items')
  BY <1>2, <1>3, <1>5, NewestFirstSorts
<1>8. DOMAIN items' = 1..Len(items') /\ Len(items') \in Nat
  BY <1>7
<1>9. Wanted' = wanted
  BY <1>5 DEF Wanted, Within
<1>10. Complete'
  BY <1>3, <1>5, <1>6, <1>7, <1>9 DEF Complete
<1>11. EachOnceNewestFirst'
  <2>1. \A i, j \in DOMAIN items' : i < j => i # j
    BY <1>8
  <2> QED BY <1>7, <2>1 DEF EachOnceNewestFirst, DistinctIds, Descending
<1>12. CapKeepsTheNewest'
  <2> SUFFICES ASSUME cap # None
               PROVE  /\ Len(items') = Smaller(The(cap), Cardinality(wanted))
                      /\ server.newest_first =>
                           \A x \in wanted \ ToSet(items'), i \in DOMAIN items' : items'[i].at >= x.at
    BY <1>5, <1>9 DEF CapKeepsTheNewest
  <2>1. PICK l \in Nat : cap = Some(l)
    <3>1. cap = request.limit /\ request \in Requests
      BY <1>1 DEF IInv, Typed, Planned
    <3> QED BY <3>1, RequestAssumption
  <2>2. The(cap) = l
    BY <2>1 DEF The
  <2>3. IsFiniteSet(history) /\ wanted \in SUBSET history
    BY <1>2, HistoryAssumption
  <2>4. IsFiniteSet(wanted) /\ Cardinality(wanted) \in Nat
    <3> HIDE DEF wanted
    <3> QED BY <2>3, FS_Subset, FS_CardinalityType
  <2>5. Cardinality(ToSet(got.items)) = Len(got.items)
    BY <1>3, DistinctCount
  <2>6. Len(got.items) <= Cardinality(wanted)
    <3> HIDE DEF wanted
    <3> QED BY <1>3, <2>4, <2>5, FS_Subset
  <2>7. Len(got.items) = Smaller(l, Cardinality(wanted))
    <3>1. CASE got.full
      <4>1. l = Len(got.items)
        BY <1>3, <2>1, <3>1
      <4> QED BY <2>4, <2>6, <4>1 DEF Smaller
    <3>2. CASE ~got.full
      <4>1. Cardinality(wanted) = Len(got.items)
        BY <1>6, <2>5, <3>2
      <4>2. Len(got.items) <= l
        BY <1>3, <2>1, <3>2
      <4> QED BY <1>7, <1>8, <4>1, <4>2 DEF Smaller
    <3> QED BY <3>1, <3>2
  <2>8. ASSUME server.newest_first, NEW x \in wanted \ ToSet(items'), NEW i \in DOMAIN items'
        PROVE  items'[i].at >= x.at
    <3>1. items'[i] \in ToSet(items')
      BY DEF ToSet
    <3> QED BY <1>3, <1>7, <2>8, <3>1
  <2> QED BY <1>7, <2>2, <2>7, <2>8
<1> QED BY <1>7, <1>10, <1>11, <1>12 DEF Finished

(* A page that arrives keeps it. *)
LEMMA PageKeepsInvariant ==
  ASSUME IInv, NEW page \in Pages, NEW more \in BOOLEAN, PageArrives(page, more)
  PROVE  IInv'
<1> DEFINE got == Collect(page)
           complete == got.full \/ (~more /\ LastWindow)
<1>1. pc = "Sent" /\ Walking
  BY DEF PageArrives, Walking
<1>2. /\ history \in Histories
      /\ start \in Int /\ end \in Int /\ window_end \in Int /\ window_start \in Int
      /\ start <= window_start /\ window_start <= window_end /\ window_end <= end
      /\ start < window_end => window_start < window_end
  BY <1>1, WalkGeometry
<1>3. /\ got.items \in Seq(history)
      /\ got.full \in BOOLEAN
      /\ DistinctIds(got.items)
      /\ Unserved = Current \ Served
      /\ ToSet(page) \subseteq Current
      /\ ~got.full =>
           /\ ToSet(got.items) = Covered \union Served \union ToSet(page)
           /\ \A l \in cap : Len(got.items) < l \/ (l = 0 /\ got.items = <<>>)
  BY <1>1, PageCollected
<1>4. Served \subseteq Current /\ Covered \union Current = Inside(window_start, end)
  BY <1>1, CoveredSoFar DEF IInv, Gathered
<1>5. /\ Unserved \ ToSet(page) # {} => more
      /\ pc' = IF complete THEN "Done" ELSE "Fetch"
      /\ items' = IF complete THEN NewestFirst(got.items) ELSE got.items
      /\ cursor' = IF more /\ ~complete THEN Some((UNION cursor) \union ToSet(page)) ELSE None
      /\ complete \/ more => UNCHANGED <<window_end, windows>>
      /\ ~complete /\ ~more => /\ window_end' = window_start
                               /\ windows' = Smaller(windows + 1, MAX_WINDOWS + 1)
      /\ UNCHANGED <<request, history, server, start, end, cap, rate_limit_budget>>
  BY DEF PageArrives, inputs, plan, NextWindowEnd
<1> HIDE DEF got
<1>6. /\ Typed /\ Planned /\ Positioned /\ NewestServed
      /\ complete \in BOOLEAN
  BY <1>3 DEF IInv
<1>7. windows' \in 0..(MAX_WINDOWS + 1)
  <2>1. windows \in 0..(MAX_WINDOWS + 1)
    BY <1>6 DEF Typed
  <2>2. Smaller(windows + 1, MAX_WINDOWS + 1) \in 0..(MAX_WINDOWS + 1)
    BY <2>1, RangeAssumption DEF Smaller
  <2> QED BY <1>5, <2>1, <2>2
<1>8. (UNION cursor) \union ToSet(page) \subseteq Current /\ Current \subseteq history
  BY <1>3, <1>4 DEF Served, Current, Inside
<1>9. complete => items' \in Seq(history) /\ Finished'
  BY <1>1, <1>5, WalkReturns
<1>10. Typed'
  <2>1. items' \in Seq(history')
    BY <1>3, <1>5, <1>9
  <2>2. cursor' = None \/ \E S \in SUBSET history' : cursor' = Some(S)
    <3>1. CASE more /\ ~complete
      <4>1. (UNION cursor) \union ToSet(page) \in SUBSET history'
        BY <1>5, <1>8
      <4> QED BY <1>5, <3>1, <4>1
    <3> QED BY <1>5, <3>1
  <2>3. window_end' \in Int
    BY <1>2, <1>5
  <2>4. pc' \in {"Plan", "Fetch", "Sent", "Done", "Refused", "Failed"}
    BY <1>5
  <2> HIDE DEF complete
  <2> QED BY <1>5, <1>6, <1>7, <2>1, <2>2, <2>3, <2>4 DEF Typed
<1>11. NotBegun' /\ (Walking' => ~complete)
  BY <1>5 DEF NotBegun, Walking
<1>12. Planned'
  BY <1>1, <1>5, <1>6 DEF Planned, EndOf
<1>13. Positioned'
  <2> SUFFICES ASSUME ~complete PROVE Positioned'
    BY <1>11 DEF Positioned
  <2>1. CASE more
    BY <1>1, <1>5, <1>6, <2>1 DEF Positioned
  <2>2. CASE ~more
    <3>1. window_end' = window_start /\ ~LastWindow
      BY <1>5, <2>2
    <3> QED BY <1>2, <1>5, <3>1 DEF Positioned, LastWindow
  <2> QED BY <1>6, <2>1, <2>2
<1>14. Gathered' /\ NewestServed'
  <2> SUFFICES ASSUME ~complete PROVE Gathered' /\ NewestServed'
    BY <1>11 DEF Gathered, NewestServed
  <2>1. /\ items' = got.items
        /\ DistinctIds(items')
        /\ \A l \in cap' : Len(items') < l \/ (l = 0 /\ items' = <<>>)
        /\ ToSet(items') = Covered \union Served \union ToSet(page)
    BY <1>3, <1>5
  <2>2. CASE more
    <3>1. Served' = Served \union ToSet(page)
      BY <1>5, <2>2 DEF Served
    <3>2. Current' = Current /\ Covered' = Covered
      BY <1>5, <2>2 DEF Current, Covered, Inside, Within, window_start
    <3>3. Gathered'
      BY <1>4, <1>3, <2>1, <3>1, <3>2 DEF Gathered
    <3>4. ASSUME server.newest_first, NEW y \in Served', NEW x \in Current' \ Served'
          PROVE  y.at >= x.at
      <4>1. x \in Unserved \ ToSet(page)
        BY <1>3, <3>1, <3>2, <3>4
      <4>2. CASE y \in Served
        BY <1>1, <1>3, <1>6, <3>4, <4>1, <4>2 DEF NewestServed
      <4>3. CASE y \in ToSet(page)
        BY <1>2, <3>4, <4>1, <4>3, PagesHold
      <4> QED BY <3>1, <3>4, <4>2, <4>3
    <3> QED BY <1>5, <3>3, <3>4 DEF NewestServed
  <2>3. CASE ~more
    <3>1. window_end' = window_start /\ ~LastWindow
      BY <1>5, <2>3
    <3>2. Served' = {}
      BY <1>5, <2>3 DEF Served
    <3>3. ToSet(items') = Inside(window_start, end)
      BY <1>3, <1>4, <1>5, <2>1, <2>3
    <3>4. window_start # end
      BY <1>2, <3>1 DEF LastWindow
    <3>5. Covered' = Inside(window_start, end)
      BY <1>5, <3>1, <3>4 DEF Covered, Inside, Within
    <3> QED BY <2>1, <3>2, <3>3, <3>5 DEF Gathered, NewestServed
  <2> QED BY <2>2, <2>3
<1>15. Finished'
  <2>1. CASE complete
    BY <1>9, <2>1
  <2>2. CASE ~complete
    BY <1>5, <2>2 DEF Finished, Complete, EachOnceNewestFirst, CapKeepsTheNewest
  <2> QED BY <2>1, <2>2
<1> QED BY <1>10, <1>11, <1>12, <1>13, <1>14, <1>15 DEF IInv

(* The invariant is inductive. *)
LEMMA NextInvariant == IInv /\ [Next]_vars => IInv'
<1> SUFFICES ASSUME IInv, [Next]_vars PROVE IInv'
  OBVIOUS
<1> USE DEF inputs, plan
<1>1. CASE UNCHANGED vars
  <2>1. UNCHANGED <<request, history, server, pc, start, end, cap, window_end, cursor, items,
                    rate_limit_budget, windows>>
    BY <1>1 DEF vars
  <2>2. Typed' /\ NotBegun' /\ Planned' /\ Positioned'
    BY <2>1 DEF IInv, Typed, NotBegun, Planned, Positioned, Walking, Acceptable, EndOf
  <2>3. Gathered' /\ NewestServed'
    BY <2>1 DEF IInv, Gathered, NewestServed, Walking, Covered, Current, Served, Inside, Within,
                window_start
  <2>4. Wanted' = Wanted
    BY <2>1 DEF Wanted, Within
  <2>5. Complete'
    BY <2>1, <2>4 DEF IInv, Finished, Complete
  <2>6. EachOnceNewestFirst'
    BY <2>1 DEF IInv, Finished, EachOnceNewestFirst
  <2>7. CapKeepsTheNewest'
    BY <2>1, <2>4 DEF IInv, Finished, CapKeepsTheNewest
  <2> QED BY <2>2, <2>3, <2>5, <2>6, <2>7 DEF IInv, Finished
<1>2. CASE Refuse
  BY <1>2 DEF Refuse, IInv, Typed, NotBegun, Planned, Positioned, Gathered, NewestServed, Finished,
              Walking, Complete, EachOnceNewestFirst, CapKeepsTheNewest
<1>3. CASE Plan
  <2>1. /\ pc = "Plan" /\ pc' = "Fetch" /\ Walking'
        /\ Acceptable(request)
        /\ UNCHANGED <<request, history, server, cursor, items, rate_limit_budget>>
        /\ start' = The(request.start_date) /\ end' = EndOf(request) /\ window_end' = end'
        /\ cap' = request.limit /\ windows' = 1
    BY <1>3 DEF Plan, Walking
  <2>2. cursor' = None /\ items' = <<>> /\ request \in Requests
    BY <2>1 DEF IInv, NotBegun, Typed
  <2>3. start' \in Int /\ end' \in Int /\ start' <= end'
    <3>1. Dates \subseteq Int
      BY RangeAssumption DEF Dates, Lowest
    <3> QED BY <2>1, <2>2, <3>1, AcceptedDates
  <2>4. Typed'
    <3>1. 1 \in 0..(MAX_WINDOWS + 1)
      BY RangeAssumption
    <3> QED BY <2>1, <2>2, <2>3, <3>1 DEF IInv, Typed
  <2>5. Planned' /\ NotBegun'
    BY <2>1 DEF Planned, NotBegun, Acceptable, EndOf
  <2>6. Positioned'
    BY <2>1, <2>3 DEF Positioned
  <2>7. Gathered'
    <3>1. Served' = {} /\ Covered' = {} /\ ToSet(items') = {} /\ DistinctIds(items')
      BY <2>1, <2>2 DEF Served, Covered, ToSet, DistinctIds
    <3>2. \A l \in cap' : 0 < l \/ l = 0
      <4>1. \A l \in cap' : l \in Nat
        BY <2>1, <2>2, RequestAssumption
      <4> QED BY <4>1
    <3> QED BY <2>2, <3>1, <3>2 DEF Gathered
  <2>8. NewestServed'
    BY <2>2 DEF NewestServed, Served
  <2>9. Finished'
    BY <2>1 DEF Finished, Complete, EachOnceNewestFirst, CapKeepsTheNewest
  <2> QED BY <2>4, <2>5, <2>6, <2>7, <2>8, <2>9 DEF IInv
<1>4. CASE Fetch \/ RateLimited
  <2>1. /\ Walking /\ Walking' /\ pc' \in {"Fetch", "Sent"}
        /\ UNCHANGED <<request, history, server, start, end, cap, window_end, cursor, items, windows>>
    BY <1>4 DEF Fetch, RateLimited, Walking
  <2>2. rate_limit_budget' \in 0..RetryBudget
    BY <1>4, RangeAssumption DEF Fetch, RateLimited, BudgetLeft, SpendBudget, IInv, Typed
  <2>3. Typed'
    BY <2>1, <2>2 DEF IInv, Typed
  <2>4. NotBegun' /\ Planned' /\ Positioned'
    BY <2>1 DEF IInv, NotBegun, Planned, Positioned, Acceptable, EndOf
  <2>5. Gathered' /\ NewestServed'
    BY <2>1 DEF IInv, Gathered, NewestServed, Covered, Current, Served, Inside, Within, window_start
  <2>6. Finished'
    BY <2>1 DEF Finished, Complete, EachOnceNewestFirst, CapKeepsTheNewest
  <2> QED BY <2>3, <2>4, <2>5, <2>6 DEF IInv
<1>5. CASE \E page \in Pages, more \in BOOLEAN : PageArrives(page, more)
  BY <1>5, PageKeepsInvariant
<1>6. CASE FetchFails
  <2>1. <<>> \in Seq(history)
    OBVIOUS
  <2> QED BY <1>6, <2>1 DEF FetchFails, IInv, Typed, NotBegun, Planned, Positioned, Gathered,
                  NewestServed, Finished, Walking, Complete, EachOnceNewestFirst, CapKeepsTheNewest
<1> QED BY <1>1, <1>2, <1>3, <1>4, <1>5, <1>6 DEF Next

(* In every state of every walk. *)
LEMMA Invariance == Spec => []IInv
  BY InitInvariant, NextInvariant, PTL DEF Spec

-----------------------------------------------------------------------------
(* What follows.                                                           *)

(* Every variable of a walk has its type. *)
THEOREM TypeCorrect == Spec => []TypeOK
<1>1. IInv => TypeOK
  <2> SUFFICES ASSUME IInv PROVE TypeOK
    OBVIOUS
  <2>1. Typed
    BY DEF IInv
  <2>2. \A l \in cap : l \in Nat
    BY <2>1, RequestAssumption DEF Typed
  <2>3. ToSet(items) \subseteq history
    BY <2>1 DEF Typed, ToSet
  <2>4. cursor = None \/ cursor \in {Some(S) : S \in SUBSET history}
    BY <2>1 DEF Typed
  <2> QED BY <2>1, <2>2, <2>3, <2>4 DEF Typed, TypeOK
<1> QED BY <1>1, Invariance, PTL

(* An uncapped walk that completes has every item of the range: none falls *)
(* between two windows or two cursors, for any history, any window width,  *)
(* any page size and any reading of a window's ends.                       *)
THEOREM NothingFallsBetween == Spec => []Complete
<1>1. IInv => Complete
  BY DEF IInv, Finished
<1> QED BY <1>1, Invariance, PTL

(* A completed walk lists each item once, newest first. *)
THEOREM MergedInOrder == Spec => []EachOnceNewestFirst
<1>1. IInv => EachOnceNewestFirst
  BY DEF IInv, Finished
<1> QED BY <1>1, Invariance, PTL

(* A capped walk returns the cap's worth if there is that much, and the    *)
(* newest of it if the endpoint lists the newest first.                    *)
THEOREM CapTakesTheNewest == Spec => []CapKeepsTheNewest
<1>1. IInv => CapKeepsTheNewest
  BY DEF IInv, Finished
<1> QED BY <1>1, Invariance, PTL

-----------------------------------------------------------------------------
(* How many windows a walk makes.                                          *)

(* No request spans more than an i64 can hold.  Without this the walk may  *)
(* be longer than plan admits: AbsurdRangesRefused is violated.            *)
SpansFit == \A r \in Requests : r.start_date # None => EndOf(r) - The(r.start_date) <= MaxInt

(* Every window but the last is as wide as one may be. *)
Counted ==
  Walking => /\ windows \in 1..MAX_WINDOWS
             /\ window_end = end - (windows - 1) * MAX_WINDOW_MS

(* Fewer than m whole d's in n: n is less than m of them. *)
LEMMA FewerThan ==
  ASSUME NEW n \in Nat, NEW d \in Nat \ {0}, NEW m \in Nat, n \div d < m
  PROVE  n < m * d
<1> DEFINE q == n \div d
           r == n % d
<1>1. q \in Int /\ r \in Int /\ n = d * q + r /\ r < d
  OBVIOUS
<1> HIDE DEF q, r
<1>2. q + 1 <= m
  BY <1>1 DEF q
<1>3. d * (q + 1) <= d * m
  BY <1>1, <1>2
<1>4. d * (q + 1) = d * q + d
  BY <1>1
<1>5. d * m = m * d
  OBVIOUS
<1> QED BY <1>1, <1>3, <1>4, <1>5

(* Fewer d's than m of them are fewer than m. *)
LEMMA FewerTimes ==
  ASSUME NEW k \in Nat, NEW d \in Nat \ {0}, NEW m \in Nat, k * d < m * d
  PROVE  k < m
OBVIOUS

(* A span that fits is what the subtraction leaves of it. *)
LEMMA WrapsNot ==
  ASSUME NEW n \in 0..MaxInt
  PROVE  Wrapped(n) = n
<1> DEFINE a == n - Lowest
           b == MaxInt - Lowest + 1
<1>1. a \in Nat /\ b \in Nat /\ a < b /\ a + Lowest = n /\ Lowest \in Int
  BY RangeAssumption DEF Lowest
<1>2. Wrapped(n) = (a % b) + Lowest
  BY DEF Wrapped
<1> HIDE DEF a, b
<1>3. a % b = a
  BY <1>1
<1> QED BY <1>1, <1>2, <1>3

(* A request that is accepted spans fewer than MAX_WINDOWS whole windows.  *)
LEMMA AcceptedSpan ==
  ASSUME SpansFit, NEW r \in Requests, Acceptable(r)
  PROVE  EndOf(r) - The(r.start_date) < MAX_WINDOWS * MAX_WINDOW_MS
<1> DEFINE span == EndOf(r) - The(r.start_date)
<1>1. span \in 0..MaxInt
  <2>1. Dates \subseteq Int
    BY RangeAssumption DEF Dates, Lowest
  <2>2. span \in Int /\ 0 <= span
    <3>1. The(r.start_date) \in Int /\ EndOf(r) \in Int /\ The(r.start_date) <= EndOf(r)
      BY <2>1, AcceptedDates
    <3>2. \A m, n \in Int : m <= n => n - m \in Int /\ 0 <= n - m
      OBVIOUS
    <3> QED BY <3>1, <3>2
  <2>3. span <= MaxInt
    BY DEF SpansFit, Acceptable
  <2> QED BY <2>2, <2>3, RangeAssumption
<1>2. ~TooWide(span)
  <2>1. ~TooWide(Wrapped(span))
    BY DEF Acceptable
  <2> QED BY <1>1, <2>1, WrapsNot
<1> HIDE DEF span
<1>3. span \in Nat
  BY <1>1, RangeAssumption
<1>4. Quotient(span, MAX_WINDOW_MS) = span \div MAX_WINDOW_MS
  BY <1>3 DEF Quotient
<1>5. span \div MAX_WINDOW_MS \in Int
  BY <1>3, RangeAssumption
<1>6. span \div MAX_WINDOW_MS < MAX_WINDOWS
  BY <1>2, <1>4, <1>5, RangeAssumption DEF TooWide
<1>7. span < MAX_WINDOWS * MAX_WINDOW_MS
  BY <1>3, <1>6, RangeAssumption, FewerThan
<1> QED BY <1>7 DEF span

(* The count of windows is kept. *)
LEMMA CountInvariant ==
  ASSUME SpansFit, IInv, Counted, [Next]_vars
  PROVE  Counted'
<1> USE DEF inputs, plan
<1>1. CASE UNCHANGED vars
  BY <1>1 DEF vars, Counted, Walking
<1>2. CASE Refuse \/ FetchFails
  BY <1>2 DEF Refuse, FetchFails, Counted, Walking
<1>3. CASE Plan
  <2>1. end' \in Int
    <3>1. Dates \subseteq Int
      BY RangeAssumption DEF Dates, Lowest
    <3> QED BY <1>3, <3>1, AcceptedDates DEF Plan, IInv, Typed
  <2>2. windows' = 1 /\ window_end' = end'
    BY <1>3 DEF Plan
  <2>3. end' = end' - (1 - 1) * MAX_WINDOW_MS /\ 1 \in 1..MAX_WINDOWS
    <3>1. \A e, w \in Int : e = e - (1 - 1) * w
      OBVIOUS
    <3>2. MAX_WINDOW_MS \in Int /\ 1 \in 1..MAX_WINDOWS
      BY RangeAssumption
    <3> QED BY <2>1, <3>1, <3>2
  <2> QED BY <2>2, <2>3 DEF Counted
<1>4. CASE Fetch \/ RateLimited
  BY <1>4 DEF Fetch, RateLimited, Counted, Walking
<1>5. ASSUME NEW page \in Pages, NEW more \in BOOLEAN, PageArrives(page, more)
      PROVE  Counted'
  <2> SUFFICES ASSUME Walking' PROVE Counted'
    BY DEF Counted
  <2>1. Walking
    BY <1>5 DEF PageArrives, Walking
  <2>2. CASE UNCHANGED <<window_end, windows>>
    BY <1>5, <2>1, <2>2 DEF PageArrives, Counted
  <2>3. CASE ~UNCHANGED <<window_end, windows>>
    <3>1. /\ ~LastWindow
          /\ window_end' = window_start
          /\ windows' = Smaller(windows + 1, MAX_WINDOWS + 1)
          /\ end' = end
      BY <1>5, <2>3 DEF PageArrives, Walking, NextWindowEnd
    <3>2. /\ start \in Dates /\ start \in Int /\ end \in Int /\ window_end \in Int
          /\ window_start \in Int /\ start <= window_end
      BY <2>1, WalkGeometry
    <3>3. start < window_start /\ window_start = window_end - MAX_WINDOW_MS
      BY <3>1, <3>2, WindowStart DEF LastWindow
    <3>4. windows \in 1..MAX_WINDOWS /\ window_end = end - (windows - 1) * MAX_WINDOW_MS
      BY <2>1 DEF Counted
    <3>5. window_start = end - windows * MAX_WINDOW_MS
      <4>1. windows \in Int /\ MAX_WINDOW_MS \in Int
        BY <3>4, RangeAssumption
      <4>2. (windows - 1) * MAX_WINDOW_MS = windows * MAX_WINDOW_MS - MAX_WINDOW_MS
        BY <4>1
      <4>3. windows * MAX_WINDOW_MS \in Int
        BY <4>1
      <4> QED BY <3>2, <3>3, <3>4, <4>1, <4>2, <4>3
    <3>6. end - start < MAX_WINDOWS * MAX_WINDOW_MS
      BY <2>1, AcceptedSpan DEF IInv, Typed, Planned
    <3>7. windows \in Nat /\ windows * MAX_WINDOW_MS \in Int /\ MAX_WINDOWS * MAX_WINDOW_MS \in Int
      BY <3>4, RangeAssumption
    <3>8. windows * MAX_WINDOW_MS < MAX_WINDOWS * MAX_WINDOW_MS
      BY <3>2, <3>3, <3>5, <3>6, <3>7
    <3>9. windows < MAX_WINDOWS
      BY <3>7, <3>8, RangeAssumption, FewerTimes
    <3>10. windows' = windows + 1 /\ windows' \in 1..MAX_WINDOWS
      BY <3>1, <3>4, <3>9, RangeAssumption DEF Smaller
    <3>11. windows' - 1 = windows
      BY <3>7, <3>10
    <3> QED BY <3>1, <3>5, <3>10, <3>11 DEF Counted
  <2> QED BY <2>2, <2>3
<1> QED BY <1>1, <1>2, <1>3, <1>4, <1>5 DEF Next

(* Every query of a walk lies in the range asked for and is as wide as one *)
(* may be at most, whatever the dates.                                     *)
THEOREM QueriesInRange ==
  Spec => [](Walking => /\ start <= window_start /\ window_start <= window_end
                        /\ window_end <= end
                        /\ window_end - window_start <= MAX_WINDOW_MS)
<1>1. IInv => (Walking => /\ start <= window_start /\ window_start <= window_end
                          /\ window_end <= end
                          /\ window_end - window_start <= MAX_WINDOW_MS)
  BY WalkGeometry, WindowStart
<1> QED BY <1>1, Invariance, PTL

(* If no request's span overflows, a walk also makes no more windows than  *)
(* plan admits: every query is one the endpoint accepts.                   *)
THEOREM QueriesAccepted ==
  ASSUME SpansFit
  PROVE  Spec => []QueriesAcceptable
<1>1. Init => Counted
  BY DEF Init, Counted, Walking
<1>2. IInv /\ Counted /\ [Next]_vars => Counted'
  BY CountInvariant
<1>3. IInv /\ Counted => QueriesAcceptable
  <2> SUFFICES ASSUME IInv, Counted, Walking
               PROVE  /\ start <= window_start /\ window_start <= window_end /\ window_end <= end
                      /\ window_end - window_start <= MAX_WINDOW_MS
                      /\ windows <= MAX_WINDOWS
    BY DEF QueriesAcceptable, Walking
  <2>1. windows <= MAX_WINDOWS
    BY RangeAssumption DEF Counted
  <2> QED BY <2>1, WalkGeometry, WindowStart
<1> QED BY <1>1, <1>2, <1>3, Invariance, PTL DEF Spec
=============================================================================
