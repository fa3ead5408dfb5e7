---------------------------- MODULE SelectionProofs ----------------------------
(***************************************************************************)
(* The selectors and the groupers do what they are described to do, for    *)
(* all lists, strings and comparisons.                                     *)
(***************************************************************************)
EXTENDS Selection, FiniteSetTheorems, SequenceTheorems, TLAPS

\* The functions that need strings.
Needs == fn \in Groupers \cup Splitters

\* No entry so far has made the call fail, and the one that does is no string.
StringsSoFar ==
  /\ Needs => \A j \in 1..i : entries[j] # Other
  /\ status = "failed" => Needs /\ \E j \in 1..Len(entries) : entries[j] = Other
  /\ status = "done" => i = Len(entries)

\* What is selected: what is described, and by whereAll nothing if it is given a
\* string twice.
Selected(v) == Described(v) /\ (fn = "whereAll" => Distinct(cmp))

\* What has been selected so far is what is described so far.
SelectedSoFar ==
  fn \in Selectors =>
    /\ \A n \in DOMAIN selected : selected[n] \in 1..i
    /\ \A m, n \in DOMAIN selected : m < n => selected[m] < selected[n]
    /\ Elements(selected) = {j \in 1..i : Selected(entries[j])}

\* The groups so far hold the entries so far, where they belong.
GroupedSoFar ==
  fn \in Groupers =>
    \A k \in Strings :
      /\ \A n \in DOMAIN groups[k] : groups[k][n] \in 1..i
      /\ Ascending(groups[k])
      /\ \A j \in 1..i : Count(groups[k], j) = ShowsUp(j, k)

SelectionInv == TypeOK /\ StringsSoFar /\ SelectedSoFar /\ GroupedSoFar

--------------------------------------------------------------------------------
LEMMA FinitePlaces ==
  ASSUME NEW n \in Nat
  PROVE  IsFiniteSet(1..n) /\ Cardinality(1..n) = n
BY FS_Interval

\* A list has no more different elements than places, and as many only if no
\* element is in it twice.
LEMMA DifferentElements ==
  ASSUME NEW S, NEW list \in Seq(S)
  PROVE  /\ IsFiniteSet(Elements(list)) /\ Cardinality(Elements(list)) \in Nat
         /\ Cardinality(Elements(list)) = Len(list) <=>
              \A m, n \in DOMAIN list : list[m] = list[n] => m = n
<1> DEFINE places == 1..Len(list)
<1>1. /\ Len(list) \in Nat /\ DOMAIN list = places
      /\ list \in [places -> Elements(list)]
  BY LenProperties DEF Elements
<1>2. list \in Surjection(places, Elements(list))
  BY <1>1 DEF Surjection, Elements
<1>3. IsFiniteSet(places) /\ Cardinality(places) = Len(list)
  BY <1>1, FS_Interval
<1>4. /\ IsFiniteSet(Elements(list))
      /\ Cardinality(Elements(list)) = Cardinality(places) <=>
           list \in Injection(places, Elements(list))
  BY <1>2, <1>3, FS_Surjection
<1>5. list \in Injection(places, Elements(list)) <=>
        \A m, n \in DOMAIN list : list[m] = list[n] => m = n
  BY <1>1 DEF Injection, IsInjective
<1> QED
  BY <1>3, <1>4, <1>5, FS_CardinalityType

\* whereAll's comparison of two numbers: as many different strings found as
\* strings given means that all of them were found and none was given twice.
LEMMA AllFound ==
  ASSUME NEW l1 \in Seq(Strings), NEW l2 \in Seq(Strings)
  PROVE  Cardinality(Intersect(l1, l2)) = Len(l1) <=>
           /\ \A x \in Elements(l1) : x \in Elements(l2)
           /\ \A m, n \in DOMAIN l1 : l1[m] = l1[n] => m = n
<1> DEFINE E == Elements(l1)
           I == Intersect(l1, l2)
<1>1. /\ IsFiniteSet(E) /\ Cardinality(E) \in Nat
      /\ Cardinality(E) = Len(l1) <=>
           \A m, n \in DOMAIN l1 : l1[m] = l1[n] => m = n
  BY DifferentElements
<1>2. I \in SUBSET E
  BY DEF Intersect
<1>3. /\ IsFiniteSet(I) /\ Cardinality(I) <= Cardinality(E)
      /\ Cardinality(E) = Cardinality(I) => E = I
  BY <1>1, <1>2, FS_Subset
<1>4. Cardinality(I) \in Nat /\ Len(l1) \in Nat
  BY <1>3, FS_CardinalityType, LenProperties
<1>5. Cardinality(E) <= Len(l1)
  <2>1. /\ Len(l1) \in Nat /\ DOMAIN l1 = 1..Len(l1)
        /\ l1 \in Surjection(1..Len(l1), E)
    BY LenProperties DEF Surjection, Elements
  <2>2. IsFiniteSet(1..Len(l1)) /\ Cardinality(1..Len(l1)) = Len(l1)
    BY <2>1, FinitePlaces
  <2> QED
    BY <2>1, <2>2, FS_Surjection
<1>6. E = I <=> \A x \in E : x \in Elements(l2)
  BY DEF Intersect
<1> QED
  BY <1>1, <1>3, <1>4, <1>5, <1>6

\* The code's tests are the described ones, but for whereAll with a string that it is
\* given twice, which is satisfied by nothing: it compares the number of different
\* strings it has found with the number of strings it was given.
LEMMA TestDescribed ==
  ASSUME fn \in Selectors, cmp \in Arguments(fn), NEW v \in Entries,
         fn \in Splitters => v # Other
  PROVE  Test(v) <=> Selected(v)
<1>1. CASE fn \notin Splitters
  BY <1>1 DEF Test, Selected, Described, Selectors, Splitters
<1>2. CASE fn \in Splitters
  <2>1. cmp \in Seq(Strings)
    BY <1>2, SelectionAssumption DEF Arguments
  <2>2. CASE v = Nil
    BY <1>2, <2>2 DEF Test, Selected, Described, Splitters
  <2>3. CASE v # Nil
    <3>1. Split[v] \in Seq(Strings)
      BY <1>2, <2>3, SelectionAssumption DEF Entries
    <3>2. CASE fn = "whereAny"
      BY <2>3, <3>2 DEF Test, Selected, Described, Intersect
    <3>3. CASE fn = "whereAll"
      <4>1. Test(v) <=> Cardinality(Intersect(cmp, Split[v])) = Len(cmp)
        BY <2>3, <3>3 DEF Test
      <4>2. Selected(v) <=>
              /\ \A x \in Elements(cmp) : x \in Elements(Split[v])
              /\ \A m, n \in DOMAIN cmp : cmp[m] = cmp[n] => m = n
        BY <2>3, <3>3 DEF Selected, Described, Distinct
      <4> QED
        BY <2>1, <3>1, <4>1, <4>2, AllFound
    <3> QED
      BY <1>2, <3>2, <3>3 DEF Splitters
  <2> QED
    BY <2>2, <2>3
<1> QED
  BY <1>1, <1>2

\* The places of x in a list can be counted.
LEMMA CountType ==
  ASSUME NEW S, NEW list \in Seq(S), NEW x
  PROVE  /\ IsFiniteSet({n \in DOMAIN list : list[n] = x})
         /\ Count(list, x) \in Nat
<1>1. Len(list) \in Nat /\ DOMAIN list = 1..Len(list)
  BY LenProperties
<1>2. IsFiniteSet(1..Len(list))
  BY <1>1, FinitePlaces
<1>3. IsFiniteSet({n \in DOMAIN list : list[n] = x})
  BY <1>1, <1>2, FS_Subset
<1> QED
  BY <1>3, FS_CardinalityType DEF Count

LEMMA NextPlaces ==
  ASSUME NEW last \in Nat, NEW c \in Nat
  PROVE  /\ IsFiniteSet((last + 1)..(last + c))
         /\ Cardinality((last + 1)..(last + c)) = c
<1> DEFINE from == last + 1
           to   == last + c
<1>1. from \in Int /\ to \in Int /\ from <= to + 1 /\ to - from + 1 = c
  OBVIOUS
<1> HIDE DEF from, to
<1>2. /\ IsFiniteSet(from..to)
      /\ Cardinality(from..to) = IF from > to THEN 0 ELSE to - from + 1
  BY <1>1, FS_Interval
<1>3. IsFiniteSet(from..to) /\ Cardinality(from..to) = c
  BY <1>1, <1>2
<1> QED
  BY <1>3 DEF from, to

\* Every place of the list has y.
Repeats(list, y) == \A n \in DOMAIN list : list[n] = y

\* What a list has after some places with y have been put behind it.
LEMMA CountConcat ==
  ASSUME NEW S, NEW list \in Seq(S), NEW tail \in Seq(S), NEW y, Repeats(tail, y),
         NEW x
  PROVE  Count(list \o tail, x)
           = IF x = y THEN Count(list, x) + Len(tail) ELSE Count(list, x)
<1> DEFINE all == list \o tail
           L == Len(list)
           c == Len(tail)
           A == {n \in DOMAIN list : list[n] = x}
           B == IF x = y THEN (L + 1)..(L + c) ELSE {}
<1>1. L \in Nat /\ DOMAIN list = 1..L
  BY LenProperties
<1>2. c \in Nat /\ DOMAIN tail = 1..c
  BY LenProperties
<1>3. /\ DOMAIN (list \o tail) = 1..(L + c)
      /\ \A n \in 1..(L + c) : (list \o tail)[n] = IF n <= L THEN list[n] ELSE tail[n - L]
  <2>1. list \o tail \in Seq(S) /\ Len(list \o tail) = L + c
    BY <1>2, ConcatProperties
  <2>2. DOMAIN (list \o tail) = 1..(L + c)
    BY <2>1, LenProperties
  <2> QED
    BY <1>2, <2>2, ConcatProperties
<1>4. {n \in DOMAIN all : all[n] = x} = A \cup B
  <2>1. \A n \in 1..(L + c) : all[n] = IF n <= L THEN list[n] ELSE y
    BY <1>1, <1>2, <1>3 DEF Repeats
  <2>2. DOMAIN all = 1..(L + c)
    BY <1>3
  <2>3. {n \in 1..(L + c) : all[n] = x} = A \cup B
    BY <1>1, <1>2, <2>1
  <2> QED
    BY <2>2, <2>3
<1>5. IsFiniteSet(A) /\ Cardinality(A) \in Nat /\ Cardinality(A) = Count(list, x)
  BY CountType DEF Count
<1>6. IsFiniteSet(B) /\ Cardinality(B) = IF x = y THEN c ELSE 0
  <2>1. IsFiniteSet((L + 1)..(L + c)) /\ Cardinality((L + 1)..(L + c)) = c
    BY <1>1, <1>2, NextPlaces
  <2> QED
    BY <2>1, FS_EmptySet
<1>7. A \cap B = {} /\ Cardinality({}) = 0
  BY <1>1, FS_EmptySet
<1>8. Cardinality(A \cup B) = Cardinality(A) + Cardinality(B) - Cardinality(A \cap B)
  BY <1>5, <1>6, FS_Union
<1>9. Cardinality(A \cup B) = Cardinality(A) + Cardinality(B)
  <2>1. Cardinality(A) \in Nat /\ Cardinality(B) \in Nat
    BY <1>2, <1>5, <1>6
  <2>2. Cardinality(A \cap B) = 0
    BY <1>7
  <2> HIDE DEF A, B
  <2> QED
    BY <1>8, <2>1, <2>2
<1>10. Count(all, x) = Cardinality(A \cup B)
  BY <1>4 DEF Count
<1> QED
  BY <1>5, <1>6, <1>9, <1>10

\* The keys that the entry after the last one is appended under are those that it
\* is documented to show up under, as often.
LEMMA KeysDescribed ==
  ASSUME fn \in Groupers, NEW j, entries[j] \in Entries,
         GetValue(entries[j]) # Other, NEW k \in Strings
  PROVE  ShowsUp(j, k) = IF GetValue(entries[j]) = Nil THEN 0
                         ELSE Count(AddEntry(GetValue(entries[j])), k)
<1> DEFINE v == GetValue(entries[j])
<1>1. CASE entries[j] = Nil /\ fn = "groupByWithDefault"
  <2>1. v = Default /\ v # Nil /\ AddEntry(v) = <<Default>>
    BY <1>1, SelectionAssumption DEF GetValue, AddEntry
  <2>2. Count(<<Default>>, k) = IF k = Default THEN 1 ELSE 0
    <3>1. {n \in DOMAIN <<Default>> : <<Default>>[n] = k}
            = IF k = Default THEN {1} ELSE {}
      OBVIOUS
    <3> QED
      BY <3>1, FS_Singleton, FS_EmptySet DEF Count
  <2> QED
    BY <1>1, <2>1, <2>2 DEF ShowsUp
<1>2. CASE entries[j] = Nil /\ fn # "groupByWithDefault"
  BY <1>2 DEF ShowsUp, GetValue
<1>3. CASE entries[j] # Nil
  <2>1. v = entries[j]
    BY <1>3 DEF GetValue
  <2>2. CASE fn = "groupByMulti"
    BY <1>3, <2>1, <2>2 DEF ShowsUp, AddEntry
  <2>3. CASE fn # "groupByMulti"
    <3>1. AddEntry(v) = <<v>>
      BY <2>3 DEF AddEntry
    <3>2. {n \in DOMAIN <<v>> : <<v>>[n] = k} = IF v = k THEN {1} ELSE {}
      OBVIOUS
    <3>3. Count(<<v>>, k) = IF v = k THEN 1 ELSE 0
      BY <3>2, FS_Singleton, FS_EmptySet DEF Count
    <3> QED
      BY <1>3, <2>1, <2>3, <3>1, <3>3 DEF ShowsUp
  <2> QED
    BY <2>2, <2>3
<1> QED
  BY <1>1, <1>2, <1>3

\* A list of entries so far stays in order when the next entry is put behind it.
LEMMA AscendingConcat ==
  ASSUME NEW last \in Nat, NEW list \in Seq(Int), NEW c \in Nat,
         Ascending(list), \A n \in DOMAIN list : list[n] \in 1..last
  PROVE  /\ Ascending(list \o [n \in 1..c |-> last + 1])
         /\ \A n \in DOMAIN (list \o [n \in 1..c |-> last + 1]) :
              (list \o [k \in 1..c |-> last + 1])[n] \in 1..(last + 1)
<1> DEFINE tail == [n \in 1..c |-> last + 1]
           L == Len(list)
<1>1. L \in Nat /\ DOMAIN list = 1..L
  BY LenProperties
<1>2. tail \in Seq(Int) /\ Len(tail) = c
  BY LenProperties
<1>3. /\ DOMAIN (list \o tail) = 1..(L + c)
      /\ \A n \in 1..(L + c) : (list \o tail)[n] = IF n <= L THEN list[n] ELSE last + 1
  <2>1. list \o tail \in Seq(Int) /\ Len(list \o tail) = L + c
    BY <1>2, ConcatProperties
  <2>2. DOMAIN (list \o tail) = 1..(L + c)
    BY <2>1, LenProperties
  <2> QED
    BY <1>1, <1>2, <2>2, ConcatProperties
<1> DEFINE all == list \o tail
<1>a. /\ DOMAIN all = 1..(L + c)
      /\ \A n \in 1..(L + c) : all[n] = IF n <= L THEN list[n] ELSE last + 1
  BY <1>3
<1> HIDE DEF tail, all
<1>4. ASSUME NEW n \in 1..(L + c)
      PROVE  all[n] \in 1..(last + 1)
  <2>1. CASE n <= L
    <3>1. n \in DOMAIN list /\ all[n] = list[n]
      BY <1>1, <1>a, <2>1
    <3>2. list[n] \in 1..last
      BY <3>1
    <3> QED
      BY <3>1, <3>2
  <2>2. CASE n > L
    BY <1>1, <1>a, <2>2
  <2> QED
    BY <1>1, <2>1, <2>2
<1>5. Ascending(all)
  <2> SUFFICES ASSUME NEW m \in 1..(L + c), NEW n \in 1..(L + c), m < n
               PROVE  all[m] <= all[n]
    BY <1>a DEF Ascending
  <2>1. CASE n <= L
    <3>1. m \in 1..L /\ n \in 1..L
      BY <1>1, <2>1
    <3> QED
      <4>1. all[m] = list[m] /\ all[n] = list[n]
        BY <1>1, <1>a, <2>1, <3>1
      <4>2. list[m] <= list[n]
        BY <1>1, <3>1 DEF Ascending
      <4> QED
        BY <4>1, <4>2
  <2>2. CASE n > L
    <3>1. all[n] = last + 1 /\ all[m] \in 1..(last + 1)
      BY <1>1, <1>a, <1>4, <2>2
    <3> QED
      BY <3>1
  <2> QED
    BY <1>1, <2>1, <2>2
<1> QED
  BY <1>a, <1>4, <1>5 DEF all, tail

--------------------------------------------------------------------------------
LEMMA SelectionInit == Init => SelectionInv
<1> SUFFICES ASSUME Init PROVE SelectionInv
  OBVIOUS
<1>1. entries \in Seq(Entries) /\ Len(entries) \in Nat
  BY SelectionAssumption, LenProperties DEF Init
<1>2. TypeOK
  <2>1. <<>> \in Seq(1..Len(entries))
    BY EmptySeq
  <2> QED
    BY <1>1, <2>1 DEF Init, TypeOK
<1>3. StringsSoFar
  BY <1>1 DEF Init, StringsSoFar
<1>4. SelectedSoFar
  BY DEF Init, SelectedSoFar, Elements
<1>5. GroupedSoFar
  BY DEF Init, GroupedSoFar, Ascending
<1> QED
  BY <1>2, <1>3, <1>4, <1>5 DEF SelectionInv

\* A step that leaves the call, the list and the selection alone keeps what has
\* been selected, as long as it looks at no entry.
LEMMA SelectedStays ==
  ASSUME SelectedSoFar, UNCHANGED <<fn, cmp, entries, i, selected>>
  PROVE  SelectedSoFar'
<1>1. \A j \in 1..i : (Selected(entries[j]))' <=> Selected(entries[j])
  BY DEF Selected, Described
<1>2. (Elements(selected))' = Elements(selected)
  BY DEF Elements
<1> QED
  BY <1>1, <1>2 DEF SelectedSoFar

\* And one that leaves the groups alone as well keeps what they hold.
LEMMA GroupedStays ==
  ASSUME GroupedSoFar, UNCHANGED <<fn, entries, i, groups>>
  PROVE  GroupedSoFar'
<1>1. \A k \in Strings : \A j \in 1..i : (ShowsUp(j, k))' = ShowsUp(j, k)
  BY DEF ShowsUp
<1>2. \A k \in Strings : (Ascending(groups[k]))' <=> Ascending(groups[k])
  BY DEF Ascending
<1>3. \A k \in Strings : \A j \in 1..i : (Count(groups[k], j))' = Count(groups[k], j)
  BY DEF Count
<1> QED
  BY <1>1, <1>2, <1>3 DEF GroupedSoFar

\* The next entry is put into the groups where it belongs.
LEMMA GroupGrouped ==
  ASSUME SelectionInv, Group
  PROVE  groups' \in [Strings -> Seq(1..Len(entries))] /\ GroupedSoFar'
<1> DEFINE v == GetValue(entries[i + 1])
           c(k) == Count(AddEntry(v), k)
<1>1. /\ fn' = fn /\ entries' = entries /\ i' = i + 1
      /\ fn \in Groupers /\ i < Len(entries) /\ v # Other
      /\ groups' = IF v = Nil THEN groups
                   ELSE [k \in Strings |-> groups[k] \o [n \in 1..c(k) |-> i + 1]]
  BY DEF Group, NoString
<1>2. /\ entries \in Seq(Entries) /\ Len(entries) \in Nat /\ i \in Nat
      /\ i + 1 \in 1..Len(entries) /\ entries[i + 1] \in Entries
  <2>1. entries \in Seq(Entries) /\ Len(entries) \in Nat /\ i \in Nat
    BY SelectionAssumption, LenProperties DEF SelectionInv, TypeOK
  <2> QED
    BY <1>1, <2>1, ElementOfSeq
<1>3. \A k \in Strings : \A j \in 1..(i + 1) : (ShowsUp(j, k))' = ShowsUp(j, k)
  BY <1>1 DEF ShowsUp
<1>4. ASSUME NEW k \in Strings
      PROVE  /\ groups[k] \in Seq(1..Len(entries))
             /\ \A n \in DOMAIN groups[k] : groups[k][n] \in 1..i
             /\ Ascending(groups[k])
             /\ \A j \in 1..i : Count(groups[k], j) = ShowsUp(j, k)
             /\ Count(groups[k], i + 1) = 0
  <2>1. groups[k] \in Seq(1..Len(entries))
    BY DEF SelectionInv, TypeOK
  <2>2. /\ \A n \in DOMAIN groups[k] : groups[k][n] \in 1..i
        /\ Ascending(groups[k])
        /\ \A j \in 1..i : Count(groups[k], j) = ShowsUp(j, k)
    BY <1>1 DEF SelectionInv, GroupedSoFar
  <2>3. {n \in DOMAIN groups[k] : groups[k][n] = i + 1} = {}
    BY <1>2, <2>2
  <2> QED
    BY <2>1, <2>2, <2>3, FS_EmptySet DEF Count
<1>5. \A k \in Strings : ShowsUp(i + 1, k) = IF v = Nil THEN 0 ELSE c(k)
  BY <1>1, <1>2, KeysDescribed
<1>6. ASSUME NEW k \in Strings
      PROVE  /\ groups'[k] \in Seq(1..Len(entries))
             /\ \A n \in DOMAIN groups'[k] : groups'[k][n] \in 1..(i + 1)
             /\ Ascending(groups'[k])
             /\ \A j \in 1..(i + 1) : Count(groups'[k], j) = ShowsUp(j, k)
  <2>1. CASE v = Nil
    <3>1. groups'[k] = groups[k]
      BY <1>1, <2>1
    <3>2. \A j \in 1..(i + 1) : j \in 1..i \/ j = i + 1
      BY <1>2
    <3>3. \A n \in 1..i : n \in 1..(i + 1)
      BY <1>2
    <3> QED
      BY <1>4, <1>5, <2>1, <3>1, <3>2, <3>3
  <2>2. CASE v # Nil
    <3>1. v \in Strings
      BY <1>1, <1>2, <2>2, SelectionAssumption DEF Entries, GetValue
    <3>2. AddEntry(v) \in Seq(Strings)
      BY <3>1, SelectionAssumption DEF AddEntry
    <3>3. c(k) \in Nat
      BY <3>2, CountType
    <3> DEFINE tail == [n \in 1..c(k) |-> i + 1]
    <3>4. groups'[k] = groups[k] \o tail
      BY <1>1, <2>2
    <3>5. groups'[k] \in Seq(1..Len(entries))
      <4>1. tail \in Seq(1..Len(entries))
        BY <1>2, <3>3
      <4> QED
        BY <1>4, <3>4, <4>1, ConcatProperties
    <3>6. /\ Ascending(groups'[k])
          /\ \A n \in DOMAIN groups'[k] : groups'[k][n] \in 1..(i + 1)
      <4>1. groups[k] \in Seq(Int)
        BY <1>4, SeqMonotonic
      <4> HIDE DEF c
      <4> QED
        BY <1>2, <1>4, <3>3, <3>4, <4>1, AscendingConcat
    <3>7. ASSUME NEW j \in 1..(i + 1)
          PROVE  Count(groups'[k], j) = ShowsUp(j, k)
      <4>1. Count(groups'[k], j)
              = IF j = i + 1 THEN Count(groups[k], j) + c(k) ELSE Count(groups[k], j)
        <5> DEFINE places == 1..Len(entries)
        <5>1. /\ groups[k] \in Seq(places)
              /\ tail \in Seq(places) /\ Len(tail) = c(k)
              /\ Repeats(tail, i + 1)
          BY <1>2, <1>4, <3>3 DEF Repeats
        <5> HIDE DEF tail, c, places
        <5> QED
          BY <3>4, <5>1, CountConcat
      <4>2. j \in 1..i \/ j = i + 1
        BY <1>2
      <4> QED
        BY <1>4, <1>5, <2>2, <3>3, <4>1, <4>2
    <3> QED
      BY <3>5, <3>6, <3>7
  <2> QED
    BY <2>1, <2>2
<1>7. groups' \in [Strings -> Seq(1..Len(entries))]
  <2>1. groups' = [k \in Strings |-> groups'[k]]
    BY <1>1 DEF SelectionInv, TypeOK
  <2> QED
    BY <1>6, <2>1
<1>8. GroupedSoFar'
  <2>1. \A k \in Strings : (Ascending(groups[k]))' <=> Ascending(groups'[k])
    BY DEF Ascending
  <2>2. \A k \in Strings : \A j \in 1..(i + 1) :
          (Count(groups[k], j))' = Count(groups'[k], j)
    BY DEF Count
  <2> QED
    BY <1>1, <1>3, <1>6, <2>1, <2>2 DEF GroupedSoFar
<1> QED
  BY <1>7, <1>8

LEMMA SelectionNext == SelectionInv /\ [Next]_vars => SelectionInv'
<1> SUFFICES ASSUME SelectionInv, [Next]_vars PROVE SelectionInv'
  OBVIOUS
<1> USE DEF SelectionInv
<1>1. entries \in Seq(Entries) /\ Len(entries) \in Nat /\ i \in 0..Len(entries)
  BY SelectionAssumption, LenProperties DEF TypeOK
<1>2. i < Len(entries) => i + 1 \in 1..Len(entries) /\ entries[i + 1] \in Entries
  BY <1>1, ElementOfSeq
<1>3. fn \in Groupers => fn \notin Selectors
  BY DEF Groupers, Selectors
<1>4. CASE Group
  <2>1. /\ fn' = fn /\ cmp' = cmp /\ entries' = entries /\ i' = i + 1
        /\ selected' = selected /\ status' = status /\ status = "loop"
        /\ fn \in Groupers /\ i < Len(entries)
    BY <1>4 DEF Group
  <2> DEFINE v == GetValue(entries[i + 1])
  <2>2. v # Other /\ entries[i + 1] # Other
    BY <1>4, <2>1, SelectionAssumption DEF Group, NoString, GetValue
  <2>3. groups' \in [Strings -> Seq(1..Len(entries))] /\ GroupedSoFar'
    BY <1>4, GroupGrouped
  <2>4. TypeOK'
    BY <2>1, <2>3, <1>1 DEF TypeOK
  <2>5. StringsSoFar'
    BY <2>1, <2>2, <1>1 DEF StringsSoFar, Needs
  <2>6. SelectedSoFar'
    BY <2>1, <1>3 DEF SelectedSoFar
  <2> QED
    BY <2>3, <2>4, <2>5, <2>6
<1>5. CASE Select
  <2> DEFINE v == entries[i + 1]
  <2>1. /\ fn' = fn /\ cmp' = cmp /\ entries' = entries /\ i' = i + 1
        /\ groups' = groups /\ status' = status /\ status = "loop"
        /\ fn \in Selectors /\ i < Len(entries)
        /\ fn \in Splitters => v # Other
        /\ selected' = IF Test(v) THEN Append(selected, i + 1) ELSE selected
    BY <1>5 DEF Select, NoString
  <2>2. Test(v) <=> Selected(v)
    BY <2>1, <1>2, TestDescribed DEF TypeOK
  <2>3. \A j \in 1..(i + 1) :
          (Selected(entries[j]))' <=> Selected(entries[j])
    BY <2>1 DEF Selected, Described
  <2>4. StringsSoFar' /\ GroupedSoFar'
    <3>1. fn \notin Groupers
      BY <2>1, <1>3
    <3> QED
      BY <2>1, <3>1, <1>1 DEF StringsSoFar, GroupedSoFar, Needs
  <2>5. /\ selected \in Seq(1..Len(entries)) /\ Len(selected) \in Nat
        /\ DOMAIN selected = 1..Len(selected)
    BY LenProperties DEF TypeOK
  <2>6. CASE ~Selected(v)
    <3>1. selected' = selected
      BY <2>1, <2>2, <2>6
    <3>2. TypeOK'
      BY <2>1, <3>1, <1>1 DEF TypeOK
    <3>3. {j \in 1..i' : Selected(entries[j])} = {j \in 1..i : Selected(entries[j])}
      BY <2>1, <2>6, <1>1
    <3>4. SelectedSoFar'
      BY <2>1, <2>3, <3>1, <3>3, <1>1 DEF SelectedSoFar, Elements
    <3> QED
      BY <2>4, <3>2, <3>4
  <2>7. CASE Selected(v)
    <3>1. selected' = Append(selected, i + 1) /\ i + 1 \in 1..Len(entries)
      BY <2>1, <2>2, <2>7, <1>2
    <3>2. /\ selected' \in Seq(1..Len(entries))
          /\ DOMAIN selected' = 1..(Len(selected) + 1)
          /\ selected'[Len(selected) + 1] = i + 1
          /\ \A n \in 1..Len(selected) : selected'[n] = selected[n]
      BY <2>5, <3>1, AppendProperties, LenProperties
    <3>3. TypeOK'
      BY <2>1, <3>2, <1>1 DEF TypeOK
    <3>4. /\ \A n \in 1..Len(selected) : selected[n] \in 1..i
          /\ \A m, n \in 1..Len(selected) : m < n => selected[m] < selected[n]
          /\ Elements(selected) = {j \in 1..i : Selected(entries[j])}
      BY <2>1, <2>5 DEF SelectedSoFar
    <3>5. Elements(selected') = Elements(selected) \cup {i + 1}
      <4>1. Elements(selected') = {selected'[n] : n \in 1..(Len(selected) + 1)}
        BY <3>2 DEF Elements
      <4>2. Elements(selected) = {selected[n] : n \in 1..Len(selected)}
        BY <2>5 DEF Elements
      <4>3. 1..(Len(selected) + 1) = 1..Len(selected) \cup {Len(selected) + 1}
        BY <2>5
      <4> QED
        BY <3>2, <4>1, <4>2, <4>3
    <3>6. {j \in 1..i' : Selected(entries[j])}
            = {j \in 1..i : Selected(entries[j])} \cup {i + 1}
      BY <2>1, <2>7, <1>1
    <3>7. \A n \in DOMAIN selected' : selected'[n] \in 1..i'
      BY <2>1, <2>5, <3>2, <3>4, <1>1
    <3>8. \A m, n \in DOMAIN selected' : m < n => selected'[m] < selected'[n]
      <4> SUFFICES ASSUME NEW m \in 1..(Len(selected) + 1),
                          NEW n \in 1..(Len(selected) + 1), m < n
                   PROVE  selected'[m] < selected'[n]
        BY <3>2
      <4>1. m \in 1..Len(selected) /\ selected'[m] = selected[m] /\ selected[m] \in 1..i
        BY <2>5, <3>2, <3>4
      <4>2. CASE n = Len(selected) + 1
        BY <1>1, <3>2, <4>1, <4>2
      <4>3. CASE n # Len(selected) + 1
        <5>1. Len(selected) \in Nat
          BY <2>5
        <5>2. n \in 1..Len(selected)
          BY <4>3, <5>1
        <5>3. selected'[n] = selected[n]
          BY <3>2, <5>2
        <5>4. selected[m] < selected[n]
          BY <3>4, <4>1, <5>2
        <5> QED
          BY <4>1, <5>3, <5>4
      <4> QED
        BY <4>2, <4>3
    <3>9. SelectedSoFar'
      <4>1. Elements(selected)' = Elements(selected')
        BY DEF Elements
      <4>2. {j \in 1..i' : (Selected(entries[j]))'}
              = {j \in 1..i' : Selected(entries[j])}
        BY <2>1, <2>3
      <4>3. (Elements(selected))' = {j \in 1..i' : (Selected(entries[j]))'}
        BY <3>4, <3>5, <3>6, <4>1, <4>2
      <4> QED
        BY <3>7, <3>8, <4>3 DEF SelectedSoFar
    <3> QED
      BY <2>4, <3>3, <3>9
  <2> QED
    BY <2>6, <2>7
<1>6. CASE Panic
  <2>1. /\ UNCHANGED <<fn, cmp, entries, i, groups, selected>>
        /\ status' = "failed" /\ i < Len(entries) /\ Needs
        /\ entries[i + 1] = Other
    BY <1>6, SelectionAssumption DEF Panic, Needs, NoString, GetValue
  <2>2. TypeOK'
    BY <2>1 DEF TypeOK
  <2>3. StringsSoFar'
    BY <2>1, <1>2 DEF StringsSoFar, Needs
  <2>4. SelectedSoFar' /\ GroupedSoFar'
    BY <2>1, SelectedStays, GroupedStays
  <2> QED
    BY <2>2, <2>3, <2>4
<1>7. CASE Return
  <2>1. /\ UNCHANGED <<fn, cmp, entries, i, groups, selected>>
        /\ status' = "done" /\ i = Len(entries) /\ status = "loop"
    BY <1>7 DEF Return
  <2>2. TypeOK'
    BY <2>1 DEF TypeOK
  <2>3. StringsSoFar'
    BY <2>1 DEF StringsSoFar, Needs
  <2>4. SelectedSoFar' /\ GroupedSoFar'
    BY <2>1, SelectedStays, GroupedStays
  <2> QED
    BY <2>2, <2>3, <2>4
<1>8. CASE UNCHANGED vars
  <2>1. TypeOK'
    BY <1>8 DEF vars, TypeOK
  <2>2. StringsSoFar'
    BY <1>8 DEF vars, StringsSoFar, Needs
  <2>3. SelectedSoFar' /\ GroupedSoFar'
    BY <1>8, SelectedStays, GroupedStays DEF vars
  <2> QED
    BY <2>1, <2>2, <2>3
<1> QED
  BY <1>4, <1>5, <1>6, <1>7, <1>8 DEF Next

--------------------------------------------------------------------------------
\* The loops of generalizedGroupBy and generalizedWhere stay within the list,
\* and groups and selections hold entries of it.
THEOREM TypeCorrect == Spec => []TypeOK
<1>1. SelectionInv => TypeOK
  BY DEF SelectionInv
<1> QED
  BY <1>1, SelectionInit, SelectionNext, PTL DEF Spec

\* where and its like return what README.md describes, in the order of the
\* list; whereAll's comparison of two numbers is what makes it so.
THEOREM SelectsDescribed == Spec => []SelectionExact
<1>1. SelectionInv => SelectionExact
  <2> SUFFICES ASSUME SelectionInv, status = "done", fn \in Selectors,
                      fn = "whereAll" => Distinct(cmp)
               PROVE  /\ \A m, n \in DOMAIN selected : m < n => selected[m] < selected[n]
                      /\ Elements(selected) = {j \in 1..Len(entries) : Described(entries[j])}
    BY DEF SelectionExact
  <2>1. \A v : Selected(v) <=> Described(v)
    BY DEF Selected
  <2> QED
    BY <2>1 DEF SelectionInv, SelectedSoFar, StringsSoFar
<1> QED
  BY <1>1, SelectionInit, SelectionNext, PTL DEF Spec

\* The functions of groupby.go and whereAny and whereAll fail exactly on lists
\* with something that is no string.
THEOREM FailsExactly == Spec => []FailsOnNoString
<1>1. SelectionInv => FailsOnNoString
  BY DEF SelectionInv, StringsSoFar, Needs, FailsOnNoString
<1> QED
  BY <1>1, SelectionInit, SelectionNext, PTL DEF Spec

\* groupBy and its like put every entry where README.md has it, as often, in the
\* order of the list, and nowhere else: whatever the strings are split into, and
\* however often one of them comes up.
THEOREM GroupsDescribed == Spec => []GroupsExact
<1>1. SelectionInv => GroupsExact
  BY DEF SelectionInv, GroupedSoFar, StringsSoFar, GroupsExact
<1> QED
  BY <1>1, SelectionInit, SelectionNext, PTL DEF Spec
================================================================================
