------------------------------- MODULE Sorting -------------------------------
(***************************************************************************)
(* The template functions that sort (internal/template/sort.go).  A key is *)
(* what getFieldAsString makes of the field of an entry, "" where it has   *)
(* none.  The library inserts one entry after the other, at least in lists *)
(* of up to twelve; so does its stable sort, in those of up to twenty.     *)
(***************************************************************************)
EXTENDS Integers, Sequences, FiniteSets

CONSTANTS
  Keys,         \* the keys, strings all of them
  Missing,      \* the empty one
  Numbers,      \* those that strconv.ParseInt takes (no others, and no larger)
  Value,        \* what it makes of them
  Rank,         \* the place of each key in the order of strings
  KeyLists      \* the lists that are sorted

ASSUME SortingAssumption ==
  /\ Missing \in Keys /\ Numbers \subseteq Keys \ {Missing}
  /\ Value \in [Numbers -> Int]
  /\ Rank \in [Keys -> Nat]
  /\ \A x, y \in Keys : Rank[x] = Rank[y] => x = y
  /\ \A x \in Keys : Rank[Missing] <= Rank[x]
  /\ KeyLists \subseteq Seq(Keys)

VARIABLES
  sorter,       \* the function
  keys,         \* the keys of the entries
  order,        \* the entries inserted so far
  sorted        \* the function has returned

sortVars == <<sorter, keys, order, sorted>>

ObjectSorts  == {"sortObjectsByKeysAsc", "sortObjectsByKeysDesc"}
Descending   == {"sortObjectsByKeysDesc", "sortStringsDesc"}
Sorters      == ObjectSorts \cup {"sortStringsAsc", "sortStringsDesc"}

SortInit ==
  /\ sorter \in Sorters
  /\ keys \in KeyLists
  /\ order = <<>>
  /\ sorted = FALSE

-------------------------------------------------------------------------------
\* Mutants of Less: keys are strings whatever is in them; what does not parse is
\* taken for zero.
LessAsStrings(x, y) == Rank[x] < Rank[y]
LessWithZero(x, y) ==
  IF sorter \in ObjectSorts /\ x \in Numbers
  THEN Value[x] < (IF y \in Numbers THEN Value[y] ELSE 0)
  ELSE Rank[x] < Rank[y]

\* Objects are compared as numbers if both keys are, and as strings otherwise.
Less(x, y) ==
  IF sorter \in ObjectSorts /\ {x, y} \subseteq Numbers
  THEN Value[x] < Value[y]
  ELSE Rank[x] < Rank[y]

\* sort.Reverse
Before(x, y) == IF sorter \in Descending THEN Less(y, x) ELSE Less(x, y)

\* Mutant of Insert: an entry goes past those with an equal key.
InsertPastEqual ==
  /\ Len(order) < Len(keys)
  /\ LET n == Len(order) + 1
         stays == {m \in 1..Len(order) : Before(keys[order[m]], keys[n])}
         place == CHOOSE p \in {0} \cup stays : \A m \in stays : m <= p
     IN  order' = SubSeq(order, 1, place) \o <<n>>
                    \o SubSeq(order, place + 1, Len(order))
  /\ UNCHANGED <<sorter, keys, sorted>>

\* sort.Stable: the next entry goes to the left until it meets one that it does
\* not come before.
Insert ==
  /\ Len(order) < Len(keys)
  /\ LET n == Len(order) + 1
         stays == {m \in 1..Len(order) : ~Before(keys[n], keys[order[m]])}
         place == CHOOSE p \in {0} \cup stays : \A m \in stays : m <= p
     IN  order' = SubSeq(order, 1, place) \o <<n>>
                    \o SubSeq(order, place + 1, Len(order))
  /\ UNCHANGED <<sorter, keys, sorted>>

SortReturn ==
  /\ Len(order) = Len(keys) /\ ~sorted
  /\ sorted' = TRUE
  /\ UNCHANGED <<sorter, keys, order>>

SortNext == Insert \/ SortReturn

SortSpec == SortInit /\ [][SortNext]_sortVars

-------------------------------------------------------------------------------
(* Properties.                                                             *)

\* x may stand to the left of y in a list that is "sorted in ascending order
\* based on the values" (README.md), or in the reverse of one.
AtMost(x, y) ==
  LET numeric == sorter \in ObjectSorts /\ {x, y} \subseteq Numbers
      Key(z)  == IF numeric THEN Value[z] ELSE Rank[z]
  IN  IF sorter \in Descending THEN Key(y) <= Key(x) ELSE Key(x) <= Key(y)

\* The keys are all numbers or none is, missing ones aside.
Comparable ==
  LET present == {keys[n] : n \in DOMAIN keys} \ {Missing}
  IN  sorter \in ObjectSorts => present \subseteq Numbers \/ present \cap Numbers = {}

\* A list with comparable keys ends up in order, entries with equal keys as they
\* stood.  Of "10", "1a" and "9" each comes before the next, and the last before
\* the first: a list with such keys has no order to end up in.
SortsStably ==
  sorted /\ Comparable =>
    \A m, n \in 1..Len(keys) : m < n =>
      LET x == keys[order[m]]
          y == keys[order[n]]
      IN  AtMost(x, y) /\ (AtMost(y, x) => order[m] < order[n])

\* Whatever the keys, no entry is lost or doubled and no two neighbours are in
\* the wrong order.
NeighboursInOrder ==
  sorted =>
    /\ {order[n] : n \in DOMAIN order} = 1..Len(keys)
    /\ \A n \in 2..Len(order) : AtMost(keys[order[n - 1]], keys[order[n]])
===============================================================================
