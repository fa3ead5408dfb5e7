------------------------------ MODULE Selection ------------------------------
(***************************************************************************)
(* The template functions that group and select the entries of a list      *)
(* (internal/template/groupby.go, where.go): one call of one of them, which *)
(* goes over the list once.                                                *)
(*                                                                         *)
(* An entry is what deepGet finds in it: a string, Nil where there is      *)
(* nothing, or Other for what is no string.  The value of a label is always *)
(* a string or Nil: groupByLabel and groupByLabelWithDefault are groupBy    *)
(* and groupByWithDefault with Other for an entry that is no container;     *)
(* whereLabelExists and whereLabelDoesNotExist, which take containers only, *)
(* are whereExist and whereNotExist.  groupByKeys is groupBy, of which it   *)
(* returns the keys.                                                        *)
(***************************************************************************)
EXTENDS Integers, Sequences, FiniteSets

CONSTANTS
  Strings,    \* the strings
  Split,      \* what strings.Split makes of each of them
  Nil, Other,
  Default,    \* the default value of groupByWithDefault
  Lists,      \* the lists the functions are called with
  Comparisons \* the lists of strings that whereAny and whereAll compare with

Entries == Strings \cup {Nil, Other}

Groupers  == {"groupBy", "groupByWithDefault", "groupByMulti"}
Selectors == {"where", "whereNot", "whereExist", "whereNotExist", "whereAny",
              "whereAll"}
Splitters == {"whereAny", "whereAll"}

ASSUME SelectionAssumption ==
  /\ Nil \notin Strings /\ Other \notin Strings /\ Nil # Other
  /\ Split \in [Strings -> Seq(Strings) \ {<<>>}]
  /\ Default \in Strings
  /\ Lists \subseteq Seq(Entries)
  /\ Comparisons \subseteq Seq(Strings)

VARIABLES
  fn,         \* the function
  cmp,        \* what a selector compares with
  entries,    \* the list
  i,          \* how many entries have been looked at
  groups,     \* the entries under each key; the map has the keys with entries
  selected,   \* the entries that have been selected
  status      \* "loop", "done" or "failed"

vars == <<fn, cmp, entries, i, groups, selected, status>>

\* groupBy and its like do not compare; where and whereNot compare with one
\* value.
Arguments(f) == IF f \in Splitters THEN Comparisons
                ELSE IF f \in {"where", "whereNot"} THEN Entries
                ELSE {Nil}

Init ==
  /\ fn \in Groupers \cup Selectors
  /\ cmp \in Arguments(fn)
  /\ entries \in Lists
  /\ i = 0
  /\ groups = [k \in Strings |-> <<>>]
  /\ selected = <<>>
  /\ status = "loop"

-------------------------------------------------------------------------------
Elements(list) == {list[n] : n \in DOMAIN list}

Count(list, x) == Cardinality({n \in DOMAIN list : list[n] = x})

\* value.(string) panics on what is no string, and the functions of labels
\* return an error for what is no container: either way the template fails.
\* Mutant of NoString: the check for nil is missing.
NoStringOrNil(v) == v \in {Nil, Other}

NoString(v) == v = Other

\* Mutant of GetValue: the default is forgotten.
GetValueOnly(v) == v

GetValue(v) == IF v = Nil /\ fn = "groupByWithDefault" THEN Default ELSE v

\* addEntry: the keys an entry is appended under, one after the other.
AddEntry(v) == IF fn = "groupByMulti" THEN Split[v] ELSE <<v>>

\* Mutant of Group: the entry after the one with the value is appended.
GroupNext ==
  /\ fn \in Groupers /\ status = "loop"
  /\ i < Len(entries)
  /\ LET v == GetValue(entries[i + 1]) IN
     /\ ~NoString(v)
     /\ groups' = IF v = Nil THEN groups
                  ELSE [k \in Strings |->
                          groups[k] \o [n \in 1..Count(AddEntry(v), k) |-> i + 2]]
  /\ i' = i + 1
  /\ UNCHANGED <<fn, cmp, entries, selected, status>>

\* generalizedGroupBy: the next entry.
Group ==
  /\ fn \in Groupers /\ status = "loop"
  /\ i < Len(entries)
  /\ LET v == GetValue(entries[i + 1]) IN
     /\ ~NoString(v)
     /\ groups' = IF v = Nil THEN groups
                  ELSE [k \in Strings |->
                          groups[k] \o [n \in 1..Count(AddEntry(v), k) |-> i + 1]]
  /\ i' = i + 1
  /\ UNCHANGED <<fn, cmp, entries, selected, status>>

\* intersect goes through maps, so that its result has every string once.
Intersect(l1, l2) == Elements(l1) \cap Elements(l2)

\* Mutant of Test: whereAll is satisfied with one.
TestAnyOfAll(v) ==
  \/ fn = "where"         /\ v = cmp
  \/ fn = "whereNot"      /\ v # cmp
  \/ fn = "whereExist"    /\ v # Nil
  \/ fn = "whereNotExist" /\ v = Nil
  \/ fn \in Splitters     /\ v # Nil /\ Intersect(cmp, Split[v]) # {}

\* The test of each selector.
Test(v) ==
  \/ fn = "where"         /\ v = cmp
  \/ fn = "whereNot"      /\ v # cmp
  \/ fn = "whereExist"    /\ v # Nil
  \/ fn = "whereNotExist" /\ v = Nil
  \/ fn = "whereAny"      /\ v # Nil /\ Intersect(cmp, Split[v]) # {}
  \/ fn = "whereAll"      /\ v # Nil
                          /\ Cardinality(Intersect(cmp, Split[v])) = Len(cmp)

\* generalizedWhere: the next entry.
Select ==
  /\ fn \in Selectors /\ status = "loop"
  /\ i < Len(entries)
  /\ LET v == entries[i + 1] IN
     /\ ~(fn \in Splitters /\ NoString(v))
     /\ selected' = IF Test(v) THEN Append(selected, i + 1) ELSE selected
  /\ i' = i + 1
  /\ UNCHANGED <<fn, cmp, entries, groups, status>>

\* The next entry is no string where one is needed.
Panic ==
  /\ status = "loop" /\ i < Len(entries)
  /\ \/ fn \in Groupers /\ NoString(GetValue(entries[i + 1]))
     \/ fn \in Splitters /\ NoString(entries[i + 1])
  /\ status' = "failed"
  /\ UNCHANGED <<fn, cmp, entries, i, groups, selected>>

Return ==
  /\ status = "loop" /\ i = Len(entries)
  /\ status' = "done"
  /\ UNCHANGED <<fn, cmp, entries, i, groups, selected>>

Next == Group \/ Select \/ Panic \/ Return

Spec == Init /\ [][Next]_vars

-------------------------------------------------------------------------------
(* Properties.                                                             *)

TypeOK ==
  /\ fn \in Groupers \cup Selectors
  /\ cmp \in Arguments(fn)
  /\ entries \in Lists
  /\ i \in 0..Len(entries)
  /\ groups \in [Strings -> Seq(1..Len(entries))]
  /\ selected \in Seq(1..Len(entries))
  /\ status \in {"loop", "done", "failed"}

Ascending(list) == \A m, n \in DOMAIN list : m < n => list[m] <= list[n]

\* How often README.md has entry j show up under key k: once under its value,
\* under the default if it has none, or under each of the strings its value is
\* split into.
ShowsUp(j, k) ==
  CASE entries[j] = Nil     -> IF fn = "groupByWithDefault" /\ k = Default
                               THEN 1 ELSE 0
    [] entries[j] # Nil /\ fn = "groupByMulti" -> Count(Split[entries[j]], k)
    [] OTHER                -> IF entries[j] = k THEN 1 ELSE 0

\* The groups hold every entry where it belongs and nowhere else, as often as
\* it does, in the order of the list.
GroupsExact ==
  status = "done" /\ fn \in Groupers =>
    \A k \in Strings :
      /\ Ascending(groups[k])
      /\ \A j \in 1..Len(entries) : Count(groups[k], j) = ShowsUp(j, k)

\* What README.md says of the selectors ("all $values must exist in the
\* $fieldPath", of whereAll).
Described(v) ==
  CASE fn = "where"         -> v = cmp
    [] fn = "whereNot"      -> v # cmp
    [] fn = "whereExist"    -> v # Nil
    [] fn = "whereNotExist" -> v = Nil
    [] fn = "whereAny"      -> v # Nil /\ \E x \in Elements(cmp) :
                                            x \in Elements(Split[v])
    [] fn = "whereAll"      -> /\ v # Nil
                               /\ \A x \in Elements(cmp) : x \in Elements(Split[v])

\* No string is given twice.
Distinct(list) == \A m, n \in DOMAIN list : list[m] = list[n] => m = n

\* The selection has the entries that are described, each once and in the order
\* of the list, provided that whereAll is not given a string twice.
SelectionExact ==
  status = "done" /\ fn \in Selectors /\ (fn = "whereAll" => Distinct(cmp)) =>
    /\ \A m, n \in DOMAIN selected : m < n => selected[m] < selected[n]
    /\ Elements(selected) = {j \in 1..Len(entries) : Described(entries[j])}

\* whereAll selects the entries that are described, whatever it is given ("all
\* $values must exist in the $fieldPath", README.md).
AllValuesSelect ==
  status = "done" /\ fn = "whereAll" =>
    Elements(selected) = {j \in 1..Len(entries) : Described(entries[j])}

\* A call fails if and only if the function needs strings and the list has
\* something that is neither a string nor missing.
FailsOnNoString ==
  LET needs == fn \in Groupers \cup Splitters
      bad   == \E j \in 1..Len(entries) : entries[j] = Other
  IN  /\ status = "failed" => needs /\ bad
      /\ status = "done" => ~(needs /\ bad)
===============================================================================
