------------------------------- MODULE DeepGet -------------------------------
(***************************************************************************)
(* deepGet (internal/template/reflect.go), which looks up a path such as   *)
(* "Labels.com.example.role" in a value: the path is split at its dots,    *)
(* and the value descended into, until the path is used up.  The keys of   *)
(* maps may have dots themselves.  A value that an interface holds, as all *)
(* are in what fromYaml returns, is not descended into: it is a leaf here, *)
(* as strings and numbers are.                                             *)
(***************************************************************************)
EXTENDS Integers, Sequences

CONSTANTS
  Values,       \* the values
  Kind,         \* the kind of each: "struct", "map", "slice", "pointer", "leaf"
  Under,        \* what each has under its fields, keys or indexes, split at dots
  Names,        \* what stands between the dots
  Paths,        \* the paths that are looked up, split at their dots
  NoValue       \* nil

\* A pointer has what it points at under no name; a nil pointer has nothing.  A
\* string that is split has at least one part.
ASSUME DeepGetAssumption ==
  /\ NoValue \notin Values
  /\ Kind \in [Values -> {"struct", "map", "slice", "pointer", "leaf"}]
  /\ DOMAIN Under = Values
  /\ Paths \subseteq Seq(Names)
  /\ \A v \in Values :
       /\ DOMAIN Under[v] \subseteq Seq(Names)
       /\ \A key \in DOMAIN Under[v] : Under[v][key] \in Values
       /\ Kind[v] \in {"struct", "slice"} => \A key \in DOMAIN Under[v] : Len(key) = 1
       /\ Kind[v] = "map" => <<>> \notin DOMAIN Under[v]
       /\ Kind[v] = "pointer" => DOMAIN Under[v] \subseteq {<<>>}
       /\ Kind[v] = "leaf" => DOMAIN Under[v] = {}

VARIABLES
  item, wanted, \* the arguments
  at,           \* the value that has been reached, or nil
  path,         \* what is left of the path
  got           \* "looking", or how it has ended: "value", "nothing"

deepVars == <<item, wanted, at, path, got>>

DeepInit ==
  /\ item \in Values /\ wanted \in Paths
  /\ at = item /\ path = wanted
  /\ got = "looking"

-------------------------------------------------------------------------------
Prefix(n) == SubSeq(path, 1, n)
RestAfter(n) == SubSeq(path, n + 1, Len(path))

\* The value that is descended into: one pointer is followed.
Target(v) ==
  IF Kind[v] = "pointer" /\ <<>> \in DOMAIN Under[v] THEN Under[v][<<>>] ELSE v

\* Mutant of Used: the parts of a key of a map are not joined.
UsedFirst(v) == {n \in 1..1 : Prefix(n) \in DOMAIN Under[v]}

\* The numbers of parts that make a field, an index or a key together.
Used(v) ==
  {n \in 1..Len(path) : Prefix(n) \in DOMAIN Under[v] /\ (Kind[v] = "map" \/ n = 1)}

\* Mutant of Shortest: the longest key is taken.
Longest(S) == CHOOSE n \in S : \A m \in S : m <= n

Shortest(S) == CHOOSE n \in S : \A m \in S : n <= m

\* deepGetImpl: a field, an index, or the shortest key that the parts make.  A
\* pointer to a pointer and a value that has no parts lead nowhere.
Descend ==
  /\ got = "looking" /\ path # <<>>
  /\ LET v == Target(at)
         n == Shortest(Used(v))
     IN  /\ Kind[v] # "pointer" /\ Used(v) # {}
         /\ at' = Under[v][Prefix(n)]
         /\ path' = RestAfter(n)
  /\ UNCHANGED <<item, wanted, got>>

DeadEnd ==
  /\ got = "looking" /\ path # <<>>
  /\ Kind[Target(at)] = "pointer" \/ Used(Target(at)) = {}
  /\ got' = "nothing" /\ at' = NoValue
  /\ UNCHANGED <<item, wanted, path>>

Arrive ==
  /\ got = "looking" /\ path = <<>>
  /\ got' = "value"
  /\ UNCHANGED <<item, wanted, at, path>>

DeepNext == Descend \/ DeadEnd \/ Arrive

DeepSpec == DeepInit /\ [][DeepNext]_deepVars

-------------------------------------------------------------------------------
(* Properties.                                                             *)

\* The parts m + 1 to n of the path, joined.
Key(m, n) == SubSeq(wanted, m + 1, n)

\* That is what something in v is called.
Has(v, m, n) == Kind[Target(v)] # "pointer" /\ Key(m, n) \in DOMAIN Under[Target(v)]

\* The values that are there after n parts of the path, from those that are there
\* after fewer.
ThereFrom(before, n) ==
  IF n = 0 THEN {item}
  ELSE UNION {{Under[Target(v)][Key(m, n)] : v \in {v \in before[m] : Has(v, m, n)}} :
                m \in 0..(n - 1)}

\* However the parts are joined to make keys.
There ==
  LET there[n \in 0..Len(wanted)] == ThereFrom(there, n)
  IN  there

\* Somewhere on the path two keys of one map fit, one of them longer.
Shadowed ==
  \E m \in 0..Len(wanted) : \E v \in There[m] :
    \E k \in (m + 1)..Len(wanted) : \E l \in (k + 1)..Len(wanted) :
      {Key(m, k), Key(m, l)} \subseteq DOMAIN Under[Target(v)]

\* What is returned is there, and what is there is found unless a shorter key
\* stands in its way.
FindsWhatIsThere ==
  /\ got = "value" => at \in There[Len(wanted)]
  /\ got = "nothing" => There[Len(wanted)] = {} \/ Shadowed

\* A label or an environment variable of a container, looked up by its whole name,
\* is found if and only if no other one has a name that continues in it after a
\* dot: of "traefik" and "traefik.enable" the second cannot be grouped by
\* ("map with dot in key", reflect_test.go, has no such names).
LabelsFound ==
  \A field \in DOMAIN Under[item] :
    LET labels == Under[item][field] IN
    /\ Kind[item] = "struct" /\ Kind[labels] = "map"
    /\ \A key \in DOMAIN Under[labels] : Kind[Under[labels][key]] = "leaf"
    =>
    \A name \in DOMAIN Under[labels] :
      got # "looking" /\ wanted = field \o name =>
        (got = "value" /\ at = Under[labels][name]
           <=> \A n \in 1..(Len(name) - 1) : SubSeq(name, 1, n) \notin DOMAIN Under[labels])
===============================================================================
