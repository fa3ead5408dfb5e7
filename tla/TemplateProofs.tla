----------------------------- MODULE TemplateProofs -----------------------------
(***************************************************************************)
(* Theorems about what the templates call and read, for any containers,    *)
(* keys and paths: Addresses, Sorting and DeepGet.                         *)
(***************************************************************************)
EXTENDS Addresses, Sorting, DeepGet, FiniteSetTheorems, SequenceTheorems,
        WellFoundedInduction, TLAPS

\* A set of natural numbers that has one has a least one.
LEMMA LeastNumber ==
  ASSUME NEW S, S \subseteq Nat, S # {}
  PROVE  \E n \in S : \A m \in S : n <= m
<1> DEFINE R == OpToRel(<, Nat)
<1>1. \A m, n \in Nat : m < n => <<m, n>> \in R
  BY DEF OpToRel
<1>2. IsWellFoundedOn(R, Nat)
  BY NatLessThanWellFounded
<1> HIDE DEF R
<1>3. PICK n \in S : \A m \in S : ~(<<m, n>> \in R)
  BY <1>2, WFMin
<1>4. ASSUME NEW m \in S
      PROVE  n <= m
  <2>1. m \in Nat /\ n \in Nat
    OBVIOUS
  <2>2. ~(m < n)
    BY <1>1, <1>3, <2>1
  <2> QED
    BY <2>1, <2>2
<1> QED
  BY <1>4

\* And a greatest one, if there is a bound.
LEMMA GreatestNumber ==
  ASSUME NEW b \in Nat, NEW S, S \subseteq 0..b, S # {}
  PROVE  \E n \in S : \A m \in S : m <= n
<1> DEFINE T == {b - n : n \in S}
<1>1. T \subseteq Nat /\ T # {}
  <2>1. \A n \in 0..b : b - n \in Nat
    OBVIOUS
  <2>2. \A n \in S : b - n \in Nat
    BY <2>1
  <2> QED
    BY <2>2
<1> HIDE DEF T
<1>2. PICK t \in T : \A u \in T : t <= u
  BY <1>1, LeastNumber
<1>3. PICK n \in S : t = b - n
  BY DEF T
<1>4. ASSUME NEW m \in S
      PROVE  m <= n
  <2>1. t <= b - m
    BY <1>2 DEF T
  <2> QED
    BY <1>3, <2>1
<1> QED
  BY <1>4

\* A function from 1..n to itself that takes no two numbers to the same one takes
\* one to each.
LEMMA OneToEach ==
  ASSUME NEW n \in Nat, NEW f \in [1..n -> 1..n],
         \A j, k \in 1..n : f[j] = f[k] => j = k
  PROVE  \A k \in 1..n : \E j \in 1..n : f[j] = k
<1>1. IsFiniteSet(1..n)
  BY FS_Interval
<1>2. f \in Injection(1..n, 1..n)
  BY DEF Injection, IsInjective
<1>3. f \in Surjection(1..n, 1..n)
  BY <1>1, <1>2, FS_Injection
<1> QED
  BY <1>3 DEF Surjection

-------------------------------------------------------------------------------
(* Addresses                                                               *)

AddressTypeOK ==
  /\ DOMAIN published \subseteq Ports
  /\ \A p \in DOMAIN published : published[p] \in Seq(Bindings)
  /\ exposed \subseteq Ports
  /\ source \in {"published", "exposed", "sort", "done"}
  /\ addresses \in Seq([at : Ports, binding : Bindings \cup {Unbound}])

\* What is rendered for a published port, and for an exposed one.
Published(p) == [at |-> p, binding |-> FirstBinding(p)]
Exposed(p) == [at |-> p, binding |-> Unbound]

Rendered == {addresses[j] : j \in DOMAIN addresses}

Expected == IF DOMAIN published # {} THEN {Published(p) : p \in DOMAIN published}
            ELSE {Exposed(p) : p \in exposed}

\* The ports that have come up have been rendered, and no port twice.
RenderedSoFar ==
  /\ source = "published" =>
       /\ todo \subseteq DOMAIN published
       /\ Rendered = {Published(p) : p \in DOMAIN published \ todo}
  /\ source = "exposed" =>
       /\ DOMAIN published = {} /\ todo \subseteq exposed
       /\ Rendered = {Exposed(p) : p \in exposed \ todo}
  /\ source \in {"sort", "done"} => Rendered = Expected
  /\ source \in {"sort", "done"} => todo = {}
  /\ \A j, k \in DOMAIN addresses : addresses[j].at = addresses[k].at => j = k

AddressInv == AddressTypeOK /\ RenderedSoFar /\ AddressOrderFixed

\* Two addresses of different ports are in one order or the other.
LEMMA EarlierOrders ==
  ASSUME NEW a, NEW b, NEW c, a.at \in Ports, b.at \in Ports, c.at \in Ports
  PROVE  /\ a.at # b.at /\ ~Earlier(a, b) => Earlier(b, a)
         /\ Earlier(a, b) /\ Earlier(b, c) => Earlier(a, c)
<1>1. \A p \in Ports : /\ p.port \in Nat /\ p.proto \in Nat
                       /\ p = [port |-> p.port, proto |-> p.proto]
  BY AddressAssumption
<1> DEFINE P == a.at
           Q == b.at
           W == c.at
<1>2. /\ P.port \in Nat /\ P.proto \in Nat
      /\ Q.port \in Nat /\ Q.proto \in Nat
      /\ W.port \in Nat /\ W.proto \in Nat
      /\ P.port = Q.port /\ P.proto = Q.proto => P = Q
  BY <1>1
<1> HIDE DEF P, Q, W
<1>3. /\ P # Q /\ ~(P.port < Q.port \/ (P.port = Q.port /\ P.proto < Q.proto))
           => Q.port < P.port \/ (Q.port = P.port /\ Q.proto < P.proto)
      /\ /\ P.port < Q.port \/ (P.port = Q.port /\ P.proto < Q.proto)
         /\ Q.port < W.port \/ (Q.port = W.port /\ Q.proto < W.proto)
         => P.port < W.port \/ (P.port = W.port /\ P.proto < W.proto)
  BY <1>2
<1> QED
  BY <1>3 DEF Earlier, P, Q, W

LEMMA AddressInitial == AddressInit => AddressInv
<1> SUFFICES ASSUME AddressInit
             PROVE  AddressInv
  OBVIOUS
<1>1. /\ exposed \subseteq Ports /\ todo = DOMAIN published /\ source = "published"
      /\ addresses = <<>>
  BY DEF AddressInit
<1>2. PICK S \in SUBSET Ports : published \in [S -> UNION {[1..n -> Bindings] : n \in 0..2}]
  BY DEF AddressInit
<1>3. ASSUME NEW p \in DOMAIN published
      PROVE  published[p] \in Seq(Bindings)
  <2>1. PICK n \in 0..2 : published[p] \in [1..n -> Bindings]
    BY <1>2
  <2> QED
    BY <2>1
<1>4. Rendered = {}
  BY <1>1 DEF Rendered
<1> QED
  BY <1>1, <1>2, <1>3, <1>4 DEF AddressInv, AddressTypeOK, RenderedSoFar,
                                AddressOrderFixed

LEMMA RenderStep ==
  ASSUME AddressInv, Render
  PROVE  AddressInv'
<1> USE DEF AddressInv
<1>1. PICK p \in todo :
        /\ todo' = todo \ {p}
        /\ addresses' = Append(addresses,
             [at |-> p,
              binding |-> IF source = "published" THEN FirstBinding(p) ELSE Unbound])
  BY DEF Render
<1>2. published' = published /\ exposed' = exposed /\ source' = source
  BY DEF Render
<1>3. source \in {"published", "exposed"}
  BY <1>1 DEF AddressTypeOK, RenderedSoFar
<1> DEFINE address == [at |-> p,
                       binding |-> IF source = "published" THEN FirstBinding(p) ELSE Unbound]
           all == [at : Ports, binding : Bindings \cup {Unbound}]
           n == Len(addresses)
<1>4. address \in all
  <2>1. p \in Ports
    BY <1>1, <1>3 DEF AddressTypeOK, RenderedSoFar
  <2>2. source = "published" => FirstBinding(p) \in Bindings \cup {Unbound}
    <3>1. CASE source = "published"
      <4>1. published[p] \in Seq(Bindings)
        BY <1>1, <3>1 DEF AddressTypeOK, RenderedSoFar
      <4> QED
        BY <4>1 DEF FirstBinding
    <3> QED
      BY <3>1
  <2> QED
    BY <2>1, <2>2
<1>5. address.at = p
  OBVIOUS
<1> HIDE DEF address, all
<1>6. /\ addresses \in Seq(all) /\ n \in Nat /\ DOMAIN addresses = 1..n
      /\ addresses' \in Seq(all) /\ DOMAIN addresses' = 1..(n + 1)
      /\ addresses'[n + 1] = address
      /\ \A j \in 1..n : addresses'[j] = addresses[j]
  BY <1>1, <1>4 DEF AddressTypeOK, address, all
<1>7. Rendered' = Rendered \cup {address}
  <2>1. \A j \in 1..(n + 1) : j \in 1..n \/ j = n + 1
    BY <1>6
  <2>2. \A j \in 1..n : j \in 1..(n + 1)
    BY <1>6
  <2> QED
    BY <1>6, <2>1, <2>2 DEF Rendered
<1>8. AddressTypeOK'
  BY <1>2, <1>6 DEF AddressTypeOK, all
<1>9. \A j \in DOMAIN addresses : addresses[j].at # p
  <2>1. \A j \in DOMAIN addresses : addresses[j] \in Rendered
    BY DEF Rendered
  <2>2. \A r \in Rendered : r.at # p
    BY <1>1, <1>3 DEF RenderedSoFar, Published, Exposed
  <2> QED
    BY <2>1, <2>2
<1>10. \A j, k \in DOMAIN addresses' : addresses'[j].at = addresses'[k].at => j = k
  <2>1. \A j \in 1..(n + 1) : j \in 1..n \/ j = n + 1
    BY <1>6
  <2> QED
    BY <1>5, <1>6, <1>9, <2>1 DEF RenderedSoFar
<1>11. CASE source = "published"
  <2>1. address = Published(p) /\ p \in DOMAIN published
    BY <1>1, <1>11 DEF address, Published, RenderedSoFar
  <2>2. Rendered' = {Published(q) : q \in DOMAIN published \ todo'}
    BY <1>1, <1>7, <1>11, <2>1 DEF RenderedSoFar
  <2>3. RenderedSoFar'
    BY <1>1, <1>2, <1>10, <1>11, <2>2 DEF RenderedSoFar, Published, FirstBinding
  <2> QED
    BY <1>2, <1>8, <1>11, <2>3 DEF AddressOrderFixed
<1>12. CASE source = "exposed"
  <2>1. address = Exposed(p) /\ p \in exposed
    BY <1>1, <1>12 DEF address, Exposed, RenderedSoFar
  <2>2. Rendered' = {Exposed(q) : q \in exposed \ todo'}
    BY <1>1, <1>7, <1>12, <2>1 DEF RenderedSoFar
  <2>3. RenderedSoFar'
    BY <1>1, <1>2, <1>10, <1>12, <2>2 DEF RenderedSoFar, Exposed
  <2> QED
    BY <1>2, <1>8, <1>12, <2>3 DEF AddressOrderFixed
<1> QED
  BY <1>3, <1>11, <1>12

LEMMA NextMapStep ==
  ASSUME AddressInv, NextMap
  PROVE  AddressInv'
<1> USE DEF AddressInv
<1>1. /\ published' = published /\ exposed' = exposed /\ addresses' = addresses
      /\ todo = {}
  BY DEF NextMap
<1>2. Rendered' = Rendered /\ Expected' = Expected
  BY <1>1 DEF Rendered, Expected, Published, Exposed, FirstBinding
<1>3. addresses = <<>> <=> Rendered = {}
  <2> DEFINE all == [at : Ports, binding : Bindings \cup {Unbound}]
  <2>1. addresses \in Seq(all)
    BY DEF AddressTypeOK
  <2> HIDE DEF all
  <2>2. addresses # <<>> => 1 \in DOMAIN addresses
    BY <2>1
  <2> QED
    BY <2>2 DEF Rendered
<1>4. CASE source = "published" /\ addresses = <<>>
  <2>1. source' = "exposed" /\ todo' = exposed
    BY <1>4 DEF NextMap
  <2>2. DOMAIN published = {}
    <3>1. {Published(p) : p \in DOMAIN published \ {}} = {}
      BY <1>1, <1>3, <1>4 DEF RenderedSoFar
    <3>2. ASSUME NEW p \in DOMAIN published
          PROVE  FALSE
      <4>1. Published(p) \in {Published(q) : q \in DOMAIN published \ {}}
        OBVIOUS
      <4> QED
        BY <3>1, <4>1
    <3> QED
      BY <3>2
  <2>3. Rendered = {Exposed(p) : p \in exposed \ exposed}
    BY <1>3, <1>4
  <2>4. AddressTypeOK' /\ AddressOrderFixed'
    BY <1>1, <2>1 DEF AddressTypeOK, AddressOrderFixed
  <2>5. RenderedSoFar'
    BY <1>1, <1>2, <2>1, <2>2, <2>3 DEF RenderedSoFar, Exposed
  <2> QED
    BY <2>4, <2>5
<1>5. CASE ~(source = "published" /\ addresses = <<>>)
  <2>1. /\ (source = "published" /\ addresses # <<>>) \/ source = "exposed"
        /\ source' = "sort" /\ todo' = todo
    BY <1>5 DEF NextMap
  <2>2. Rendered = Expected
    <3>1. CASE source = "published" /\ addresses # <<>>
      BY <1>1, <1>3, <3>1 DEF RenderedSoFar, Expected
    <3>2. CASE source = "exposed"
      BY <1>1, <3>2 DEF RenderedSoFar, Expected
    <3> QED
      BY <2>1, <3>1, <3>2
  <2>3. AddressTypeOK' /\ AddressOrderFixed'
    BY <1>1, <2>1 DEF AddressTypeOK, AddressOrderFixed
  <2>4. RenderedSoFar'
    BY <1>1, <1>2, <2>1, <2>2 DEF RenderedSoFar
  <2> QED
    BY <2>3, <2>4
<1> QED
  BY <1>4, <1>5

\* A list without a descent between neighbours has none between any two places, if
\* no two of its addresses are of one port.
LEMMA NoDescents ==
  ASSUME NEW n \in Nat, NEW list, \A j \in 1..n : list[j].at \in Ports,
         \A j, k \in 1..n : list[j].at = list[k].at => j = k,
         \A j \in 2..n : ~Earlier(list[j], list[j - 1])
  PROVE  \A j, k \in 1..n : j < k => Earlier(list[j], list[k])
<1> SUFFICES ASSUME NEW j \in 1..n
             PROVE  \A k \in 1..n : j < k => Earlier(list[j], list[k])
  OBVIOUS
<1> DEFINE Wrong == {k \in 1..n : j < k /\ ~Earlier(list[j], list[k])}
<1>1. SUFFICES ASSUME Wrong # {}
               PROVE  FALSE
  OBVIOUS
<1>2. PICK k \in Wrong : \A l \in Wrong : k <= l
  <2>1. Wrong \subseteq Nat
    OBVIOUS
  <2> HIDE DEF Wrong
  <2> QED
    BY <1>1, <2>1, LeastNumber
<1>3. /\ k \in 2..n /\ k - 1 \in 1..n /\ k \in 1..n /\ j < k
      /\ ~Earlier(list[j], list[k]) /\ list[k].at # list[k - 1].at
  OBVIOUS
<1>4. Earlier(list[k - 1], list[k])
  BY <1>3, EarlierOrders
<1>5. CASE j = k - 1
  BY <1>3, <1>4, <1>5
<1>6. CASE j # k - 1
  <2>1. j < k - 1 /\ ~(k <= k - 1)
    BY <1>3, <1>6
  <2>2. Earlier(list[j], list[k - 1])
    BY <1>2, <1>3, <2>1
  <2> QED
    BY <1>3, <1>4, <2>2, EarlierOrders
<1> QED
  BY <1>5, <1>6

LEMMA SortStep ==
  ASSUME AddressInv, SortAddresses
  PROVE  AddressInv'
<1> USE DEF AddressInv
<1> DEFINE n == Len(addresses)
           all == [at : Ports, binding : Bindings \cup {Unbound}]
<1>1. PICK f \in [1..n -> 1..n] :
        /\ \A j, k \in 1..n : f[j] = f[k] => j = k
        /\ \A j \in 2..n : ~Earlier(addresses[f[j]], addresses[f[j - 1]])
        /\ addresses' = [j \in 1..n |-> addresses[f[j]]]
  BY DEF SortAddresses
<1>2. /\ published' = published /\ exposed' = exposed /\ todo' = todo
      /\ source = "sort" /\ source' = "done"
  BY DEF SortAddresses
<1>3. addresses \in Seq(all) /\ n \in Nat /\ DOMAIN addresses = 1..n
  BY DEF AddressTypeOK
<1>4. \A r \in all : r.at \in Ports
  OBVIOUS
<1> HIDE DEF all
<1>5. addresses' \in Seq(all) /\ DOMAIN addresses' = 1..n
  <2>1. \A j \in 1..n : f[j] \in 1..n
    OBVIOUS
  <2>2. \A k \in 1..n : addresses[k] \in all
    BY <1>3
  <2>3. \A j \in 1..n : addresses[f[j]] \in all
    BY <2>1, <2>2
  <2> QED
    BY <1>1, <1>3, <2>3
<1>6. Rendered' = Rendered
  <2>1. \A k \in 1..n : \E j \in 1..n : f[j] = k
    BY <1>1, <1>3, OneToEach
  <2>2. \A j \in 1..n : f[j] \in 1..n /\ addresses'[j] = addresses[f[j]]
    BY <1>1
  <2> HIDE DEF n
  <2> QED
    BY <1>3, <1>5, <2>1, <2>2 DEF Rendered
<1>7. \A j, k \in 1..n : addresses'[j].at = addresses'[k].at => j = k
  BY <1>1, <1>3 DEF RenderedSoFar
<1>8. AddressTypeOK'
  BY <1>2, <1>5 DEF AddressTypeOK, all
<1>9. RenderedSoFar'
  <2>1. Expected' = Expected
    BY <1>2 DEF Expected, Published, Exposed, FirstBinding
  <2> QED
    BY <1>2, <1>5, <1>6, <1>7, <2>1 DEF RenderedSoFar
<1>10. AddressOrderFixed'
  <2> DEFINE list == addresses'
  <2>1. \A j \in 1..n : list[j].at \in Ports
    BY <1>4, <1>5
  <2>2. \A j \in 2..n : ~Earlier(list[j], list[j - 1])
    BY <1>1, <1>3
  <2>3. \A j, k \in 1..n : j < k => Earlier(list[j], list[k])
    <3> HIDE DEF list
    <3>1. \A j, k \in 1..n : list[j].at = list[k].at => j = k
      BY <1>7 DEF list
    <3> QED
      BY <1>3, <2>1, <2>2, <3>1, NoDescents
  <2> QED
    BY <1>5, <2>3 DEF AddressOrderFixed, Earlier
<1> QED
  BY <1>8, <1>9, <1>10

LEMMA AddressInvariant == AddressSpec => []AddressInv
<1>1. AddressInv /\ [AddressNext]_addressVars => AddressInv'
  <2> SUFFICES ASSUME AddressInv, [AddressNext]_addressVars
               PROVE  AddressInv'
    OBVIOUS
  <2>1. CASE UNCHANGED addressVars
    <3>1. /\ published' = published /\ exposed' = exposed /\ todo' = todo
          /\ source' = source /\ addresses' = addresses
      BY <2>1 DEF addressVars
    <3>2. Rendered' = Rendered /\ Expected' = Expected
      BY <3>1 DEF Rendered, Expected, Published, Exposed, FirstBinding
    <3>3. AddressTypeOK' /\ AddressOrderFixed'
      BY <3>1 DEF AddressInv, AddressTypeOK, AddressOrderFixed
    <3>4. RenderedSoFar'
      BY <3>1, <3>2 DEF AddressInv, RenderedSoFar, Published, Exposed, FirstBinding
    <3> QED
      BY <3>3, <3>4 DEF AddressInv
  <2> QED
    BY <2>1, RenderStep, NextMapStep, SortStep DEF AddressNext
<1> QED
  BY <1>1, AddressInitial, PTL DEF AddressSpec

\* Every port and binding is one.
THEOREM AddressTypeCorrect == AddressSpec => []AddressTypeOK
<1>1. AddressInv => AddressTypeOK
  BY DEF AddressInv
<1> QED
  BY <1>1, AddressInvariant, PTL

\* The addresses of a container come out in one order, whatever the order in which
\* the maps are walked through and the unstable sort arranges equal elements: none
\* of them are equal.
THEOREM OneOrder == AddressSpec => []AddressOrderFixed
<1>1. AddressInv => AddressOrderFixed
  BY DEF AddressInv
<1> QED
  BY <1>1, AddressInvariant, PTL

\* Each published port is rendered once, with its first binding, or else each
\* exposed one.
THEOREM EachPortRendered == AddressSpec => []AddressesExact
<1>1. AddressInv => AddressesExact
  BY DEF AddressInv, RenderedSoFar, AddressesExact, Rendered, Expected, Published,
         Exposed, FirstBinding
<1> QED
  BY <1>1, AddressInvariant, PTL
-------------------------------------------------------------------------------
(* Sorting                                                                 *)

SortTypeOK ==
  /\ sorter \in Sorters
  /\ keys \in Seq(Keys)
  /\ order \in Seq(1..Len(keys)) /\ Len(order) <= Len(keys)
  /\ sorted \in BOOLEAN /\ (sorted => Len(order) = Len(keys))

\* The entries inserted so far, each of them once.
InsertedOnce == {order[n] : n \in DOMAIN order} = 1..Len(order)

\* No two neighbours among them are in the wrong order.
NeighboursSoFar ==
  \A n \in 2..Len(order) : AtMost(keys[order[n - 1]], keys[order[n]])

\* Two of them at any distance, and how they stood if they are equal.
StableSoFar ==
  Comparable =>
    \A m, n \in 1..Len(order) : m < n =>
      /\ AtMost(keys[order[m]], keys[order[n]])
      /\ AtMost(keys[order[n]], keys[order[m]]) => order[m] < order[n]

SortInv == SortTypeOK /\ InsertedOnce /\ NeighboursSoFar /\ StableSoFar

\* An entry that does not come before another may stand behind it, and one of two
\* may always stand behind the other.
LEMMA AtMostTotal ==
  ASSUME NEW x \in Keys, NEW y \in Keys
  PROVE  /\ AtMost(x, y) <=> ~Before(y, x)
         /\ AtMost(x, y) \/ AtMost(y, x)
<1>1. Rank[x] \in Nat /\ Rank[y] \in Nat
  BY SortingAssumption
<1>2. {x, y} \subseteq Numbers => Value[x] \in Int /\ Value[y] \in Int
  BY SortingAssumption
<1>3. {x, y} \subseteq Numbers <=> {y, x} \subseteq Numbers
  OBVIOUS
<1>4. CASE sorter \in ObjectSorts /\ {x, y} \subseteq Numbers
  BY <1>2, <1>3, <1>4 DEF AtMost, Before, Less
<1>5. CASE ~(sorter \in ObjectSorts /\ {x, y} \subseteq Numbers)
  BY <1>1, <1>3, <1>5 DEF AtMost, Before, Less
<1> QED
  BY <1>4, <1>5

\* Keys that are compared in one way, missing ones aside, have an order: of "10",
\* "1a" and "9" each may stand before the next, and the last before the first.
LEMMA AtMostTransitive ==
  ASSUME NEW x \in Keys, NEW y \in Keys, NEW z \in Keys,
         sorter \in ObjectSorts =>
           {x, y, z} \cap Numbers = {} \/ {x, y, z} \subseteq Numbers \cup {Missing},
         AtMost(x, y), AtMost(y, z)
  PROVE  AtMost(x, z)
<1>1. /\ Rank[x] \in Nat /\ Rank[y] \in Nat /\ Rank[z] \in Nat
      /\ Rank[Missing] \in Nat
      /\ \A a \in {x, y, z} : /\ Rank[Missing] <= Rank[a]
                              /\ Rank[a] = Rank[Missing] => a = Missing
  BY SortingAssumption
<1>2. /\ \A a \in {x, y, z} : a \in Numbers => Value[a] \in Int
      /\ Missing \notin Numbers
  BY SortingAssumption
<1>3. CASE sorter \notin ObjectSorts \/ {x, y, z} \cap Numbers = {}
  BY <1>1, <1>3 DEF AtMost
<1>4. CASE sorter \in ObjectSorts /\ {x, y, z} \subseteq Numbers \cup {Missing}
  BY <1>1, <1>2, <1>4 DEF AtMost
<1> QED
  BY <1>3, <1>4

\* Any three keys of a list with comparable keys are compared in one way.
LEMMA ComparedInOneWay ==
  ASSUME Comparable, NEW j \in DOMAIN keys, NEW k \in DOMAIN keys, NEW l \in DOMAIN keys
  PROVE  LET three == {keys[j], keys[k], keys[l]} IN
         sorter \in ObjectSorts =>
           three \cap Numbers = {} \/ three \subseteq Numbers \cup {Missing}
<1> DEFINE All == {keys[n] : n \in DOMAIN keys}
<1>1. {keys[j], keys[k], keys[l]} \subseteq All
  OBVIOUS
<1>2. sorter \in ObjectSorts =>
        \/ All \ {Missing} \subseteq Numbers
        \/ (All \ {Missing}) \cap Numbers = {}
  BY DEF Comparable
<1> HIDE DEF All
<1>3. Missing \notin Numbers
  BY SortingAssumption
<1> QED
  BY <1>1, <1>2, <1>3

\* The list with an element put in behind the first p.
WithPutIn(list, x, p) == SubSeq(list, 1, p) \o <<x>> \o SubSeq(list, p + 1, Len(list))

\* What stands where in it.
LEMMA PutIn ==
  ASSUME NEW S, NEW list \in Seq(S), NEW x \in S, NEW p \in 0..Len(list)
  PROVE  /\ WithPutIn(list, x, p) \in Seq(S)
         /\ Len(WithPutIn(list, x, p)) = Len(list) + 1
         /\ \A m \in 1..(Len(list) + 1) :
              WithPutIn(list, x, p)[m] =
                IF m <= p THEN list[m] ELSE IF m = p + 1 THEN x ELSE list[m - 1]
<1> DEFINE L == Len(list)
           left == SubSeq(list, 1, p)
           right == SubSeq(list, p + 1, L)
           one == <<x>>
<1>1. L \in Nat /\ p \in Int /\ 0 <= p /\ p <= L /\ \A m \in 1..L : list[m] \in S
  OBVIOUS
<1>2. /\ left \in Seq(S) /\ Len(left) = p
      /\ \A m \in 1..p : left[m] = list[m]
  <2>1. \A m \in 1..p : list[m] \in S
    BY <1>1
  <2>2. /\ left \in Seq(S) /\ Len(left) = IF 1 <= p THEN p - 1 + 1 ELSE 0
        /\ \A m \in 1..(p - 1 + 1) : left[m] = list[1 + m - 1]
    BY <1>1, <2>1, SubSeqProperties
  <2> HIDE DEF left
  <2> QED
    BY <1>1, <2>2
<1>3. /\ right \in Seq(S) /\ Len(right) = L - p
      /\ \A m \in 1..(L - p) : right[m] = list[p + m]
  <2>1. \A m \in (p + 1)..L : list[m] \in S
    BY <1>1
  <2>2. /\ right \in Seq(S) /\ Len(right) = IF p + 1 <= L THEN L - (p + 1) + 1 ELSE 0
        /\ \A m \in 1..(L - (p + 1) + 1) : right[m] = list[p + 1 + m - 1]
    BY <1>1, <2>1, SubSeqProperties
  <2> HIDE DEF right
  <2> QED
    BY <1>1, <2>2
<1>4. one \in Seq(S) /\ Len(one) = 1 /\ one[1] = x
  OBVIOUS
<1> HIDE DEF left, right, one, L
<1> DEFINE begin == left \o one
<1>5. /\ begin \in Seq(S) /\ Len(begin) = p + 1
      /\ \A m \in 1..(p + 1) : begin[m] = IF m <= p THEN left[m] ELSE one[m - p]
  <2>1. /\ left \o one \in Seq(S) /\ Len(left \o one) = Len(left) + Len(one)
        /\ \A m \in 1..(Len(left) + Len(one)) :
             (left \o one)[m] = IF m <= Len(left) THEN left[m] ELSE one[m - Len(left)]
    BY <1>2, <1>4, ConcatProperties
  <2> QED
    BY <1>2, <1>4, <2>1
<1> HIDE DEF begin
<1>6. /\ begin \o right \in Seq(S) /\ Len(begin \o right) = L + 1
      /\ \A m \in 1..(L + 1) :
           (begin \o right)[m] = IF m <= p + 1 THEN begin[m] ELSE right[m - (p + 1)]
  <2>1. /\ begin \o right \in Seq(S) /\ Len(begin \o right) = Len(begin) + Len(right)
        /\ \A m \in 1..(Len(begin) + Len(right)) :
             (begin \o right)[m] = IF m <= Len(begin) THEN begin[m]
                                   ELSE right[m - Len(begin)]
    BY <1>3, <1>5, ConcatProperties
  <2>2. (p + 1) + (L - p) = L + 1
    BY <1>1
  <2> QED
    BY <1>3, <1>5, <2>1, <2>2
<1>7. ASSUME NEW m \in 1..(L + 1)
      PROVE  (begin \o right)[m]
               = IF m <= p THEN list[m] ELSE IF m = p + 1 THEN x ELSE list[m - 1]
  <2>1. CASE m <= p
    <3>1. m \in 1..p /\ m \in 1..(p + 1) /\ m <= p + 1
      BY <1>1, <2>1
    <3> QED
      BY <1>2, <1>5, <1>6, <2>1, <3>1
  <2>2. CASE m = p + 1
    <3>1. m \in 1..(p + 1) /\ m - p = 1 /\ ~(m <= p) /\ m <= p + 1
      BY <1>1, <2>2
    <3> QED
      BY <1>4, <1>5, <1>6, <2>2, <3>1
  <2>3. CASE m > p + 1
    <3>1. /\ m - (p + 1) \in 1..(L - p) /\ p + (m - (p + 1)) = m - 1
          /\ ~(m <= p + 1) /\ ~(m <= p) /\ m # p + 1
      BY <1>1, <2>3
    <3> QED
      BY <1>3, <1>6, <3>1
  <2>4. m <= p \/ m = p + 1 \/ m > p + 1
    BY <1>1
  <2> QED
    BY <2>1, <2>2, <2>3, <2>4
<1> QED
  BY <1>6, <1>7 DEF WithPutIn, begin, left, right, one, L

\* Where the next entry goes: behind one that it does not come before, if there is
\* one, and before all that stand to the right.
LEMMA InsertPlace ==
  ASSUME SortInv, Insert
  PROVE  LET L == Len(order) IN
         /\ L \in Nat /\ L + 1 \in 1..Len(keys)
         /\ order' \in Seq(1..Len(keys)) /\ Len(order') = L + 1
         /\ \E p \in 0..L :
              /\ \A m \in 1..(L + 1) :
                   order'[m] = IF m <= p THEN order[m]
                               ELSE IF m = p + 1 THEN L + 1 ELSE order[m - 1]
              /\ p > 0 => AtMost(keys[order[p]], keys[L + 1])
              /\ \A m \in (p + 1)..L : ~AtMost(keys[order[m]], keys[L + 1])
<1> DEFINE L == Len(order)
           n == L + 1
           stays == {m \in 1..L : ~Before(keys[n], keys[order[m]])}
           place == CHOOSE p \in {0} \cup stays : \A m \in stays : m <= p
<1>1. /\ L \in Nat /\ Len(keys) \in Nat /\ n \in 1..Len(keys)
      /\ \A m \in 1..L : order[m] \in 1..Len(keys)
      /\ \A m \in 1..Len(keys) : keys[m] \in Keys
  <2>1. keys \in Seq(Keys) /\ order \in Seq(1..Len(keys)) /\ L < Len(keys)
    <3>1. keys \in Seq(Keys) /\ order \in Seq(1..Len(keys))
      BY DEF SortInv, SortTypeOK
    <3>2. L < Len(keys)
      BY Zenon DEF Insert
    <3> QED
      BY <3>1, <3>2
  <2>2. L \in Nat /\ Len(keys) \in Nat
    BY <2>1, LenProperties
  <2>3. n \in 1..Len(keys)
    BY <2>1, <2>2
  <2>4. \A m \in 1..L : order[m] \in 1..Len(keys)
    BY <2>1, <2>2, ElementOfSeq
  <2>5. \A m \in 1..Len(keys) : keys[m] \in Keys
    BY <2>1, <2>2, ElementOfSeq
  <2> QED
    BY <2>2, <2>3, <2>4, <2>5
<1>2. order' = WithPutIn(order, n, place)
  BY DEF Insert, WithPutIn
<1>3. \A m \in 1..L : m \in stays <=> AtMost(keys[order[m]], keys[n])
  <2>1. \A m \in 1..L : keys[order[m]] \in Keys /\ keys[n] \in Keys
    BY <1>1
  <2>2. \A m \in 1..L : AtMost(keys[order[m]], keys[n]) <=> ~Before(keys[n], keys[order[m]])
    BY <2>1, AtMostTotal
  <2> QED
    BY <2>2
<1>4. stays \subseteq 1..L
  OBVIOUS
<1> HIDE DEF n, stays
<1>5. place \in {0} \cup stays /\ \A m \in stays : m <= place
  <2>1. \E p \in {0} \cup stays : \A m \in stays : m <= p
    <3>1. CASE stays = {}
      BY <3>1
    <3>2. CASE stays # {}
      <4>1. stays \subseteq 0..L
        BY <1>4
      <4>2. \E p \in stays : \A m \in stays : m <= p
        BY <1>1, <3>2, <4>1, GreatestNumber
      <4> QED
        BY <4>2
    <3> QED
      BY <3>1, <3>2
  <2> QED
    BY <2>1
<1> HIDE DEF place
<1>6. place \in 0..L
  BY <1>1, <1>4, <1>5
<1>7. /\ order' \in Seq(1..Len(keys)) /\ Len(order') = L + 1
      /\ \A m \in 1..(L + 1) :
           order'[m] = IF m <= place THEN order[m]
                       ELSE IF m = place + 1 THEN n ELSE order[m - 1]
  <2> DEFINE S == 1..Len(keys)
  <2>1. order \in Seq(S) /\ n \in S /\ place \in 0..Len(order)
    BY <1>1, <1>6 DEF SortInv, SortTypeOK
  <2> HIDE DEF S, L
  <2>2. /\ WithPutIn(order, n, place) \in Seq(S)
        /\ Len(WithPutIn(order, n, place)) = Len(order) + 1
        /\ \A m \in 1..(Len(order) + 1) :
             WithPutIn(order, n, place)[m] =
               IF m <= place THEN order[m] ELSE IF m = place + 1 THEN n ELSE order[m - 1]
    BY <2>1, PutIn
  <2> QED
    BY <1>2, <2>2 DEF S, L
<1>8. place > 0 => AtMost(keys[order[place]], keys[n])
  BY <1>1, <1>3, <1>4, <1>5, <1>6
<1>9. ASSUME NEW m \in (place + 1)..L
      PROVE  ~AtMost(keys[order[m]], keys[n])
  <2>1. m \in 1..L /\ ~(m <= place)
    BY <1>1, <1>6
  <2> QED
    BY <1>3, <1>5, <2>1
<1> QED
  BY <1>1, <1>6, <1>7, <1>8, <1>9 DEF n

LEMMA InsertStep ==
  ASSUME SortInv, Insert
  PROVE  SortInv'
<1> USE DEF SortInv
<1> DEFINE L == Len(order)
           K(m) == keys[order[m]]
           new == keys[L + 1]
<1>1. /\ L \in Nat /\ L + 1 \in 1..Len(keys)
      /\ order' \in Seq(1..Len(keys)) /\ Len(order') = L + 1
  BY InsertPlace
<1>2. PICK p \in 0..L :
        /\ \A m \in 1..(L + 1) :
             order'[m] = IF m <= p THEN order[m]
                         ELSE IF m = p + 1 THEN L + 1 ELSE order[m - 1]
        /\ p > 0 => AtMost(K(p), new)
        /\ \A m \in (p + 1)..L : ~AtMost(K(m), new)
  BY InsertPlace
<1>3. keys' = keys /\ sorter' = sorter /\ sorted' = sorted
  BY DEF Insert
<1>4. /\ \A x, y : AtMost(x, y)' <=> AtMost(x, y)
      /\ Comparable' <=> Comparable
  BY <1>3 DEF AtMost, Comparable
<1>5. /\ DOMAIN order = 1..L /\ DOMAIN order' = 1..(L + 1)
      /\ \A m \in 1..L : order[m] \in 1..L
      /\ \A m \in 1..L : \E l \in 1..L : order[l] = m
  <2> DEFINE S == 1..Len(keys)
  <2>1. order \in Seq(S) /\ order' \in Seq(S) /\ Len(order') = L + 1
    BY <1>1 DEF SortTypeOK
  <2>2. {order[n] : n \in DOMAIN order} = 1..L
    BY DEF InsertedOnce
  <2> HIDE DEF S
  <2>3. DOMAIN order = 1..L /\ DOMAIN order' = 1..(L + 1)
    BY <2>1
  <2> QED
    BY <2>2, <2>3
<1>6. /\ new \in Keys
      /\ \A m \in 1..L : order[m] \in DOMAIN keys /\ K(m) \in Keys
      /\ L + 1 \in DOMAIN keys
  BY <1>1, <1>5 DEF SortTypeOK
<1> HIDE DEF new
<1>7. \A m \in (p + 1)..L : AtMost(new, K(m)) /\ ~AtMost(K(m), new)
  <2>1. \A m \in (p + 1)..L : m \in 1..L
    BY <1>1
  <2>2. \A m \in 1..L : AtMost(new, K(m)) \/ AtMost(K(m), new)
    BY <1>6, AtMostTotal
  <2> QED
    BY <1>2, <2>1, <2>2
<1> DEFINE K2(m) == keys[order'[m]]
<1>8. /\ \A m \in 1..p : m \in 1..L /\ order'[m] = order[m] /\ K2(m) = K(m)
      /\ order'[p + 1] = L + 1 /\ K2(p + 1) = new
      /\ \A m \in (p + 2)..(L + 1) :
           m - 1 \in (p + 1)..L /\ m - 1 \in 1..L /\ order'[m] = order[m - 1] /\ K2(m) = K(m - 1)
  <2>1. p \in Nat /\ L \in Nat /\ p <= L
    BY <1>1
  <2>2. /\ \A m \in 1..p : m \in 1..L /\ m \in 1..(L + 1) /\ m <= p
        /\ p + 1 \in 1..(L + 1) /\ ~(p + 1 <= p)
        /\ \A m \in (p + 2)..(L + 1) :
             /\ m - 1 \in (p + 1)..L /\ m - 1 \in 1..L
             /\ m \in 1..(L + 1) /\ ~(m <= p) /\ m # p + 1
    BY <2>1
  <2>3. \A m \in 1..p : m \in 1..L /\ order'[m] = order[m]
    BY <1>2, <2>2
  <2>4. order'[p + 1] = L + 1
    BY <1>2, <2>2
  <2>5. \A m \in (p + 2)..(L + 1) :
          m - 1 \in (p + 1)..L /\ m - 1 \in 1..L /\ order'[m] = order[m - 1]
    BY <1>2, <2>2
  <2>6. \A m \in 1..p : K2(m) = K(m)
    BY <2>3
  <2>7. K2(p + 1) = new
    BY <2>4 DEF new
  <2>8. \A m \in (p + 2)..(L + 1) : K2(m) = K(m - 1)
    BY <2>5
  <2> HIDE DEF K, K2
  <2> QED
    BY <2>3, <2>4, <2>5, <2>6, <2>7, <2>8
<1>9. \A m \in 1..(L + 1) : m \in 1..p \/ m = p + 1 \/ m \in (p + 2)..(L + 1)
  BY <1>1
<1>10. SortTypeOK'
  <2>1. sorted = FALSE
    <3>1. Len(order) < Len(keys)
      BY Zenon DEF Insert
    <3>2. /\ sorted \in BOOLEAN /\ (sorted => Len(order) = Len(keys))
          /\ keys \in Seq(Keys) /\ order \in Seq(1..Len(keys))
      BY DEF SortTypeOK
    <3>3. Len(order) \in Nat /\ Len(keys) \in Nat
      BY <3>2, LenProperties
    <3>4. Len(order) # Len(keys)
      BY <3>1, <3>3
    <3> QED
      BY <3>2, <3>4
  <2>2. /\ sorter \in Sorters /\ keys \in Seq(Keys)
        /\ Len(order') <= Len(keys)
    BY <1>1 DEF SortTypeOK
  <2> QED
    BY <1>1, <1>3, <2>1, <2>2 DEF SortTypeOK
<1>11. InsertedOnce'
  <2>1. ASSUME NEW m \in 1..(L + 1)
        PROVE  order'[m] \in 1..(L + 1)
    <3>1. L + 1 \in 1..(L + 1) /\ \A l \in 1..L : l \in 1..(L + 1)
      BY <1>1
    <3>2. order'[m] = L + 1 \/ order'[m] \in 1..L
      BY <1>5, <1>8, <1>9
    <3> QED
      BY <3>1, <3>2
  <2>2. ASSUME NEW m \in 1..(L + 1)
        PROVE  \E l \in 1..(L + 1) : order'[l] = m
    <3>1. CASE m = L + 1
      <4>1. p + 1 \in 1..(L + 1)
        BY <1>1
      <4> QED
        BY <1>8, <3>1, <4>1
    <3>2. CASE m # L + 1
      <4>0. m \in 1..L
        BY <1>1, <3>2
      <4>1. PICK l \in 1..L : order[l] = m
        BY <1>5, <4>0
      <4>2. CASE l <= p
        <5>1. l \in 1..p /\ l \in 1..(L + 1)
          BY <1>1, <4>2
        <5> QED
          BY <1>8, <4>1, <5>1
      <4>3. CASE l > p
        <5>1. l + 1 \in (p + 2)..(L + 1) /\ l + 1 \in 1..(L + 1) /\ (l + 1) - 1 = l
          BY <1>1, <4>3
        <5> QED
          BY <1>8, <4>1, <5>1
      <4> QED
        BY <1>1, <4>2, <4>3
    <3> QED
      BY <3>1, <3>2
  <2>3. Len(order') = L + 1 /\ DOMAIN order' = 1..(L + 1)
    BY <1>1, <1>5
  <2>4. {order'[m] : m \in 1..(L + 1)} = 1..(L + 1)
    BY <2>1, <2>2
  <2> HIDE DEF L
  <2> QED
    BY <2>3, <2>4 DEF InsertedOnce
<1>12. NeighboursSoFar'
  <2>1. ASSUME NEW n \in 2..(L + 1)
        PROVE  AtMost(K2(n - 1), K2(n))
    <3>1. CASE n <= p
      <4>1. n \in 1..p /\ n - 1 \in 1..p /\ n \in 2..L
        BY <1>1, <3>1
      <4> QED
        BY <1>8, <4>1 DEF NeighboursSoFar
    <3>2. CASE n = p + 1
      <4>1. p \in 1..p /\ p > 0 /\ n - 1 = p
        BY <1>1, <3>2
      <4> QED
        BY <1>2, <1>8, <3>2, <4>1
    <3>3. CASE n = p + 2
      <4>1. n - 1 = p + 1 /\ n \in (p + 2)..(L + 1)
        BY <1>1, <3>3
      <4> QED
        BY <1>7, <1>8, <4>1
    <3>4. CASE n > p + 2
      <4>1. /\ n \in (p + 2)..(L + 1) /\ n - 1 \in (p + 2)..(L + 1)
            /\ n - 1 \in 2..L /\ (n - 1) - 1 = n - 2
        BY <1>1, <3>4
      <4>2. AtMost(K((n - 1) - 1), K(n - 1))
        BY <4>1 DEF NeighboursSoFar
      <4> QED
        BY <1>8, <4>1, <4>2
    <3> QED
      BY <1>1, <3>1, <3>2, <3>3, <3>4
  <2> QED
    BY <1>1, <1>3, <1>4, <2>1 DEF NeighboursSoFar
<1>13. StableSoFar'
  <2> SUFFICES ASSUME Comparable, NEW m \in 1..(L + 1), NEW n \in 1..(L + 1), m < n
               PROVE  /\ AtMost(K2(m), K2(n))
                      /\ AtMost(K2(n), K2(m)) => order'[m] < order'[n]
    BY <1>1, <1>3, <1>4 DEF StableSoFar
  <2>1. \A k, l \in 1..L : k < l =>
          AtMost(K(k), K(l)) /\ (AtMost(K(l), K(k)) => order[k] < order[l])
    BY DEF StableSoFar
  <2>2. CASE n <= p
    <3>1. m \in 1..p /\ n \in 1..p
      BY <1>1, <2>2
    <3> QED
      BY <1>8, <2>1, <3>1
  <2>3. CASE n = p + 1
    <3>1. m \in 1..p /\ p > 0 /\ m \in 1..L /\ p \in 1..L
      BY <1>1, <2>3
    <3>2. AtMost(K(p), new)
      BY <1>2, <3>1
    <3>3. AtMost(K(m), new)
      <4>1. CASE m = p
        BY <3>2, <4>1
      <4>2. CASE m # p
        <5>1. AtMost(K(m), K(p))
          BY <2>1, <3>1, <4>2
        <5>2. /\ order[m] \in DOMAIN keys /\ order[p] \in DOMAIN keys
              /\ L + 1 \in DOMAIN keys
          BY <1>6, <3>1
        <5>3. sorter \in ObjectSorts =>
                \/ {K(m), K(p), new} \cap Numbers = {}
                \/ {K(m), K(p), new} \subseteq Numbers \cup {Missing}
          BY <5>2, ComparedInOneWay DEF new
        <5>4. K(m) \in Keys /\ K(p) \in Keys /\ new \in Keys
          BY <1>6, <3>1
        <5> HIDE DEF K
        <5> QED
          BY <3>2, <5>1, <5>3, <5>4, AtMostTransitive
      <4> QED
        BY <4>1, <4>2
    <3>4. order[m] < L + 1
      BY <1>1, <1>5, <3>1
    <3> QED
      BY <1>8, <2>3, <3>1, <3>3, <3>4
  <2>4. CASE n > p + 1 /\ m <= p
    <3>1. n \in (p + 2)..(L + 1) /\ m \in 1..p /\ m < n - 1
      BY <1>1, <2>4
    <3> QED
      BY <1>8, <2>1, <3>1
  <2>5. CASE m = p + 1
    <3>1. n \in (p + 2)..(L + 1)
      BY <1>1, <2>5
    <3> QED
      BY <1>7, <1>8, <2>5, <3>1
  <2>6. CASE m > p + 1
    <3>1. n \in (p + 2)..(L + 1) /\ m \in (p + 2)..(L + 1) /\ m - 1 < n - 1
      BY <1>1, <2>6
    <3> QED
      BY <1>8, <2>1, <3>1
  <2> QED
    BY <1>1, <2>2, <2>3, <2>4, <2>5, <2>6
<1> QED
  BY <1>10, <1>11, <1>12, <1>13

LEMMA SortInvariant == SortSpec => []SortInv
<1>1. SortInit => SortInv
  <2> SUFFICES ASSUME SortInit
               PROVE  SortInv
    OBVIOUS
  <2>1. /\ sorter \in Sorters /\ keys \in Seq(Keys) /\ order = <<>> /\ sorted = FALSE
    BY SortingAssumption DEF SortInit
  <2>2. Len(order) = 0 /\ DOMAIN order = {} /\ 1..0 = {}
    BY <2>1
  <2>3. SortTypeOK
    <3>1. order \in Seq(1..Len(keys)) /\ Len(order) <= Len(keys)
      BY <2>1
    <3>2. sorted \in BOOLEAN /\ (sorted => Len(order) = Len(keys))
      BY <2>1, Zenon
    <3> QED
      BY <2>1, <3>1, <3>2, Zenon DEF SortTypeOK
  <2>4. InsertedOnce /\ NeighboursSoFar /\ StableSoFar
    BY <2>2 DEF InsertedOnce, NeighboursSoFar, StableSoFar
  <2> QED
    BY <2>3, <2>4 DEF SortInv
<1>2. SortInv /\ [SortNext]_sortVars => SortInv'
  <2> SUFFICES ASSUME SortInv, SortReturn \/ UNCHANGED sortVars
               PROVE  SortInv'
    BY InsertStep DEF SortNext
  <2>1. /\ sorter' = sorter /\ keys' = keys /\ order' = order
        /\ (sorted' = sorted) \/ (sorted' = TRUE /\ Len(order) = Len(keys))
    BY DEF SortReturn, sortVars
  <2>2. SortTypeOK'
    <3>1. sorted \in BOOLEAN /\ (sorted => Len(order) = Len(keys))
      BY Zenon DEF SortInv, SortTypeOK
    <3>2. sorted' \in BOOLEAN /\ (sorted' => Len(order) = Len(keys))
      <4>1. CASE sorted' = sorted
        BY <3>1, <4>1, Zenon
      <4>2. CASE sorted' = TRUE /\ Len(order) = Len(keys)
        BY <4>2, Zenon
      <4> QED
        BY <2>1, <4>1, <4>2, Zenon
    <3> QED
      BY <2>1, <3>2, Zenon DEF SortInv, SortTypeOK
  <2>5. InsertedOnce'
    BY <2>1 DEF SortInv, InsertedOnce
  <2>3. /\ \A x, y : AtMost(x, y)' <=> AtMost(x, y)
        /\ Comparable' <=> Comparable
    BY <2>1 DEF AtMost, Comparable
  <2>4. NeighboursSoFar' /\ StableSoFar'
    BY <2>1, <2>3 DEF SortInv, NeighboursSoFar, StableSoFar
  <2> QED
    BY <2>2, <2>4, <2>5 DEF SortInv
<1> QED
  BY <1>1, <1>2, PTL DEF SortSpec

\* The entries inserted are entries of the list, as many as it has at most.
THEOREM SortTypeCorrect == SortSpec => []SortTypeOK
<1>1. SortInv => SortTypeOK
  BY DEF SortInv
<1> QED
  BY <1>1, SortInvariant, PTL

\* Whatever the keys, every entry is returned, once, and no two neighbours are in the
\* wrong order.
THEOREM NothingLost == SortSpec => []NeighboursInOrder
<1>1. SortInv => NeighboursInOrder
  BY DEF SortInv, SortTypeOK, InsertedOnce, NeighboursSoFar, NeighboursInOrder
<1> QED
  BY <1>1, SortInvariant, PTL

\* A list with comparable keys is sorted, and stably.
THEOREM SortedStably == SortSpec => []SortsStably
<1>1. SortInv => SortsStably
  BY DEF SortInv, SortTypeOK, StableSoFar, SortsStably
<1> QED
  BY <1>1, SortInvariant, PTL
-------------------------------------------------------------------------------
(* DeepGet                                                                 *)

DeepTypeOK ==
  /\ item \in Values /\ wanted \in Seq(Names)
  /\ at \in Values \cup {NoValue} /\ path \in Seq(Names)
  /\ got \in {"looking", "value", "nothing"}
  /\ got = "looking" => at \in Values

\* What the assumption says of a value.
LEMMA UnderType ==
  ASSUME NEW v \in Values
  PROVE  /\ Kind[v] \in {"struct", "map", "slice", "pointer", "leaf"}
         /\ \A key \in DOMAIN Under[v] :
              /\ key \in Seq(Names) /\ Len(key) \in Nat /\ DOMAIN key = 1..Len(key)
              /\ Under[v][key] \in Values
              /\ Kind[v] \in {"struct", "slice"} => Len(key) = 1
              /\ Kind[v] = "map" => key # <<>>
              /\ Kind[v] = "pointer" => key = <<>>
              /\ Kind[v] # "leaf"
BY DeepGetAssumption

LEMMA TargetType ==
  ASSUME NEW v \in Values
  PROVE  Target(v) \in Values
BY UnderType DEF Target

\* What the parts of a path make.
LEMMA PartsOf ==
  ASSUME NEW S, NEW list \in Seq(S), NEW m \in 0..Len(list), NEW n \in 0..Len(list), m <= n
  PROVE  /\ SubSeq(list, m + 1, n) \in Seq(S)
         /\ Len(SubSeq(list, m + 1, n)) = n - m
         /\ \A k \in 1..(n - m) : SubSeq(list, m + 1, n)[k] = list[m + k]
<1>1. Len(list) \in Nat /\ m \in Int /\ m + 1 \in Int /\ n \in Int
  OBVIOUS
<1>2. \A k \in (m + 1)..n : list[k] \in S
  BY <1>1
<1> DEFINE first == m + 1
<1>3. first \in Int /\ \A k \in first..n : list[k] \in S
  BY <1>1, <1>2
<1>4. /\ SubSeq(list, first, n) \in Seq(S)
      /\ Len(SubSeq(list, first, n)) = IF first <= n THEN n - first + 1 ELSE 0
      /\ \A k \in 1..(n - first + 1) : SubSeq(list, first, n)[k] = list[first + k - 1]
  <2> HIDE DEF first
  <2> QED
    BY <1>1, <1>3, SubSeqProperties
<1>5. /\ n - first + 1 = n - m /\ (first <= n \/ n - m = 0)
      /\ \A k \in 1..(n - m) : first + k - 1 = m + k
  BY <1>1
<1> DEFINE parts == SubSeq(list, first, n)
<1> HIDE DEF parts
<1>6. /\ parts \in Seq(S) /\ Len(parts) = n - m
      /\ \A k \in 1..(n - m) : parts[k] = list[m + k]
  BY <1>4, <1>5 DEF parts
<1> QED
  BY <1>6 DEF parts

\* The parts of a path whose first parts are left out.
LEMMA RestOf ==
  ASSUME NEW S, NEW list \in Seq(S), NEW m \in 0..Len(list), NEW n \in 0..(Len(list) - m),
         NEW rest, rest = SubSeq(list, m + 1, Len(list))
  PROVE  /\ Len(rest) = Len(list) - m
         /\ SubSeq(rest, 1, n) = SubSeq(list, m + 1, m + n)
         /\ SubSeq(rest, n + 1, Len(rest)) = SubSeq(list, m + n + 1, Len(list))
<1> DEFINE L == Len(list)
           R == Len(rest)
<1>1. L \in Nat /\ m \in Nat /\ n \in Nat /\ m + n \in 0..L /\ m <= L /\ L \in 0..L
  OBVIOUS
<1>2. /\ rest \in Seq(S) /\ R = L - m
      /\ \A k \in 1..(L - m) : rest[k] = list[m + k]
  BY <1>1, PartsOf
<1> HIDE DEF L, R
<1>3. SubSeq(rest, 1, n) = SubSeq(list, m + 1, m + n)
  <2> DEFINE x == SubSeq(rest, 0 + 1, n)
             y == SubSeq(list, m + 1, m + n)
  <2>1. 0 \in 0..R /\ n \in 0..R /\ 0 <= n
    BY <1>1, <1>2
  <2>2. x \in Seq(S) /\ Len(x) = n - 0 /\ \A k \in 1..(n - 0) : x[k] = rest[0 + k]
    <3> HIDE DEF x
    <3> QED
      BY <1>2, <2>1, PartsOf DEF x, R
  <2>3. /\ y \in Seq(S) /\ Len(y) = m + n - m
        /\ \A k \in 1..(m + n - m) : y[k] = list[m + k]
    <3>1. m <= m + n
      BY <1>1
    <3> QED
      BY <1>1, <3>1, PartsOf DEF L
  <2> HIDE DEF x, y
  <2>4. Len(x) = Len(y) /\ \A k \in 1..Len(x) : x[k] = y[k]
    <3>1. n - 0 = n /\ m + n - m = n
      BY <1>1
    <3>2. ASSUME NEW k \in 1..n
          PROVE  x[k] = y[k]
      <4>1. k \in 1..(L - m) /\ 0 + k = k
        BY <1>1
      <4> QED
        BY <1>2, <2>2, <2>3, <3>1, <4>1
    <3> QED
      BY <2>2, <2>3, <3>1, <3>2
  <2>5. x = y
    BY <2>2, <2>3, <2>4, SeqEqual
  <2>6. 0 + 1 = 1
    OBVIOUS
  <2> QED
    BY <2>5, <2>6 DEF x, y
<1>4. SubSeq(rest, n + 1, R) = SubSeq(list, m + n + 1, L)
  <2> DEFINE x == SubSeq(rest, n + 1, R)
             y == SubSeq(list, m + n + 1, L)
  <2>1. R \in 0..R /\ n \in 0..R /\ n <= R
    BY <1>1, <1>2
  <2>2. x \in Seq(S) /\ Len(x) = R - n /\ \A k \in 1..(R - n) : x[k] = rest[n + k]
    BY <1>2, <2>1, PartsOf DEF R
  <2>3. /\ y \in Seq(S) /\ Len(y) = L - (m + n)
        /\ \A k \in 1..(L - (m + n)) : y[k] = list[(m + n) + k]
    <3>1. m + n <= L
      BY <1>1
    <3> QED
      BY <1>1, <3>1, PartsOf DEF L
  <2> HIDE DEF x, y
  <2>4. Len(x) = Len(y) /\ \A k \in 1..Len(x) : x[k] = y[k]
    <3>1. R - n = L - (m + n)
      BY <1>1, <1>2
    <3>2. ASSUME NEW k \in 1..(R - n)
          PROVE  x[k] = y[k]
      <4>1. n + k \in 1..(L - m) /\ m + (n + k) = (m + n) + k
        BY <1>1, <1>2
      <4>2. rest[n + k] = list[(m + n) + k]
        BY <1>2, <4>1
      <4> QED
        BY <2>2, <2>3, <3>1, <4>2
    <3> QED
      BY <2>2, <2>3, <3>1, <3>2
  <2>5. x = y
    BY <2>2, <2>3, <2>4, SeqEqual
  <2> QED
    BY <2>5 DEF x, y
<1> QED
  BY <1>2, <1>3, <1>4 DEF L, R

\* What is there after n parts depends on what is there after fewer.
LEMMA SameBefore ==
  ASSUME NEW n \in Nat, NEW g, NEW h, \A m \in 0..(n - 1) : g[m] = h[m]
  PROVE  ThereFrom(g, n) = ThereFrom(h, n)
<1>1. CASE n = 0
  BY <1>1 DEF ThereFrom
<1>2. CASE n # 0
  <2> DEFINE In(b, m) == {Under[Target(v)][Key(m, n)] : v \in {v \in b[m] : Has(v, m, n)}}
  <2>1. \A m \in 0..(n - 1) : In(g, m) = In(h, m)
    OBVIOUS
  <2>2. ThereFrom(g, n) = UNION {In(g, m) : m \in 0..(n - 1)}
    BY <1>2 DEF ThereFrom
  <2>3. ThereFrom(h, n) = UNION {In(h, m) : m \in 0..(n - 1)}
    BY <1>2 DEF ThereFrom
  <2> HIDE DEF In
  <2> QED
    BY <2>1, <2>2, <2>3
<1> QED
  BY <1>1, <1>2

\* There is a function that There is defined as; otherwise there would be a least
\* length for which there is none.
LEMMA ThereDefined ==
  ASSUME wanted \in Seq(Names)
  PROVE  There = [n \in 0..Len(wanted) |-> ThereFrom(There, n)]
<1> DEFINE Solves(g, k) == g = [n \in 0..k |-> ThereFrom(g, n)]
           Unsolved == {k \in 0..Len(wanted) : ~\E g : Solves(g, k)}
<1>1. Unsolved = {}
  <2> SUFFICES ASSUME Unsolved # {}
               PROVE  FALSE
    OBVIOUS
  <2>1. PICK k \in Unsolved : \A l \in Unsolved : k <= l
    <3>1. Unsolved \subseteq Nat
      OBVIOUS
    <3> HIDE DEF Unsolved
    <3> QED
      BY <3>1, LeastNumber
  <2>2. k \in 0..Len(wanted) /\ k \in Nat /\ ~\E g : Solves(g, k)
    OBVIOUS
  <2>3. \E g : \A n \in 0..(k - 1) : g[n] = ThereFrom(g, n)
    <3>1. CASE k = 0
      BY <3>1
    <3>2. CASE k # 0
      <4>1. k - 1 \in 0..Len(wanted) /\ ~(k <= k - 1)
        BY <2>2, <3>2
      <4>2. PICK g : Solves(g, k - 1)
        BY <2>1, <4>1
      <4>3. \A n \in 0..(k - 1) : g[n] = ThereFrom(g, n)
        BY <4>2
      <4> QED
        BY <4>3
    <3> QED
      BY <3>1, <3>2
  <2>4. PICK g : \A n \in 0..(k - 1) : g[n] = ThereFrom(g, n)
    BY <2>3
  <2> DEFINE h == [n \in 0..k |-> ThereFrom(g, n)]
  <2>5. ASSUME NEW n \in 0..k
        PROVE  ThereFrom(h, n) = ThereFrom(g, n)
    <3>1. \A m \in 0..(n - 1) : m \in 0..k /\ m \in 0..(k - 1)
      BY <2>2
    <3>2. n \in Nat
      OBVIOUS
    <3>3. \A m \in 0..(n - 1) : h[m] = g[m]
      BY <2>4, <3>1
    <3> HIDE DEF h
    <3> QED
      BY <3>2, <3>3, SameBefore
  <2>6. h = [n \in 0..k |-> ThereFrom(h, n)]
    <3>1. [n \in 0..k |-> ThereFrom(g, n)] = [n \in 0..k |-> ThereFrom(h, n)]
      BY <2>5
    <3> QED
      BY <3>1
  <2> QED
    BY <2>2, <2>6
<1>2. \E g : g = [n \in 0..Len(wanted) |-> ThereFrom(g, n)]
  <2>1. Len(wanted) \in 0..Len(wanted)
    OBVIOUS
  <2> QED
    BY <1>1, <2>1
<1> QED
  BY <1>2, Zenon DEF There

\* What is there after n parts is under something that is there after fewer.
LEMMA ThereUnder ==
  ASSUME wanted \in Seq(Names), NEW n \in 0..Len(wanted)
  PROVE  /\ n = 0 => There[n] = {item}
         /\ n > 0 => \A w : w \in There[n] <=>
              \E m \in 0..(n - 1) : \E v \in There[m] :
                Has(v, m, n) /\ w = Under[Target(v)][Key(m, n)]
<1>1. There[n] = ThereFrom(There, n)
  BY ThereDefined
<1>2. n \in Nat
  OBVIOUS
<1>3. CASE n = 0
  BY <1>1, <1>3 DEF ThereFrom
<1>4. CASE n # 0
  BY <1>1, <1>2, <1>4 DEF ThereFrom
<1> QED
  BY <1>2, <1>3, <1>4

\* How many parts of the path have been used.
UsedUp == Len(wanted) - Len(path)

\* What is left of the path is its end.
PathIsEnd == path = SubSeq(wanted, UsedUp + 1, Len(wanted))

PathSoFar == Len(path) <= Len(wanted) /\ PathIsEnd

\* The value reached is there, and the only one after as many parts unless one is
\* shadowed: whatever was there before goes on with a shorter key.
ReachedSoFar ==
  got = "looking" =>
    /\ at \in There[UsedUp]
    /\ ~Shadowed =>
         /\ There[UsedUp] = {at}
         /\ \A m \in 0..(UsedUp - 1) : \A v \in There[m] :
              \E k \in (m + 1)..UsedUp : Key(m, k) \in DOMAIN Under[Target(v)]

DeepInv == DeepTypeOK /\ PathSoFar /\ ReachedSoFar /\ FindsWhatIsThere

LEMMA UsedUpType ==
  ASSUME DeepTypeOK, PathSoFar
  PROVE  /\ Len(wanted) \in Nat /\ UsedUp \in Nat /\ UsedUp <= Len(wanted)
         /\ Len(path) = Len(wanted) - UsedUp
BY DEF DeepTypeOK, PathSoFar, UsedUp

\* The parts that make a key together are those that stand next in the path.
LEMMA UsedKeys ==
  ASSUME DeepInv, got = "looking", NEW n \in 1..Len(path)
  PROVE  /\ n \in Nat /\ UsedUp + n <= Len(wanted)
         /\ Prefix(n) = Key(UsedUp, UsedUp + n)
         /\ n \in Used(Target(at)) /\ Kind[Target(at)] # "pointer" <=> Has(at, UsedUp, UsedUp + n)
<1>1. /\ Len(wanted) \in Nat /\ UsedUp \in Nat /\ UsedUp <= Len(wanted)
      /\ Len(path) = Len(wanted) - UsedUp
  BY UsedUpType DEF DeepInv
<1>2. n \in 1..(Len(wanted) - UsedUp) /\ Len(wanted) \in Nat /\ UsedUp \in Nat /\ UsedUp <= Len(wanted)
  BY <1>1
<1>3. /\ n \in Nat /\ UsedUp \in 0..Len(wanted) /\ n \in 0..(Len(wanted) - UsedUp) /\ UsedUp + n \in 0..Len(wanted) /\ UsedUp <= UsedUp + n
      /\ UsedUp + n <= Len(wanted) /\ UsedUp + n - UsedUp = n
  BY <1>1, <1>2
<1>4. path = SubSeq(wanted, UsedUp + 1, Len(wanted)) /\ wanted \in Seq(Names)
  BY DEF DeepInv, DeepTypeOK, PathSoFar, PathIsEnd
<1>5. Prefix(n) = Key(UsedUp, UsedUp + n)
  <2>1. SubSeq(path, 1, n) = SubSeq(wanted, UsedUp + 1, UsedUp + n)
    BY <1>3, <1>4, RestOf
  <2> QED
    BY <2>1 DEF Prefix, Key
<1>6. Len(Key(UsedUp, UsedUp + n)) = n
  <2> DEFINE l == UsedUp + n
  <2>1. UsedUp \in 0..Len(wanted) /\ l \in 0..Len(wanted) /\ UsedUp <= l /\ l - UsedUp = n
    BY <1>3
  <2> HIDE DEF l
  <2>2. Len(SubSeq(wanted, UsedUp + 1, l)) = l - UsedUp
    BY <1>4, <2>1, PartsOf
  <2> QED
    BY <2>1, <2>2 DEF Key, l
<1>7. at \in Values /\ Target(at) \in Values
  BY TargetType DEF DeepInv, DeepTypeOK
<1> DEFINE key == Key(UsedUp, UsedUp + n)
           v == Target(at)
<1>8. n \in Used(v) <=> key \in DOMAIN Under[v] /\ (Kind[v] = "map" \/ n = 1)
  BY <1>5 DEF Used
<1>9. ASSUME Kind[v] # "pointer", key \in DOMAIN Under[v]
      PROVE  Kind[v] = "map" \/ n = 1
  <2> HIDE DEF key, v
  <2> QED
    BY <1>6, <1>7, <1>9, UnderType DEF key, v
<1>10. Has(at, UsedUp, UsedUp + n) <=> Kind[v] # "pointer" /\ key \in DOMAIN Under[v]
  BY DEF Has
<1> HIDE DEF key, v
<1>11. n \in Used(v) /\ Kind[v] # "pointer" <=> Has(at, UsedUp, UsedUp + n)
  BY <1>8, <1>9, <1>10
<1> QED
  BY <1>3, <1>5, <1>11 DEF v

\* Unless something is shadowed, what is there after more parts is under what is
\* there after no fewer parts than have been used.
LEMMA FromHere ==
  ASSUME DeepInv, got = "looking", ~Shadowed, NEW n \in (UsedUp + 1)..Len(wanted), NEW w \in There[n]
  PROVE  \E m \in UsedUp..(n - 1) : \E v \in There[m] :
           Has(v, m, n) /\ w = Under[Target(v)][Key(m, n)]
<1>1. wanted \in Seq(Names) /\ n \in 0..Len(wanted) /\ n > 0 /\ n \in Nat /\ UsedUp \in Nat
  BY UsedUpType DEF DeepInv, DeepTypeOK
<1>2. PICK m \in 0..(n - 1) : \E v \in There[m] :
        Has(v, m, n) /\ w = Under[Target(v)][Key(m, n)]
  BY <1>1, ThereUnder
<1>3. PICK v \in There[m] : Has(v, m, n) /\ w = Under[Target(v)][Key(m, n)]
  BY <1>2
<1>4. ASSUME m < UsedUp
      PROVE  FALSE
  <2>1. m \in 0..(UsedUp - 1)
    BY <1>1, <1>4
  <2>2. PICK k \in (m + 1)..UsedUp : Key(m, k) \in DOMAIN Under[Target(v)]
    BY <1>3, <2>1 DEF DeepInv, ReachedSoFar
  <2>3. m \in 0..Len(wanted) /\ k \in (m + 1)..Len(wanted) /\ n \in (k + 1)..Len(wanted)
    BY <1>1, <2>1
  <2>4. Key(m, n) \in DOMAIN Under[Target(v)]
    BY <1>3 DEF Has
  <2> QED
    BY <1>3, <2>2, <2>3, <2>4 DEF Shadowed
<1>5. m \in UsedUp..(n - 1)
  BY <1>1, <1>4
<1> QED
  BY <1>3, <1>5

\* Nothing is there before the parts make a key of the value that has been reached.
LEMMA NothingBetween ==
  ASSUME DeepInv, got = "looking", ~Shadowed, NEW to \in UsedUp..Len(wanted), \A n \in (UsedUp + 1)..to : ~Has(at, UsedUp, n)
  PROVE  \A n \in (UsedUp + 1)..to : There[n] = {}
<1>0. Len(wanted) \in Nat /\ UsedUp \in Nat /\ to \in Nat
  BY UsedUpType DEF DeepInv
<1> DEFINE Some == {n \in (UsedUp + 1)..to : There[n] # {}}
<1> SUFFICES ASSUME Some # {}
             PROVE  FALSE
  OBVIOUS
<1>1. PICK n \in Some : \A l \in Some : n <= l
  <2>1. Some \subseteq Nat
    BY <1>0
  <2> HIDE DEF Some
  <2> QED
    BY <2>1, LeastNumber
<1>2. n \in (UsedUp + 1)..to /\ n \in (UsedUp + 1)..Len(wanted) /\ n \in Nat
  BY <1>0
<1>3. PICK w : w \in There[n]
  OBVIOUS
<1>4. PICK m \in UsedUp..(n - 1) : \E v \in There[m] : Has(v, m, n)
  BY <1>2, <1>3, FromHere
<1>5. CASE m = UsedUp
  <2>1. There[m] = {at}
    BY <1>5 DEF DeepInv, ReachedSoFar
  <2> QED
    BY <1>2, <1>4, <1>5, <2>1
<1>6. CASE m # UsedUp
  <2>1. m \in (UsedUp + 1)..to /\ ~(n <= m)
    BY <1>0, <1>2, <1>6
  <2>2. m \in Some
    BY <1>4, <2>1
  <2> QED
    BY <1>1, <2>1, <2>2
<1> QED
  BY <1>5, <1>6

\* What is there does not change.
LEMMA ThereStays ==
  ASSUME item' = item, wanted' = wanted
  PROVE  There' = There /\ Shadowed' = Shadowed /\ \A m, n : Key(m, n)' = Key(m, n)
<1>1. \A m, n : Key(m, n)' = Key(m, n)
  BY DEF Key
<1>2. There' = There
  BY DEF There, ThereFrom, Has, Key, Target
<1>3. Shadowed' = Shadowed
  BY <1>1, <1>2 DEF Shadowed, Target
<1> QED
  BY <1>1, <1>2, <1>3

\* What one more key leads to.
LEMMA KeyLeadsOn ==
  ASSUME DeepInv, got = "looking", NEW n \in 1..Len(path), n \in Used(Target(at)),
         Kind[Target(at)] # "pointer", \A l \in Used(Target(at)) : n <= l
  PROVE  LET next == Under[Target(at)][Prefix(n)]
             to == UsedUp + n
         IN  /\ next \in Values /\ next \in There[to]
             /\ ~Shadowed =>
                  /\ There[to] = {next}
                  /\ \A m \in 0..(to - 1) : \A v \in There[m] :
                       \E k \in (m + 1)..to : Key(m, k) \in DOMAIN Under[Target(v)]
<1> DEFINE next == Under[Target(at)][Prefix(n)]
           to == UsedUp + n
<1>1. /\ n \in Nat /\ UsedUp \in Nat /\ Len(wanted) \in Nat /\ to \in Nat
      /\ to <= Len(wanted) /\ Prefix(n) = Key(UsedUp, to) /\ Has(at, UsedUp, to)
      /\ to \in 0..Len(wanted) /\ to > 0 /\ UsedUp \in 0..(to - 1)
      /\ Len(path) = Len(wanted) - UsedUp
  <2>1. /\ UsedUp \in Nat /\ Len(wanted) \in Nat /\ n \in Nat
        /\ Len(path) = Len(wanted) - UsedUp
    BY UsedUpType DEF DeepInv
  <2>2. to <= Len(wanted) /\ Prefix(n) = Key(UsedUp, to) /\ Has(at, UsedUp, to)
    BY UsedKeys
  <2> QED
    BY <2>1, <2>2
<1>2. at \in Values /\ at \in There[UsedUp] /\ wanted \in Seq(Names)
  BY DEF DeepInv, DeepTypeOK, ReachedSoFar
<1>3. next = Under[Target(at)][Key(UsedUp, to)]
  BY <1>1
<1>4. next \in Values
  <2>1. Target(at) \in Values
    BY <1>2, TargetType
  <2>2. Key(UsedUp, to) \in DOMAIN Under[Target(at)]
    BY <1>1 DEF Has
  <2> QED
    BY <1>3, <2>1, <2>2, UnderType
<1> HIDE DEF next, to
<1>5. next \in There[to]
  BY <1>1, <1>2, <1>3, ThereUnder
<1>6. ASSUME ~Shadowed
      PROVE  /\ There[to] = {next}
             /\ \A m \in 0..(to - 1) : \A v \in There[m] :
                  \E k \in (m + 1)..to : Key(m, k) \in DOMAIN Under[Target(v)]
  <2>1. There[UsedUp] = {at}
    BY <1>6 DEF DeepInv, ReachedSoFar
  <2>2. ASSUME NEW l \in (UsedUp + 1)..(to - 1)
        PROVE  ~Has(at, UsedUp, l)
    <3> DEFINE i == l - UsedUp
    <3>1. i \in 1..Len(path) /\ UsedUp + i = l /\ ~(n <= i)
      BY <1>1 DEF to
    <3>2. i \notin Used(Target(at))
      BY <3>1
    <3> HIDE DEF i
    <3> QED
      BY <3>1, <3>2, UsedKeys
  <2>3. \A l \in (UsedUp + 1)..(to - 1) : There[l] = {}
    <3> DEFINE last == to - 1
    <3>1. last \in UsedUp..Len(wanted)
      BY <1>1
    <3>2. \A l \in (UsedUp + 1)..last : ~Has(at, UsedUp, l)
      BY <2>2
    <3> HIDE DEF last
    <3>3. \A l \in (UsedUp + 1)..last : There[l] = {}
      BY <1>6, <3>1, <3>2, NothingBetween
    <3> QED
      BY <3>3 DEF last
  <2>4. ASSUME NEW w \in There[to]
        PROVE  w = next
    <3>1. to \in (UsedUp + 1)..Len(wanted)
      BY <1>1
    <3>2. PICK m \in UsedUp..(to - 1) : \E v \in There[m] :
            Has(v, m, to) /\ w = Under[Target(v)][Key(m, to)]
      BY <1>6, <3>1, FromHere
    <3>3. m = UsedUp
      <4>1. m = UsedUp \/ m \in (UsedUp + 1)..(to - 1)
        BY <1>1
      <4> QED
        BY <2>3, <3>2, <4>1
    <3> QED
      BY <1>3, <2>1, <3>2, <3>3
  <2>5. ASSUME NEW m \in 0..(to - 1), NEW v \in There[m]
        PROVE  \E k \in (m + 1)..to : Key(m, k) \in DOMAIN Under[Target(v)]
    <3>1. \/ m \in 0..(UsedUp - 1)
          \/ m = UsedUp
          \/ m \in (UsedUp + 1)..(to - 1)
      BY <1>1, SMT
    <3>2. CASE m \in 0..(UsedUp - 1)
      <4>1. PICK k \in (m + 1)..UsedUp : Key(m, k) \in DOMAIN Under[Target(v)]
        BY <1>6, <3>2 DEF DeepInv, ReachedSoFar
      <4>2. k \in (m + 1)..to
        BY <1>1
      <4> QED
        BY <4>1, <4>2
    <3>3. CASE m = UsedUp
      <4>1. to \in (m + 1)..to
        BY <1>1, <3>3
      <4> QED
        BY <1>1, <2>1, <3>3, <4>1 DEF Has
    <3>4. CASE m \in (UsedUp + 1)..(to - 1)
      BY <2>3, <3>4
    <3> QED
      BY <3>1, <3>2, <3>3, <3>4
  <2> QED
    BY <1>5, <2>4, <2>5
<1> QED
  BY <1>4, <1>5, <1>6 DEF next, to

\* A lookup starts at the item, with the whole path.
LEMMA DeepInitInv ==
  DeepInit => DeepInv
<1> SUFFICES ASSUME DeepInit
             PROVE  DeepInv
  OBVIOUS
<1>1. DeepTypeOK
  BY DeepGetAssumption DEF DeepInit, DeepTypeOK
<1>2. wanted \in Seq(Names) /\ path = wanted /\ Len(wanted) \in Nat
  BY <1>1 DEF DeepInit, DeepTypeOK
<1>3. UsedUp = 0
  BY <1>2 DEF UsedUp
<1>4. PathSoFar
  <2>1. SubSeq(wanted, 1, Len(wanted)) = wanted
    BY <1>2, SubSeqFull
  <2>2. 0 + 1 = 1
    OBVIOUS
  <2>3. PathIsEnd
    BY <1>2, <1>3, <2>1, <2>2 DEF PathIsEnd
  <2> QED
    BY <1>2, <2>3 DEF PathSoFar
<1>5. ReachedSoFar
  <2>1. There[0] = {item}
    BY <1>2, ThereUnder
  <2> QED
    BY <1>3, <2>1 DEF ReachedSoFar, DeepInit
<1>6. FindsWhatIsThere
  BY DEF DeepInit, FindsWhatIsThere
<1> QED
  BY <1>1, <1>4, <1>5, <1>6 DEF DeepInv

\* The number of parts that are used is the least that makes a key.
LEMMA ShortestUsed ==
  ASSUME NEW v, Used(v) # {}, path \in Seq(Names)
  PROVE  /\ Shortest(Used(v)) \in 1..Len(path) /\ Shortest(Used(v)) \in Used(v)
         /\ \A l \in Used(v) : Shortest(Used(v)) <= l
<1> DEFINE S == Used(v)
<1>1. S \subseteq 1..Len(path) /\ S # {} /\ 1..Len(path) \subseteq Nat
  BY DEF Used
<1> HIDE DEF S
<1>2. \E n \in S : \A l \in S : n <= l
  <2>1. S \subseteq Nat
    BY <1>1
  <2> QED
    BY <1>1, <2>1, LeastNumber
<1>3. Shortest(S) \in S /\ \A l \in S : Shortest(S) <= l
  BY <1>2, Zenon DEF Shortest
<1> QED
  BY <1>1, <1>3 DEF S

LEMMA DescendInv ==
  ASSUME DeepInv, Descend
  PROVE  DeepInv'
<1> DEFINE v == Target(at)
           n == Shortest(Used(v))
           next == Under[v][Prefix(n)]
           to == UsedUp + n
<1>1. /\ got = "looking" /\ Kind[v] # "pointer" /\ Used(v) # {}
      /\ at' = next /\ path' = RestAfter(n)
      /\ item' = item /\ wanted' = wanted /\ got' = "looking"
  BY DEF Descend
<1>2. /\ path \in Seq(Names) /\ wanted \in Seq(Names) /\ item \in Values
      /\ path = SubSeq(wanted, UsedUp + 1, Len(wanted))
  BY DEF DeepInv, DeepTypeOK, PathSoFar, PathIsEnd
<1>3. n \in 1..Len(path) /\ n \in Used(v) /\ \A l \in Used(v) : n <= l
  BY <1>1, <1>2, ShortestUsed
<1> HIDE DEF n
<1>4. /\ next \in Values /\ next \in There[to]
      /\ ~Shadowed =>
           /\ There[to] = {next}
           /\ \A m \in 0..(to - 1) : \A x \in There[m] :
                \E k \in (m + 1)..to : Key(m, k) \in DOMAIN Under[Target(x)]
  BY <1>1, <1>3, KeyLeadsOn
<1> HIDE DEF next
<1>5. /\ UsedUp \in Nat /\ Len(wanted) \in Nat /\ n \in Nat /\ to \in Nat
      /\ UsedUp \in 0..Len(wanted) /\ n \in 0..(Len(wanted) - UsedUp) /\ to \in 0..Len(wanted)
      /\ Len(path) = Len(wanted) - UsedUp /\ to <= Len(wanted)
  <2>1. /\ UsedUp \in Nat /\ Len(wanted) \in Nat /\ UsedUp <= Len(wanted)
        /\ Len(path) = Len(wanted) - UsedUp
    BY UsedUpType DEF DeepInv
  <2> QED
    BY <1>3, <2>1
<1>6. RestAfter(n) = SubSeq(wanted, to + 1, Len(wanted))
  BY <1>2, <1>5, RestOf DEF RestAfter
<1>7. /\ path' \in Seq(Names) /\ Len(path') = Len(wanted) - to
      /\ path' = SubSeq(wanted, to + 1, Len(wanted))
  <2>1. Len(wanted) \in 0..Len(wanted)
    BY <1>5
  <2> HIDE DEF to
  <2>2. /\ SubSeq(wanted, to + 1, Len(wanted)) \in Seq(Names)
        /\ Len(SubSeq(wanted, to + 1, Len(wanted))) = Len(wanted) - to
    BY <1>2, <1>5, <2>1, PartsOf
  <2> QED
    BY <1>1, <1>6, <2>2
<1>8. UsedUp' = to
  <2> HIDE DEF to
  <2>1. Len(wanted) - (Len(wanted) - to) = to
    BY <1>5
  <2> QED
    BY <1>1, <1>7, <2>1 DEF UsedUp
<1>9. There' = There /\ Shadowed' = Shadowed /\ \A m, k : Key(m, k)' = Key(m, k)
  BY <1>1, ThereStays
<1> HIDE DEF to
<1>10. DeepTypeOK'
  BY <1>1, <1>2, <1>4, <1>7 DEF DeepTypeOK
<1>11. PathSoFar'
  <2>1. Len(path') <= Len(wanted')
    BY <1>1, <1>5, <1>7
  <2>2. PathIsEnd'
    BY <1>1, <1>7, <1>8 DEF PathIsEnd
  <2> QED
    BY <2>1, <2>2 DEF PathSoFar
<1>12. ReachedSoFar'
  BY <1>1, <1>4, <1>8, <1>9 DEF ReachedSoFar, Target
<1>13. FindsWhatIsThere'
  BY <1>1 DEF FindsWhatIsThere
<1> QED
  BY <1>10, <1>11, <1>12, <1>13 DEF DeepInv

LEMMA DeadEndInv ==
  ASSUME DeepInv, DeadEnd
  PROVE  DeepInv'
<1> DEFINE v == Target(at)
<1>1. /\ got = "looking" /\ path # <<>> /\ (Kind[v] = "pointer" \/ Used(v) = {})
      /\ got' = "nothing" /\ at' = NoValue
      /\ item' = item /\ wanted' = wanted /\ path' = path
  BY DEF DeadEnd
<1>2. There' = There /\ Shadowed' = Shadowed
  BY <1>1, ThereStays
<1>3. DeepTypeOK'
  BY <1>1 DEF DeepInv, DeepTypeOK
<1>4. PathSoFar'
  BY <1>1 DEF DeepInv, PathSoFar, PathIsEnd, UsedUp
<1>5. ReachedSoFar'
  BY <1>1 DEF ReachedSoFar
<1>6. /\ UsedUp \in Nat /\ Len(wanted) \in Nat /\ Len(path) \in Nat
      /\ Len(path) = Len(wanted) - UsedUp /\ UsedUp < Len(wanted)
  <2>1. /\ UsedUp \in Nat /\ Len(wanted) \in Nat /\ UsedUp <= Len(wanted)
        /\ Len(path) = Len(wanted) - UsedUp
    BY UsedUpType DEF DeepInv
  <2>2. path \in Seq(Names)
    BY DEF DeepInv, DeepTypeOK
  <2>3. Len(path) # 0
    BY <1>1, <2>2, EmptySeq
  <2> QED
    BY <2>1, <2>2, <2>3
<1>7. ASSUME NEW l \in (UsedUp + 1)..Len(wanted)
      PROVE  ~Has(at, UsedUp, l)
  <2> DEFINE i == l - UsedUp
  <2>1. i \in 1..Len(path) /\ UsedUp + i = l
    BY <1>6
  <2> HIDE DEF i
  <2>2. ~(i \in Used(v) /\ Kind[v] # "pointer")
    BY <1>1
  <2> QED
    BY <1>1, <2>1, <2>2, UsedKeys
<1>8. ~Shadowed => There[Len(wanted)] = {}
  <2>1. Len(wanted) \in UsedUp..Len(wanted) /\ Len(wanted) \in (UsedUp + 1)..Len(wanted)
    BY <1>6
  <2> QED
    BY <1>1, <1>7, <2>1, NothingBetween
<1>9. FindsWhatIsThere'
  BY <1>1, <1>2, <1>8 DEF FindsWhatIsThere
<1> QED
  BY <1>3, <1>4, <1>5, <1>9 DEF DeepInv

LEMMA ArriveInv ==
  ASSUME DeepInv, Arrive
  PROVE  DeepInv'
<1>1. /\ got = "looking" /\ path = <<>> /\ got' = "value"
      /\ item' = item /\ wanted' = wanted /\ at' = at /\ path' = path
  BY DEF Arrive
<1>2. There' = There /\ Shadowed' = Shadowed
  BY <1>1, ThereStays
<1>3. DeepTypeOK'
  BY <1>1 DEF DeepInv, DeepTypeOK
<1>4. PathSoFar'
  BY <1>1 DEF DeepInv, PathSoFar, PathIsEnd, UsedUp
<1>5. ReachedSoFar'
  BY <1>1 DEF ReachedSoFar
<1>6. UsedUp = Len(wanted)
  <2>1. /\ UsedUp \in Nat /\ Len(wanted) \in Nat /\ Len(path) = Len(wanted) - UsedUp
    BY UsedUpType DEF DeepInv
  <2>2. Len(path) = 0
    BY <1>1
  <2> QED
    BY <2>1, <2>2
<1>7. FindsWhatIsThere'
  BY <1>1, <1>2, <1>6 DEF FindsWhatIsThere, DeepInv, ReachedSoFar
<1> QED
  BY <1>3, <1>4, <1>5, <1>7 DEF DeepInv

LEMMA DeepStutterInv ==
  ASSUME DeepInv, UNCHANGED deepVars
  PROVE  DeepInv'
<1>1. /\ item' = item /\ wanted' = wanted /\ at' = at /\ path' = path /\ got' = got
  BY DEF deepVars
<1>2. There' = There /\ Shadowed' = Shadowed /\ \A m, k : Key(m, k)' = Key(m, k)
  BY <1>1, ThereStays
<1>3. UsedUp' = UsedUp
  BY <1>1 DEF UsedUp
<1>4. DeepTypeOK'
  BY <1>1 DEF DeepInv, DeepTypeOK
<1>5. PathSoFar'
  BY <1>1, <1>3 DEF DeepInv, PathSoFar, PathIsEnd
<1>6. ReachedSoFar'
  BY <1>1, <1>2, <1>3 DEF DeepInv, ReachedSoFar, Target
<1>7. FindsWhatIsThere'
  BY <1>1, <1>2 DEF DeepInv, FindsWhatIsThere
<1> QED
  BY <1>4, <1>5, <1>6, <1>7 DEF DeepInv

LEMMA DeepInvariant ==
  DeepSpec => []DeepInv
<1>1. DeepInv /\ [DeepNext]_deepVars => DeepInv'
  BY DescendInv, DeadEndInv, ArriveInv, DeepStutterInv DEF DeepNext
<1> QED
  BY <1>1, DeepInitInv, PTL DEF DeepSpec

\* A value is reached as long as the lookup goes on.
THEOREM DeepTypeCorrect == DeepSpec => []DeepTypeOK
<1>1. DeepInv => DeepTypeOK
  BY DEF DeepInv
<1> QED
  BY <1>1, DeepInvariant, PTL

\* Whatever the names of fields and keys, what deepGet returns is there under the
\* path, and it finds what is there unless a shorter key stands in its way.
THEOREM FoundWhatIsThere == DeepSpec => []FindsWhatIsThere
<1>1. DeepInv => FindsWhatIsThere
  BY DEF DeepInv
<1> QED
  BY <1>1, DeepInvariant, PTL

-------------------------------------------------------------------------------
(* A name that is looked up among the leaves of a map.                     *)

Joined(whole, field, name) == whole = field \o name

Looks(field, name) ==
  /\ field \in DOMAIN Under[item] /\ Kind[item] = "struct" /\ Kind[Under[item][field]] = "map"
  /\ \A key \in DOMAIN Under[Under[item][field]] : Kind[Under[Under[item][field]][key]] = "leaf"
  /\ name \in DOMAIN Under[Under[item][field]]
  /\ Joined(wanted, field, name)

\* No other name of the map continues in it.
Alone(map, name) == \A n \in 1..(Len(name) - 1) : SubSeq(name, 1, n) \notin DOMAIN Under[map]

\* What the lookup of a name in a map goes through.
Passes(map, name) ==
  \/ got = "looking" /\ at = item /\ path = wanted
  \/ got = "looking" /\ at = map /\ path = name
  \/ Alone(map, name) /\ got \in {"looking", "value"} /\ at = Under[map][name] /\ path = <<>>
  \/ ~Alone(map, name) /\ got = "looking" /\ at \in Values /\ Kind[at] = "leaf" /\ path # <<>>
  \/ ~Alone(map, name) /\ got = "nothing"

LookupSoFar == \A field, name : Looks(field, name) => Passes(Under[item][field], name)

\* What has the same parts as a part of a path is that part.
LEMMA PartIs ==
  ASSUME NEW S, NEW list \in Seq(S), NEW m \in 0..Len(list), NEW n \in 0..Len(list), m <= n,
         NEW part \in Seq(S), Len(part) = n - m, \A k \in 1..(n - m) : part[k] = list[m + k]
  PROVE  SubSeq(list, m + 1, n) = part
<1> DEFINE x == SubSeq(list, m + 1, n)
<1>1. x \in Seq(S) /\ Len(x) = n - m /\ \A k \in 1..(n - m) : x[k] = list[m + k]
  BY PartsOf
<1> HIDE DEF x
<1>2. Len(x) = Len(part) /\ \A k \in 1..Len(x) : x[k] = part[k]
  BY <1>1
<1>3. x = part
  BY <1>1, <1>2, SeqEqual
<1> QED
  BY <1>3 DEF x

\* The first part of a path is the field, and the others are the name.
LEMMA NameAfterField ==
  ASSUME NEW S, NEW field \in Seq(S), NEW name \in Seq(S), Len(field) = 1,
         NEW whole, Joined(whole, field, name)
  PROVE  /\ whole \in Seq(S) /\ Len(whole) \in Nat \ {0} /\ whole # <<>>
         /\ SubSeq(whole, 1, 1) = field
         /\ SubSeq(whole, 2, Len(whole)) = name
<1> DEFINE N == Len(name)
<1>1. N \in Nat /\ N + 1 \in Nat /\ N + 1 - 1 = N
  OBVIOUS
<1>2. /\ whole \in Seq(S) /\ Len(whole) = 1 + N
      /\ \A i \in 1..(1 + N) : whole[i] = IF i <= 1 THEN field[i] ELSE name[i - 1]
  <2>1. /\ field \o name \in Seq(S) /\ Len(field \o name) = Len(field) + Len(name)
        /\ \A i \in 1..(Len(field) + Len(name)) : (field \o name)[i] =
             IF i <= Len(field) THEN field[i] ELSE name[i - Len(field)]
    BY ConcatProperties, Zenon
  <2> QED
    BY <2>1, Zenon DEF Joined
<1> HIDE DEF N
<1>3. /\ whole[1] = field[1]
      /\ \A k \in 1..N : whole[1 + k] = name[k]
  <2>1. 1 \in 1..(1 + N)
    BY <1>1
  <2>2. ASSUME NEW k \in 1..N
        PROVE  whole[1 + k] = name[k]
    <3>1. 1 + k \in 1..(1 + N) /\ ~(1 + k <= 1) /\ 1 + k - 1 = k
      BY <1>1
    <3> QED
      BY <1>2, <3>1
  <2>3. whole[1] = field[1]
    BY <1>2, <2>1
  <2> QED
    BY <2>2, <2>3
<1>4. SubSeq(whole, 1, 1) = field
  <2>1. 0 \in 0..Len(whole) /\ 1 \in 0..Len(whole) /\ 0 <= 1 /\ 1 - 0 = 1 /\ 0 + 1 = 1
    BY <1>1, <1>2
  <2>2. \A k \in 1..(1 - 0) : field[k] = whole[0 + k]
    BY <1>3
  <2>3. Len(field) = 1 - 0
    OBVIOUS
  <2>4. SubSeq(whole, 0 + 1, 1) = field
    BY <1>2, <2>1, <2>2, <2>3, PartIs, Zenon
  <2> QED
    BY <2>1, <2>4
<1>5. SubSeq(whole, 2, Len(whole)) = name
  <2>1. /\ 1 \in 0..Len(whole) /\ Len(whole) \in 0..Len(whole) /\ 1 <= Len(whole)
        /\ Len(whole) - 1 = N /\ 1 + 1 = 2
    BY <1>1, <1>2
  <2>2. Len(name) = Len(whole) - 1
    BY <2>1 DEF N
  <2>3. \A k \in 1..(Len(whole) - 1) : name[k] = whole[1 + k]
    BY <1>3, <2>1
  <2>4. SubSeq(whole, 1 + 1, Len(whole)) = name
    BY <1>2, <2>1, <2>2, <2>3, PartIs, Zenon
  <2> QED
    BY <2>1, <2>4
<1> QED
  BY <1>1, <1>2, <1>4, <1>5, EmptySeq

\* What is known of a field, a map and a name that are looked up.
LEMMA LooksType ==
  ASSUME DeepTypeOK, NEW field, NEW name, Looks(field, name)
  PROVE  /\ field \in Seq(Names) /\ Len(field) = 1 /\ Target(item) = item
         /\ Under[item][field] \in Values /\ Target(Under[item][field]) = Under[item][field]
         /\ name \in Seq(Names) /\ Len(name) \in Nat \ {0}
         /\ \A key \in DOMAIN Under[Under[item][field]] :
              Under[Under[item][field]][key] \in Values
<1> DEFINE map == Under[item][field]
<1>1. item \in Values /\ field \in DOMAIN Under[item] /\ Kind[item] = "struct"
  BY DEF DeepTypeOK, Looks
<1>2. field \in Seq(Names) /\ Len(field) = 1 /\ map \in Values
  BY <1>1, UnderType
<1>3. name \in DOMAIN Under[map] /\ Kind[map] = "map"
  BY DEF Looks
<1>4. Target(item) = item /\ Target(map) = map
  BY <1>1, <1>3 DEF Target
<1> HIDE DEF map
<1>5. /\ name \in Seq(Names) /\ name # <<>>
      /\ \A key \in DOMAIN Under[map] : Under[map][key] \in Values
  BY <1>2, <1>3, UnderType
<1>6. Len(name) \in Nat \ {0}
  BY <1>5, EmptySeq
<1> QED
  BY <1>2, <1>4, <1>5, <1>6 DEF map

\* The field is followed first.
LEMMA FieldFirst ==
  ASSUME DeepTypeOK, NEW field, NEW name, Looks(field, name), at = item, path = wanted
  PROVE  /\ path # <<>> /\ Kind[Target(at)] # "pointer" /\ Used(Target(at)) # {}
         /\ Prefix(Shortest(Used(Target(at)))) = field
         /\ RestAfter(Shortest(Used(Target(at)))) = name
<1>1. /\ field \in Seq(Names) /\ Len(field) = 1 /\ Target(at) = item /\ name \in Seq(Names)
      /\ Kind[item] = "struct" /\ field \in DOMAIN Under[item] /\ Joined(path, field, name)
  BY LooksType DEF Looks
<1>2. /\ path \in Seq(Names) /\ Len(path) \in Nat \ {0} /\ path # <<>>
      /\ Prefix(1) = field /\ SubSeq(path, 2, Len(path)) = name
  <2>1. /\ path \in Seq(Names) /\ Len(path) \in Nat \ {0} /\ path # <<>>
        /\ SubSeq(path, 1, 1) = field /\ SubSeq(path, 2, Len(path)) = name
    BY <1>1, NameAfterField
  <2> QED
    BY <2>1 DEF Prefix
<1>3. 1 \in Used(item) /\ \A n \in Used(item) : n = 1
  BY <1>1, <1>2 DEF Used
<1>4. Shortest(Used(item)) = 1
  BY <1>2, <1>3, ShortestUsed
<1>5. RestAfter(1) = name
  BY <1>2 DEF RestAfter
<1> QED
  BY <1>1, <1>2, <1>3, <1>4, <1>5

\* Then the shortest name that the others continue.
LEMMA NameNext ==
  ASSUME DeepTypeOK, NEW field, NEW name, Looks(field, name),
         NEW map, map = Under[item][field], at = map, path = name
  PROVE  LET n == Shortest(Used(Target(at)))
         IN  /\ path # <<>> /\ Kind[Target(at)] # "pointer" /\ Used(Target(at)) # {}
             /\ Target(at) = map /\ Prefix(n) \in DOMAIN Under[map]
             /\ Alone(map, name) => Prefix(n) = name /\ RestAfter(n) = <<>>
             /\ ~Alone(map, name) => RestAfter(n) # <<>>
<1> DEFINE n == Shortest(Used(map))
           N == Len(name)
<1>1. /\ Target(at) = map /\ Kind[map] = "map" /\ name \in Seq(Names)
      /\ N \in Nat \ {0} /\ name \in DOMAIN Under[map]
  BY LooksType DEF Looks
<1>2. SubSeq(name, 1, N) = name
  BY <1>1, SubSeqFull
<1>3. N \in Used(map)
  <2>1. N \in 1..Len(path)
    BY <1>1
  <2>2. Prefix(N) \in DOMAIN Under[map]
    BY <1>1, <1>2, Zenon DEF Prefix
  <2> QED
    BY <1>1, <2>1, <2>2 DEF Used
<1>4. n \in 1..N /\ n \in Used(map) /\ \A l \in Used(map) : n <= l
  <2>1. Used(map) # {} /\ path \in Seq(Names)
    BY <1>1, <1>3
  <2> QED
    BY <2>1, ShortestUsed
<1> HIDE DEF n
<1>5. Prefix(n) \in DOMAIN Under[map]
  BY <1>4 DEF Used
<1>6. path # <<>>
  BY <1>1
<1>7. ASSUME Alone(map, name)
      PROVE  Prefix(n) = name /\ RestAfter(n) = <<>>
  <2>1. n = N
    <3>1. n \notin 1..(N - 1)
      BY <1>5, <1>7 DEF Alone, Prefix
    <3> QED
      BY <1>1, <1>4, <3>1
  <2>2. RestAfter(n) = SubSeq(name, N + 1, N)
    BY <2>1 DEF RestAfter
  <2>3. SubSeq(name, N + 1, N) = <<>>
    <3>1. /\ N \in 0..N /\ N <= N /\ <<>> \in Seq(Names) /\ Len(<<>>) = N - N
          /\ \A k \in 1..(N - N) : <<>>[k] = name[N + k]
      BY <1>1
    <3> QED
      BY <1>1, <3>1, PartIs, Zenon
  <2> QED
    BY <1>2, <2>1, <2>2, <2>3 DEF Prefix
<1>8. ASSUME ~Alone(map, name)
      PROVE  RestAfter(n) # <<>>
  <2>1. PICK k \in 1..(N - 1) : SubSeq(name, 1, k) \in DOMAIN Under[map]
    BY <1>8 DEF Alone
  <2>2. k \in Used(map)
    BY <1>1, <2>1 DEF Used, Prefix
  <2>3. n <= k /\ n \in Nat /\ k \in Nat /\ k < N /\ n < N /\ N \in Nat
    BY <1>1, <1>4, <2>2
  <2>4. Len(SubSeq(name, n + 1, N)) = N - n
    <3>1. n \in 0..N /\ N \in 0..N /\ n <= N
      BY <2>3
    <3> QED
      BY <1>1, <3>1, PartsOf
  <2>5. RestAfter(n) = SubSeq(name, n + 1, N)
    BY DEF RestAfter
  <2>6. Len(RestAfter(n)) = N - n /\ N - n # 0
    BY <2>3, <2>4, <2>5
  <2> HIDE DEF N
  <2> QED
    BY <2>6
<1> QED
  BY <1>1, <1>3, <1>5, <1>6, <1>7, <1>8 DEF n

\* A step of the lookup of one name.
LEMMA PassesOn ==
  ASSUME DeepInv, [DeepNext]_deepVars, NEW field, NEW name, Looks(field, name),
         NEW map, map = Under[item][field], Passes(map, name)
  PROVE  Passes(map, name)'
<1>1. DeepTypeOK /\ at \in Values \cup {NoValue}
  BY DEF DeepInv, DeepTypeOK
<1>2. /\ map \in Values /\ \A key \in DOMAIN Under[map] :
                              Under[map][key] \in Values /\ Kind[Under[map][key]] = "leaf"
      /\ name \in DOMAIN Under[map] /\ Under[item][field] = map
  BY <1>1, LooksType DEF Looks
<1>3. Alone(map, name)' <=> Alone(map, name)
  BY DEF Alone
<1> DEFINE n == Shortest(Used(Target(at)))
<1>4. CASE Descend
  <2>1. /\ got = "looking" /\ got' = "looking" /\ path # <<>> /\ Used(Target(at)) # {}
        /\ at' = Under[Target(at)][Prefix(n)] /\ path' = RestAfter(n)
    BY <1>4 DEF Descend
  <2> HIDE DEF n
  <2>2. CASE at = item /\ path = wanted
    <3>1. Target(at) = item /\ Prefix(n) = field /\ RestAfter(n) = name
      BY <1>1, <2>2, LooksType, FieldFirst DEF n
    <3>2. at' = map /\ path' = name
      BY <1>2, <2>1, <3>1, Zenon
    <3> QED
      BY <2>1, <3>2 DEF Passes
  <2>3. CASE at = map /\ path = name
    <3>1. /\ Target(at) = map /\ Prefix(n) \in DOMAIN Under[map]
          /\ Alone(map, name) => Prefix(n) = name /\ RestAfter(n) = <<>>
          /\ ~Alone(map, name) => RestAfter(n) # <<>>
      BY <1>1, <2>3, NameNext DEF n
    <3>2. at' = Under[map][Prefix(n)] /\ at' \in Values /\ Kind[at'] = "leaf"
      BY <1>2, <2>1, <3>1
    <3>3. CASE Alone(map, name)
      <4>1. at' = Under[map][name] /\ path' = <<>>
        BY <2>1, <3>1, <3>2, <3>3
      <4> QED
        BY <1>3, <2>1, <3>3, <4>1 DEF Passes
    <3>4. CASE ~Alone(map, name)
      BY <1>3, <2>1, <3>1, <3>2, <3>4 DEF Passes
    <3> QED
      BY <3>3, <3>4
  <2>4. CASE Kind[at] = "leaf" /\ at \in Values
    <3>1. Target(at) = at /\ DOMAIN Under[at] = {}
      BY <2>4, DeepGetAssumption DEF Target
    <3>2. Used(at) = {}
      BY <3>1 DEF Used
    <3> QED
      BY <2>1, <3>1, <3>2
  <2> QED
    BY <2>1, <2>2, <2>3, <2>4 DEF Passes
<1>5. CASE DeadEnd
  <2>1. /\ got = "looking" /\ got' = "nothing" /\ path # <<>>
        /\ (Kind[Target(at)] = "pointer" \/ Used(Target(at)) = {})
    BY <1>5 DEF DeadEnd
  <2>2. CASE at = item /\ path = wanted
    BY <1>1, <2>1, <2>2, FieldFirst
  <2>3. CASE at = map /\ path = name
    BY <1>1, <2>1, <2>3, NameNext
  <2>4. CASE ~Alone(map, name)
    BY <1>3, <2>1, <2>4 DEF Passes
  <2> QED
    BY <2>1, <2>2, <2>3, <2>4 DEF Passes
<1>6. CASE Arrive
  <2>1. got = "looking" /\ got' = "value" /\ path = <<>> /\ at' = at /\ path' = path
    BY <1>6 DEF Arrive
  <2>2. CASE at = item /\ path = wanted
    BY <1>1, <2>1, <2>2, FieldFirst
  <2>3. CASE at = map /\ path = name
    BY <1>1, <2>1, <2>3, NameNext
  <2>4. CASE Alone(map, name) /\ at = Under[map][name]
    BY <1>3, <2>1, <2>4 DEF Passes
  <2> QED
    BY <2>1, <2>2, <2>3, <2>4 DEF Passes
<1>7. CASE UNCHANGED deepVars
  BY <1>3, <1>7 DEF deepVars, Passes
<1> QED
  BY <1>4, <1>5, <1>6, <1>7 DEF DeepNext

LEMMA LookupInvariant ==
  DeepSpec => [](DeepInv /\ LookupSoFar)
<1>1. DeepInit => LookupSoFar
  BY DEF DeepInit, LookupSoFar, Passes
<1>2. ASSUME DeepInv, LookupSoFar, [DeepNext]_deepVars
      PROVE  LookupSoFar'
  <2>1. item' = item /\ wanted' = wanted
    BY <1>2 DEF DeepNext, Descend, DeadEnd, Arrive, deepVars
  <2>2. ASSUME NEW field, NEW name, Looks(field, name)'
        PROVE  Passes(Under[item][field], name)'
    <3>1. Looks(field, name)
      BY <2>1, <2>2 DEF Looks
    <3>2. PICK map : map = Under[item][field]
      OBVIOUS
    <3>3. Passes(map, name)
      BY <1>2, <3>1, <3>2, Zenon DEF LookupSoFar
    <3>4. Passes(map, name)'
      BY <1>2, <3>1, <3>2, <3>3, PassesOn
    <3> QED
      BY <2>1, <3>2, <3>4
  <2> QED
    BY <2>2 DEF LookupSoFar
<1>3. DeepInv /\ [DeepNext]_deepVars => DeepInv'
  BY DescendInv, DeadEndInv, ArriveInv, DeepStutterInv DEF DeepNext
<1> QED
  BY <1>1, <1>2, <1>3, DeepInitInv, PTL DEF DeepSpec

\* The value of a label is found by its name if and only if no other name of the map
\* continues in it, whatever labels a container has.
THEOREM LabelsFoundByName == DeepSpec => []LabelsFound
<1>1. ASSUME LookupSoFar
      PROVE  LabelsFound
  <2>1. ASSUME NEW field \in DOMAIN Under[item], Kind[item] = "struct",
               Kind[Under[item][field]] = "map",
               \A key \in DOMAIN Under[Under[item][field]] :
                 Kind[Under[Under[item][field]][key]] = "leaf",
               NEW name \in DOMAIN Under[Under[item][field]],
               got # "looking", wanted = field \o name
        PROVE  (got = "value" /\ at = Under[Under[item][field]][name])
                 <=> Alone(Under[item][field], name)
    <3>1. Looks(field, name)
      BY <2>1 DEF Looks, Joined
    <3>2. Passes(Under[item][field], name)
      BY <1>1, <3>1 DEF LookupSoFar
    <3> QED
      BY <2>1, <3>2 DEF Passes
  <2> QED
    BY <2>1 DEF LabelsFound, Alone
<1> QED
  BY <1>1, LookupInvariant, PTL
===============================================================================
