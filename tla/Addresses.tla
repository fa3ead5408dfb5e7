------------------------------ MODULE Addresses ------------------------------
(***************************************************************************)
(* GetContainerAddresses (internal/context/address.go): the addresses of a *)
(* container, from two maps which Go ranges over in any order.             *)
(***************************************************************************)
EXTENDS Integers, Sequences, FiniteSets

CONSTANTS
  Ports,        \* the keys of the maps, records of a port and a protocol
  Bindings,     \* host port and host IP
  Unbound       \* no binding

\* The protocols stand in the order of their names, which are numbered.
ASSUME AddressAssumption ==
  /\ Ports \subseteq [port : Nat, proto : Nat]
  /\ Unbound \notin Bindings

VARIABLES
  published,    \* NetworkSettings.Ports: the bindings of each published port
  exposed,      \* Config.ExposedPorts
  todo,         \* the keys that have not come up yet in the map
  source,       \* the map, "sort" after both of them, "done" at the end
  addresses     \* the result, [at, binding] for each port

addressVars == <<published, exposed, todo, source, addresses>>

\* Two bindings at most (docker has one for IPv4 and one for IPv6).
AddressInit ==
  /\ published \in UNION {[S -> UNION {[1..n -> Bindings] : n \in 0..2}] :
                            S \in SUBSET Ports}
  /\ exposed \in SUBSET Ports
  /\ todo = DOMAIN published
  /\ source = "published"
  /\ addresses = <<>>

\* Mutant of FirstBinding: the last one.
LastBinding(p) ==
  IF published[p] = <<>> THEN Unbound ELSE published[p][Len(published[p])]

\* Only the first binding of a port is kept.
FirstBinding(p) == IF published[p] = <<>> THEN Unbound ELSE Head(published[p])

\* renderAddress, for a key of the map.
Render ==
  /\ \E p \in todo :
       /\ todo' = todo \ {p}
       /\ addresses' = Append(addresses,
            [at |-> p,
             binding |-> IF source = "published" THEN FirstBinding(p) ELSE Unbound])
  /\ UNCHANGED <<published, exposed, source>>

\* Without a published port the exposed ones are taken.
NextMap ==
  /\ todo = {}
  /\ \/ /\ source = "published" /\ addresses = <<>>
        /\ source' = "exposed" /\ todo' = exposed
     \/ /\ \/ source = "published" /\ addresses # <<>>
           \/ source = "exposed"
        /\ source' = "sort" /\ UNCHANGED todo
  /\ UNCHANGED <<published, exposed, addresses>>

\* Mutant of Earlier: the protocol does not count.
EarlierPort(a, b) == a.at.port < b.at.port

\* Port and protocol.  They differ in any two keys of one map, so that the host
\* port, the host IP and the IP, which are compared next, never decide.
Earlier(a, b) ==
  \/ a.at.port < b.at.port
  \/ a.at.port = b.at.port /\ a.at.proto < b.at.proto

\* sort.Slice is not stable: any arrangement without a descent may come out.
SortAddresses ==
  /\ source = "sort"
  /\ LET n == Len(addresses) IN
     \E f \in [1..n -> 1..n] :
       /\ \A j, k \in 1..n : f[j] = f[k] => j = k
       /\ \A j \in 2..n : ~Earlier(addresses[f[j]], addresses[f[j - 1]])
       /\ addresses' = [j \in 1..n |-> addresses[f[j]]]
  /\ source' = "done"
  /\ UNCHANGED <<published, exposed, todo>>

AddressNext == Render \/ NextMap \/ SortAddresses

AddressSpec == AddressInit /\ [][AddressNext]_addressVars

-------------------------------------------------------------------------------
(* Properties.                                                             *)

\* The same container is always rendered with its addresses in the same order,
\* by port and then by protocol ("Addresses are sorted by port (compared
\* numerically), then by protocol", README.md), in whatever order the maps are
\* walked through: a template's output does not change by itself.
AddressOrderFixed ==
  source = "done" =>
    \A j, k \in DOMAIN addresses : j < k =>
      LET p == addresses[j].at
          q == addresses[k].at
      IN  p.port < q.port \/ (p.port = q.port /\ p.proto < q.proto)

\* Each published port is there with its first binding; or each exposed one, if
\* none is published.
AddressesExact ==
  source = "done" =>
    {addresses[j] : j \in DOMAIN addresses} =
      IF DOMAIN published # {}
      THEN {[at |-> p,
             binding |-> IF published[p] = <<>> THEN Unbound ELSE published[p][1]] :
               p \in DOMAIN published}
      ELSE {[at |-> p, binding |-> Unbound] : p \in exposed}
===============================================================================
