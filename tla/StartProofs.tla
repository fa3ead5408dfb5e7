------------------------------ MODULE StartProofs ------------------------------
(***************************************************************************)
(* Theorems about what docker-gen computes when it starts, for any files   *)
(* of /proc and any arguments: ContainerID and ContainerFilter.            *)
(***************************************************************************)
EXTENDS ContainerID, ContainerFilter, Integers, WellFoundedInduction, TLAPS

-------------------------------------------------------------------------------
(* ContainerID                                                             *)

IDTypeOK ==
  /\ named \in {{}, {OwnID}} /\ files \in FileLists
  /\ matcher \in {"hostname", "any", "done"}
  /\ file \in Nat \ {0} /\ line \in Nat \ {0}
  /\ id \in IDs \cup {EmptyID}

\* The lines before the one that is read next could be read.
ReadSoFar ==
  file <= Len(files) => \A m \in 1..(line - 1) : m \in Readable(files[file])

\* The IDs that this pass over the files looks for.
LookedFor == IF matcher = "hostname" THEN named ELSE IDs

\* None of them is offered in a line that this pass has been over.
NoneSoFar ==
  matcher # "done" =>
    /\ id = EmptyID
    /\ \A f \in DOMAIN files : \A n \in Readable(files[f]) :
         f < file \/ (f = file /\ n < line)
           => OfferedIn(files[f][n]) \cap LookedFor = {}

\* The second pass is only made if the first has found nothing.
FirstPassDone == matcher = "any" => named \cap Offered = {}

IDInv ==
  /\ IDTypeOK /\ ReadSoFar /\ NoneSoFar /\ FirstPassDone
  /\ HostnameWins /\ NeverALayer

\* A set of natural numbers that has one has a least one.
LEMMA Least ==
  ASSUME NEW S, S \subseteq Nat, S # {}
  PROVE  \E n \in S : \A m \in S : n <= m
<1> DEFINE R == OpToRel(<, Nat)
<1>1. \A m, n \in Nat : m < n => <<m, n>> \in R
  BY DEF OpToRel
<1>2. IsWellFoundedOn(R, Nat)
  BY NatLessThanWellFounded
<1> HIDE DEF R
<1>3. PICK n \in S : \A m \in S : ~(<<m, n>> \in R)
  BY <1>2, WFMin
<1>4. ASSUME NEW m \in S
      PROVE  n <= m
  <2>1. m \in Nat /\ n \in Nat
    OBVIOUS
  <2>2. ~(m < n)
    BY <1>1, <1>3, <2>1
  <2> QED
    BY <2>1, <2>2
<1> QED
  BY <1>4

\* What a line has in its places.
LEMMA InTheLine ==
  ASSUME NEW l \in Lines
  PROVE  /\ DOMAIN l.ids \subseteq Nat
         /\ \A n \in DOMAIN l.ids : /\ l.ids[n].id \in IDs
                                   /\ l.ids[n].anchor \in {"containers", "file", "none"}
<1> DEFINE ids == l.ids
           Parts == [id : IDs, anchor : Anchors]
<1>1. ids \in Seq(Parts)
  BY DEF Lines
<1> HIDE DEF ids, Parts
<1>2. DOMAIN ids \subseteq Nat /\ \A n \in DOMAIN ids : ids[n] \in Parts
  BY <1>1
<1>3. \A p \in Parts : p.id \in IDs /\ p.anchor \in {"containers", "file", "none"}
  BY DEF Parts, Anchors
<1> QED
  BY <1>2, <1>3 DEF ids

\* What the matcher may match in a line are the IDs looked for that it offers.
LEMMA CandidatesOffered ==
  ASSUME NEW l \in Lines
  PROVE  /\ Candidates(l) \subseteq DOMAIN l.ids
         /\ \A n \in Candidates(l) : l.ids[n].id \in OfferedIn(l) \cap LookedFor
         /\ Candidates(l) = {} => OfferedIn(l) \cap LookedFor = {}
<1>1. l.mount \in BOOLEAN /\ l.ids \in Seq([id : IDs, anchor : Anchors])
  BY DEF Lines
<1>2. \A n \in DOMAIN l.ids : l.ids[n].anchor \in {"containers", "file", "none"}
  BY InTheLine
<1>3. Accepted(l.ids) = LookedFor
  BY DEF Accepted, LookedFor
<1>4. CASE ~l.mount
  BY <1>3, <1>4 DEF Candidates, OfferedIn
<1>5. CASE l.mount
  BY <1>2, <1>3, <1>5 DEF Candidates, OfferedIn
<1> QED
  BY <1>1, <1>4, <1>5

LEMMA IDInitial == IDInit => IDInv
<1> SUFFICES ASSUME IDInit
             PROVE  IDInv
  OBVIOUS
<1> USE DEF IDInit
<1>1. IDTypeOK /\ ReadSoFar /\ FirstPassDone /\ HostnameWins /\ NeverALayer
  BY DEF IDTypeOK, ReadSoFar, FirstPassDone, HostnameWins, NeverALayer
<1>2. NoneSoFar
  <2>1. \A f \in DOMAIN files : f \in Nat \ {0} /\ files[f] \in Seq(Lines \cup {TooLong})
    BY ContainerIDAssumption
  <2>2. \A f \in DOMAIN files : \A n \in Readable(files[f]) : ~(f < file \/ (f = file /\ n < line))
    BY <2>1 DEF Readable
  <2> QED
    BY <2>2 DEF NoneSoFar
<1> QED
  BY <1>1, <1>2 DEF IDInv

LEMMA IDNextStep == IDInv /\ [IDNext]_idVars => IDInv'
<1> SUFFICES ASSUME IDInv, [IDNext]_idVars
             PROVE  IDInv'
  OBVIOUS
<1> USE DEF IDInv
<1>1. /\ Len(files) \in Nat /\ DOMAIN files = 1..Len(files)
      /\ \A f \in DOMAIN files : /\ files[f] \in Seq(Lines \cup {TooLong})
                                /\ Len(files[f]) \in Nat
                                /\ DOMAIN files[f] = 1..Len(files[f])
  BY ContainerIDAssumption DEF IDTypeOK
<1>2. \A f \in DOMAIN files : \A n \in Readable(files[f]) : files[f][n] \in Lines
  BY <1>1 DEF Readable
<1>3. Offered \subseteq IDs
  <2>1. \A l \in Lines : OfferedIn(l) \subseteq IDs
    BY InTheLine DEF OfferedIn
  <2> QED
    BY <1>2, <2>1 DEF Offered
<1>4. CASE ReadLine
  <2> DEFINE l == files[file][line]
             places == Candidates(l)
  <2>1. /\ file \in DOMAIN files /\ line \in DOMAIN files[file] /\ l # TooLong
        /\ matcher \in {"hostname", "any"} /\ id = EmptyID
        /\ named' = named /\ files' = files /\ file' = file
    BY <1>1, <1>4 DEF ReadLine, HasLine, IDTypeOK, NoneSoFar
  <2>2. line \in Readable(files[file])
    <3>1. \A m \in 1..line : m \in 1..(line - 1) \/ m = line
      BY DEF IDTypeOK
    <3>2. \A m \in 1..(line - 1) : files[file][m] # TooLong
      BY <1>1, <2>1 DEF ReadSoFar, Readable, IDTypeOK
    <3> QED
      BY <2>1, <3>1, <3>2 DEF Readable
  <2>3. /\ places \subseteq DOMAIN l.ids
        /\ \A n \in places : l.ids[n].id \in OfferedIn(l) \cap LookedFor
        /\ places = {} => OfferedIn(l) \cap LookedFor = {}
    BY <1>2, <2>1, <2>2, CandidatesOffered
  <2>4. Offered' = Offered
    BY <2>1 DEF Offered, Readable, OfferedIn
  <2>5. CASE places = {}
    <3>1. line' = line + 1 /\ matcher' = matcher /\ id' = id
      BY <1>4, <2>5 DEF ReadLine
    <3>2. IDTypeOK'
      BY <2>1, <3>1 DEF IDTypeOK
    <3>3. ReadSoFar'
      <4>1. \A m \in 1..line : m \in 1..(line - 1) \/ m = line
        BY DEF IDTypeOK
      <4>2. \A m \in 1..line : m \in Readable(files[file])
        BY <1>1, <2>1, <2>2, <4>1 DEF ReadSoFar
      <4> QED
        BY <2>1, <3>1, <4>2 DEF ReadSoFar, Readable, IDTypeOK
    <3>4. NoneSoFar'
      <4>1. LookedFor' = LookedFor
        BY <2>1, <3>1 DEF LookedFor
      <4>2. ASSUME NEW f \in DOMAIN files, NEW n \in Readable(files[f]),
                   f < file \/ (f = file /\ n < line + 1)
            PROVE  OfferedIn(files[f][n]) \cap LookedFor = {}
        <5>1. n \in Nat
          BY <1>1 DEF Readable
        <5>2. f < file \/ (f = file /\ n < line) \/ (f = file /\ n = line)
          BY <4>2, <5>1 DEF IDTypeOK
        <5> QED
          BY <2>1, <2>3, <2>5, <5>2 DEF NoneSoFar
      <4> QED
        BY <2>1, <3>1, <4>1, <4>2 DEF NoneSoFar, OfferedIn, Readable
    <3>5. FirstPassDone'
      BY <2>1, <2>4, <3>1 DEF FirstPassDone
    <3>6. HostnameWins' /\ NeverALayer'
      BY <2>1, <3>1 DEF HostnameWins, NeverALayer
    <3> QED
      BY <3>2, <3>3, <3>4, <3>5, <3>6
  <2>6. CASE places # {}
    <3> DEFINE first == CHOOSE n \in places : \A m \in places : n <= m
    <3>1. first \in places
      <4>1. places \subseteq Nat
        BY <1>2, <2>1, <2>2, <2>3, InTheLine
      <4> HIDE DEF places
      <4> QED
        BY <2>6, <4>1, Least
    <3>2. matcher' = "done" /\ line' = line /\ id' = l.ids[first].id
      BY <1>4, <2>6 DEF ReadLine
    <3>3. id' \in OfferedIn(l) /\ id' \in LookedFor
      BY <2>3, <3>1, <3>2
    <3>4. id' \in Offered
      BY <2>1, <2>2, <3>3 DEF Offered
    <3>5. IDTypeOK'
      BY <1>3, <2>1, <3>2, <3>4 DEF IDTypeOK
    <3>6. ReadSoFar' /\ NoneSoFar' /\ FirstPassDone'
      BY <2>1, <3>2 DEF ReadSoFar, NoneSoFar, FirstPassDone, Readable
    <3>7. HostnameWins'
      <4>1. matcher = "hostname" => id' \in named /\ (named = {} \/ named = {OwnID})
        BY <3>3 DEF LookedFor, IDTypeOK
      <4>2. matcher = "any" => named \cap Offered = {}
        BY DEF FirstPassDone
      <4> QED
        BY <2>1, <2>4, <4>1, <4>2 DEF HostnameWins
    <3>8. NeverALayer'
      BY <2>4, <3>4 DEF NeverALayer
    <3> QED
      BY <3>5, <3>6, <3>7, <3>8
  <2> QED
    BY <2>5, <2>6
<1>5. CASE NextFile
  <2>1. /\ file \in DOMAIN files /\ ~HasLine /\ file' = file + 1 /\ line' = 1
        /\ named' = named /\ files' = files /\ matcher' = matcher /\ id' = id
    BY <1>1, <1>5 DEF NextFile, IDTypeOK
  <2>2. Offered' = Offered
    BY <2>1 DEF Offered, Readable, OfferedIn
  <2>3. \A n \in Readable(files[file]) : n < line
    <3>1. \A n \in Readable(files[file]) :
            n \in 1..Len(files[file]) /\ \A m \in 1..n : files[file][m] # TooLong
      BY <1>1, <2>1 DEF Readable
    <3> QED
      BY <1>1, <2>1, <3>1 DEF HasLine, IDTypeOK
  <2>4. IDTypeOK'
    BY <2>1 DEF IDTypeOK
  <2>5. ReadSoFar'
    BY <2>1 DEF ReadSoFar
  <2>6. NoneSoFar'
    <3>1. LookedFor' = LookedFor
      BY <2>1 DEF LookedFor
    <3>2. ASSUME NEW f \in DOMAIN files, NEW n \in Readable(files[f]),
                 f < file + 1 \/ (f = file + 1 /\ n < 1), matcher # "done"
          PROVE  OfferedIn(files[f][n]) \cap LookedFor = {}
      <4>1. f \in Nat /\ n \in Nat /\ n >= 1
        BY <1>1 DEF Readable
      <4>2. f < file \/ f = file
        BY <3>2, <4>1 DEF IDTypeOK
      <4> QED
        BY <2>3, <3>2, <4>2 DEF NoneSoFar
    <3> QED
      BY <2>1, <3>1, <3>2 DEF NoneSoFar, OfferedIn, Readable
  <2>7. FirstPassDone' /\ HostnameWins' /\ NeverALayer'
    BY <2>1, <2>2 DEF FirstPassDone, HostnameWins, NeverALayer
  <2> QED
    BY <2>4, <2>5, <2>6, <2>7
<1>6. CASE NextMatcher
  <2>1. /\ matcher \in {"hostname", "any"} /\ file > Len(files)
        /\ named' = named /\ files' = files /\ id' = id /\ line' = 1
        /\ matcher = "hostname" => matcher' = "any" /\ file' = 1
        /\ matcher = "any" => matcher' = "done" /\ file' = file
    BY <1>6 DEF NextMatcher, IDTypeOK
  <2>2. Offered' = Offered
    BY <2>1 DEF Offered, Readable, OfferedIn
  <2>3. Offered \cap LookedFor = {}
    <3>1. \A f \in DOMAIN files : f < file
      BY <1>1, <2>1 DEF IDTypeOK
    <3>2. \A f \in DOMAIN files : \A n \in Readable(files[f]) :
            OfferedIn(files[f][n]) \cap LookedFor = {}
      BY <2>1, <3>1 DEF NoneSoFar
    <3> QED
      BY <3>2 DEF Offered
  <2>4. IDTypeOK' /\ ReadSoFar'
    BY <2>1 DEF IDTypeOK, ReadSoFar
  <2>5. NoneSoFar'
    <3>1. \A f \in DOMAIN files : \A n \in Readable(files[f]) :
            ~(f < 1 \/ (f = 1 /\ n < 1))
      BY <1>1 DEF Readable
    <3>2. id = EmptyID
      BY <2>1 DEF NoneSoFar
    <3> QED
      BY <2>1, <3>1, <3>2 DEF NoneSoFar, Readable
  <2>6. FirstPassDone'
    BY <2>1, <2>2, <2>3 DEF FirstPassDone, LookedFor
  <2>7. matcher = "any" => Offered = {} /\ id = EmptyID
    BY <1>3, <2>1, <2>3 DEF LookedFor, NoneSoFar
  <2>8. HostnameWins' /\ NeverALayer'
    BY <2>1, <2>2, <2>7 DEF HostnameWins, NeverALayer
  <2> QED
    BY <2>4, <2>5, <2>6, <2>8
<1>7. CASE UNCHANGED idVars
  <2>1. /\ named' = named /\ files' = files /\ matcher' = matcher
        /\ file' = file /\ line' = line /\ id' = id
    BY <1>7 DEF idVars
  <2>2. Offered' = Offered /\ LookedFor' = LookedFor
    BY <2>1 DEF Offered, LookedFor, Readable, OfferedIn
  <2>3. IDTypeOK' /\ ReadSoFar'
    BY <2>1 DEF IDTypeOK, ReadSoFar, Readable
  <2>4. NoneSoFar'
    BY <2>1, <2>2 DEF NoneSoFar, Readable, OfferedIn
  <2>5. FirstPassDone' /\ HostnameWins' /\ NeverALayer'
    BY <2>1, <2>2 DEF FirstPassDone, HostnameWins, NeverALayer
  <2> QED
    BY <2>3, <2>4, <2>5
<1> QED
  BY <1>4, <1>5, <1>6, <1>7 DEF IDNext

LEMMA IDInvariant == IDSpec => []IDInv
BY IDInitial, IDNextStep, PTL DEF IDSpec

\* Where the search is and what it may have found.
THEOREM IDTypeCorrect == IDSpec => []IDTypeOK
<1>1. IDInv => IDTypeOK
  BY DEF IDInv
<1> QED
  BY <1>1, IDInvariant, PTL

\* An ID that begins with HOSTNAME goes before all others, in any files: when the
\* second pass begins, no line that can be read offers one.
THEOREM HostnameFirst == IDSpec => []HostnameWins
<1>1. IDInv => HostnameWins
  BY DEF IDInv
<1> QED
  BY <1>1, IDInvariant, PTL

\* The ID that is found is one that a line offers for a container, and there is one
\* if any line does.
THEOREM ContainerFound == IDSpec => []NeverALayer
<1>1. IDInv => NeverALayer
  BY DEF IDInv
<1> QED
  BY <1>1, IDInvariant, PTL
-------------------------------------------------------------------------------
(* ContainerFilter                                                         *)

FilterTypeOK ==
  /\ args \in ArgLists /\ environment \in ArgLists
  /\ options \subseteq {"include-stopped", "only-exposed", "only-published"}
  /\ parsed \in {"flags", "environment", "done"}
  /\ nextArg \in 1..(Len(GivenArgs) + 1)
  /\ DOMAIN filter = FilterNames
  /\ \A name \in FilterNames : filter[name] \subseteq FilterValues(name) \cup {AllPorts}

\* What the first m arguments of a list ask for under a name.
Collected(list, m, name) ==
  {list[n].value : n \in {k \in 1..m : list[k] # Malformed /\ list[k].name = name}}

\* Nothing but malformed arguments.
NothingIn(list) == \A n \in 1..Len(list) : list[n] = Malformed

\* The map has what the arguments parsed so far ask for; those of the variable are
\* only parsed if the flags ask for nothing.
CollectedSoFar ==
  /\ parsed = "flags" =>
       \A name \in FilterNames : filter[name] = Collected(args, nextArg - 1, name)
  /\ parsed = "environment" =>
       IF NothingIn(args)
       THEN \A name \in FilterNames :
              filter[name] = Collected(environment, nextArg - 1, name)
       ELSE /\ nextArg = Len(environment) + 1
            /\ \A name \in FilterNames : filter[name] = Collected(args, Len(args), name)

FilterInv == FilterTypeOK /\ CollectedSoFar /\ ListsAsDocumented

\* What an argument is.
LEMMA ArgumentType ==
  ASSUME NEW list \in ArgLists
  PROVE  /\ Len(list) \in Nat /\ DOMAIN list = 1..Len(list)
         /\ \A n \in 1..Len(list) : list[n] # Malformed =>
              /\ list[n].name \in FilterNames
              /\ list[n].value \in FilterValues(list[n].name)
<1>1. list \in Seq(Filters \cup {Malformed})
  BY FilterAssumption
<1>2. \A arg \in Filters : arg.name \in FilterNames /\ arg.value \in FilterValues(arg.name)
  BY DEF Filters
<1> QED
  BY <1>1, <1>2

\* One more argument.
LEMMA CollectNext ==
  ASSUME NEW list \in ArgLists, NEW m \in Nat, NEW name
  PROVE  Collected(list, m + 1, name)
           = IF list[m + 1] = Malformed \/ list[m + 1].name # name
             THEN Collected(list, m, name)
             ELSE Collected(list, m, name) \cup {list[m + 1].value}
<1>1. \A n : n \in 1..(m + 1) <=> n \in 1..m \/ n = m + 1
  OBVIOUS
<1> QED
  BY <1>1 DEF Collected

\* Nothing is collected from a list if and only if it is all malformed.
LEMMA NothingCollected ==
  ASSUME NEW list \in ArgLists
  PROVE  NothingIn(list) <=> \A name \in FilterNames : Collected(list, Len(list), name) = {}
<1>1. ASSUME NothingIn(list), NEW name
      PROVE  Collected(list, Len(list), name) = {}
  BY <1>1 DEF NothingIn, Collected
<1>2. ASSUME NEW n \in 1..Len(list), list[n] # Malformed
      PROVE  list[n].value \in Collected(list, Len(list), list[n].name)
  BY <1>2 DEF Collected
<1>3. ASSUME NEW n \in 1..Len(list), list[n] # Malformed
      PROVE  list[n].name \in FilterNames
  BY <1>3, ArgumentType
<1>4. ASSUME ~NothingIn(list)
      PROVE  \E name \in FilterNames : Collected(list, Len(list), name) # {}
  <2>1. PICK n \in 1..Len(list) : list[n] # Malformed
    BY <1>4 DEF NothingIn
  <2>2. /\ list[n].name \in FilterNames
        /\ Collected(list, Len(list), list[n].name) # {}
    BY <1>2, <1>3, <2>1
  <2> QED
    BY <2>2
<1> QED
  BY <1>1, <1>4

\* What the user has asked for, in these terms.
LEMMA AskedCollected ==
  ASSUME FilterTypeOK, NEW name
  PROVE  Asked(name) = IF NothingIn(args) THEN Collected(environment, Len(environment), name)
                       ELSE Collected(args, Len(args), name)
<1>1. /\ DOMAIN args = 1..Len(args) /\ Len(args) \in Nat
      /\ DOMAIN environment = 1..Len(environment) /\ Len(environment) \in Nat
  BY ArgumentType DEF FilterTypeOK
<1> QED
  BY <1>1 DEF Asked, Collected, NothingIn

\* The values asked for are of the right kind.
LEMMA CollectedType ==
  ASSUME NEW list \in ArgLists, NEW m \in 0..Len(list), NEW name \in FilterNames
  PROVE  Collected(list, m, name) \subseteq FilterValues(name)
BY ArgumentType DEF Collected

\* The defaults that main puts into the map make the daemon list what the usage text
\* describes, where the filters are undisputed.  Then a value under a name is the
\* only one, so that one that fits is all that fit.
LEMMA DefaultsDocumented ==
  ASSUME DOMAIN filter = FilterNames,
         \A name \in FilterNames : /\ filter[name] = Asked(name)
                                   /\ Asked(name) \subseteq FilterValues(name),
         Undisputed, Defaults, NEW c \in FilteredContainers
  PROVE  Listed(c)' <=> DocumentedContainer(c)
<1> DEFINE f == filter'
           Allowed(name) == f[name] # {} => \E value \in f[name] : Fits(c, name, value)
           Wanted(name) == \A value \in Asked(name) : Fits(c, name, value)
<1>1. /\ c.status \in Statuses /\ c.publish \subseteq c.expose
      /\ c.publish \subseteq PortNumbers /\ c.expose \subseteq PortNumbers
  BY DEF FilteredContainers
<1>2. Asked("publish") \subseteq PortNumbers /\ Asked("expose") \subseteq PortNumbers
  BY DEF FilterNames, KnownNames, FilterValues
<1>3. /\ f["status"] = IF Asked("status") # {} THEN Asked("status")
                       ELSE IF "include-stopped" \in options THEN Statuses
                       ELSE {"running"}
      /\ f["label"] = Asked("label")
      /\ f["publish"] = IF "only-published" \in options /\ Asked("publish") = {}
                        THEN {AllPorts} ELSE Asked("publish")
      /\ f["expose"] = IF /\ ~("only-published" \in options /\ Asked("publish") = {})
                          /\ "only-exposed" \in options /\ Asked("expose") = {}
                       THEN {AllPorts} ELSE Asked("expose")
      /\ f["published"] = Asked("published") /\ f["exposed"] = Asked("exposed")
  BY DEF Defaults, PortDefaults, FilterNames, KnownNames
<1>4. Asked("published") = {} /\ Asked("exposed") = {}
  BY DEF Undisputed, FilterNames, KnownNames
<1>5. Listed(c)' <=> /\ Wanted("label")
                     /\ Allowed("status") /\ Allowed("publish") /\ Allowed("expose")
  <2>1. \A name \in FilterNames \ KnownNames : f[name] = {}
    BY <1>3, <1>4 DEF FilterNames, KnownNames
  <2>2. (\A name \in KnownNames \ {"label"} : Allowed(name))
          <=> Allowed("status") /\ Allowed("publish") /\ Allowed("expose")
    BY DEF KnownNames
  <2>3. Listed(c)' <=> /\ \A name \in FilterNames \ KnownNames : f[name] = {}
                       /\ \A value \in f["label"] : Fits(c, "label", value)
                       /\ \A name \in KnownNames \ {"label"} : Allowed(name)
    BY DEF Listed, Fits
  <2> HIDE DEF Allowed, f
  <2> QED
    BY <1>3, <2>1, <2>2, <2>3
<1> HIDE DEF f
<1>6. FitsAll(c)
        <=> Wanted("status") /\ Wanted("label") /\ Wanted("publish") /\ Wanted("expose")
  BY DEF FitsAll, KnownNames
<1>7. ASSUME NEW name \in KnownNames \ {"label"}, Asked(name) # {}
      PROVE  Wanted(name) <=> \E value \in Asked(name) : Fits(c, name, value)
  <2>1. \A v, w \in Asked(name) : v = w
    BY <1>7 DEF Undisputed
  <2> QED
    BY <1>7, <2>1
<1>8. Allowed("status")
        <=> /\ Wanted("status")
            /\ Asked("status") = {} /\ "include-stopped" \notin options
                 => c.status = "running"
  <2>1. CASE Asked("status") # {}
    <3>1. f["status"] = Asked("status")
      BY <1>3, <2>1
    <3>2. "status" \in KnownNames \ {"label"}
      BY DEF KnownNames
    <3> QED
      BY <1>7, <2>1, <3>1, <3>2
  <2>2. CASE Asked("status") = {}
    BY <1>1, <1>3, <2>2 DEF Fits
  <2> QED
    BY <2>1, <2>2
<1>9. \A name \in {"publish", "expose"} : \A value :
        Fits(c, name, value) <=> IF value = AllPorts THEN c[name] # {}
                                 ELSE value \in c[name]
  BY DEF Fits
<1>10. /\ "publish" \in KnownNames \ {"label"} /\ "expose" \in KnownNames \ {"label"}
       /\ AllPorts \notin PortNumbers
  BY FilterAssumption DEF KnownNames
<1>11. Allowed("publish")
         <=> Wanted("publish") /\ ("only-published" \in options => c.publish # {})
  <2>1. CASE Asked("publish") # {}
    <3>1. f["publish"] = Asked("publish")
      BY <1>3, <2>1
    <3>2. Wanted("publish") => c.publish # {}
      BY <1>2, <1>9, <1>10, <2>1
    <3> QED
      BY <1>7, <1>10, <2>1, <3>1, <3>2
  <2>2. CASE Asked("publish") = {}
    BY <1>3, <1>9, <2>2
  <2> QED
    BY <2>1, <2>2
<1>12. Allowed("publish") =>
         (Allowed("expose")
            <=> /\ Wanted("expose")
                /\ options \cap {"only-exposed", "only-published"} # {} => c.expose # {})
  <2>1. Allowed("publish") /\ "only-published" \in options => c.expose # {}
    BY <1>1, <1>11
  <2>2. CASE Asked("expose") # {}
    <3>1. f["expose"] = Asked("expose")
      BY <1>3, <2>2
    <3>2. Wanted("expose") => c.expose # {}
      BY <1>2, <1>9, <1>10, <2>2
    <3> QED
      BY <1>7, <1>10, <2>2, <3>1, <3>2
  <2>3. CASE Asked("expose") = {} /\ f["expose"] = {AllPorts}
    <3>1. "only-exposed" \in options
      BY <1>3, <2>3
    <3> QED
      BY <1>9, <2>3, <3>1
  <2>4. CASE Asked("expose") = {} /\ f["expose"] = {}
    <3>1. "only-exposed" \notin options \/ "only-published" \in options
      BY <1>3, <2>4
    <3> QED
      BY <2>1, <2>4, <3>1
  <2> QED
    BY <1>3, <2>2, <2>3, <2>4
<1> HIDE DEF Allowed, Wanted
<1> QED
  BY <1>4, <1>5, <1>6, <1>8, <1>11, <1>12 DEF DocumentedContainer

LEMMA FilterInitial == FilterInit => FilterInv
<1> SUFFICES ASSUME FilterInit
             PROVE  FilterInv
  OBVIOUS
<1> USE DEF FilterInit
<1>1. FilterTypeOK
  BY ArgumentType DEF FilterTypeOK, GivenArgs
<1>2. CollectedSoFar
  BY DEF CollectedSoFar, Collected
<1>3. ListsAsDocumented
  BY DEF ListsAsDocumented
<1> QED
  BY <1>1, <1>2, <1>3 DEF FilterInv

LEMMA FilterNextStep == FilterInv /\ [FilterNext]_filterVars => FilterInv'
<1> SUFFICES ASSUME FilterInv, [FilterNext]_filterVars
             PROVE  FilterInv'
  OBVIOUS
<1> USE DEF FilterInv
<1>1. Len(args) \in Nat /\ Len(environment) \in Nat /\ nextArg \in Nat \ {0}
  BY ArgumentType DEF FilterTypeOK
<1>2. CASE Set
  <2> DEFINE arg == GivenArgs[nextArg]
             \* what it adds under a name
             Added(name) == IF arg = Malformed \/ arg.name # name THEN {} ELSE {arg.value}
  <2>1. /\ args' = args /\ environment' = environment /\ options' = options
        /\ parsed' = parsed /\ parsed \in {"flags", "environment"}
        /\ nextArg' = nextArg + 1 /\ nextArg <= Len(GivenArgs)
        /\ GivenArgs' = GivenArgs /\ GivenArgs \in ArgLists
    BY <1>2 DEF Set, FilterTypeOK, GivenArgs
  <2>2. arg # Malformed => arg.name \in FilterNames /\ arg.value \in FilterValues(arg.name)
    BY <1>1, <2>1, ArgumentType
  <2>3. /\ DOMAIN filter' = FilterNames
        /\ \A name \in FilterNames : filter'[name] = filter[name] \cup Added(name)
    <3>1. CASE arg = Malformed
      <4>1. filter' = filter
        BY <1>2, <3>1 DEF Set
      <4> QED
        BY <3>1, <4>1 DEF FilterTypeOK
    <3>2. CASE arg # Malformed
      <4>1. filter' = [filter EXCEPT ![arg.name] = filter[arg.name] \cup {arg.value}]
        BY <1>2, <3>2 DEF Set
      <4> QED
        BY <2>2, <3>2, <4>1 DEF FilterTypeOK
    <3> QED
      BY <3>1, <3>2
  <2>4. FilterTypeOK'
    <3>1. \A name \in FilterNames : Added(name) \subseteq FilterValues(name)
      BY <2>2
    <3>2. \A name \in FilterNames : filter'[name] \subseteq FilterValues(name) \cup {AllPorts}
      BY <2>3, <3>1 DEF FilterTypeOK
    <3>3. nextArg' \in 1..(Len(GivenArgs) + 1)
      BY <1>1, <2>1, ArgumentType
    <3> HIDE DEF Added
    <3> QED
      BY <2>1, <2>3, <3>2, <3>3 DEF FilterTypeOK
  <2>5. ASSUME NEW list \in ArgLists, list[nextArg] = arg, NEW name
        PROVE  Collected(list, nextArg, name) = Collected(list, nextArg - 1, name) \cup Added(name)
    <3>1. nextArg - 1 \in Nat /\ (nextArg - 1) + 1 = nextArg
      BY <1>1
    <3> DEFINE m == nextArg - 1
    <3>2. Collected(list, m + 1, name)
            = IF list[m + 1] = Malformed \/ list[m + 1].name # name
              THEN Collected(list, m, name)
              ELSE Collected(list, m, name) \cup {list[m + 1].value}
      BY <3>1, CollectNext
    <3> QED
      BY <2>5, <3>1, <3>2
  <2>6. CASE parsed = "flags"
    <3>1. \A name \in FilterNames : filter'[name] = Collected(args, nextArg, name)
      <4>1. args \in ArgLists /\ args[nextArg] = arg
        BY <2>6 DEF GivenArgs, FilterTypeOK
      <4>2. \A name : Collected(args, nextArg, name)
                       = Collected(args, nextArg - 1, name) \cup Added(name)
        BY <2>5, <4>1
      <4> HIDE DEF arg, Added
      <4> QED
        BY <2>3, <2>6, <4>2 DEF CollectedSoFar
    <3>2. CollectedSoFar'
      BY <1>1, <2>1, <2>6, <3>1 DEF CollectedSoFar, Collected
    <3> QED
      BY <2>1, <2>4, <2>6, <3>2 DEF ListsAsDocumented
  <2>7. CASE parsed = "environment"
    <3>1. NothingIn(args)
      BY <1>1, <2>1, <2>7 DEF CollectedSoFar, GivenArgs
    <3>2. \A name \in FilterNames : filter'[name] = Collected(environment, nextArg, name)
      <4>1. environment \in ArgLists /\ environment[nextArg] = arg
        BY <2>7 DEF GivenArgs, FilterTypeOK
      <4>2. \A name : Collected(environment, nextArg, name)
                       = Collected(environment, nextArg - 1, name) \cup Added(name)
        BY <2>5, <4>1
      <4> HIDE DEF arg, Added
      <4> QED
        BY <2>3, <2>7, <3>1, <4>2 DEF CollectedSoFar
    <3>3. CollectedSoFar'
      BY <1>1, <2>1, <2>7, <3>1, <3>2 DEF CollectedSoFar, Collected, NothingIn
    <3> QED
      BY <2>1, <2>4, <2>7, <3>3 DEF ListsAsDocumented
  <2> QED
    BY <2>1, <2>6, <2>7
<1>3. CASE ReadEnvironment
  <2>1. /\ args' = args /\ environment' = environment /\ options' = options
        /\ filter' = filter /\ parsed = "flags" /\ parsed' = "environment"
        /\ nextArg = Len(args) + 1
        /\ nextArg' = IF NoFilter THEN 1 ELSE Len(environment) + 1
    BY <1>1, <1>3 DEF ReadEnvironment, FilterTypeOK, GivenArgs
  <2>2. \A name \in FilterNames : filter[name] = Collected(args, Len(args), name)
    BY <1>1, <2>1 DEF CollectedSoFar
  <2>3. NoFilter <=> NothingIn(args)
    BY <2>2, NothingCollected DEF NoFilter, FilterTypeOK
  <2>4. FilterTypeOK'
    BY <1>1, <2>1 DEF FilterTypeOK, GivenArgs
  <2>5. CollectedSoFar'
    <3>1. NoFilter => \A name \in FilterNames : filter[name] = Collected(environment, 0, name)
      BY DEF NoFilter, Collected
    <3>2. NothingIn(args)' <=> NothingIn(args)
      BY <2>1 DEF NothingIn
    <3>3. CASE NoFilter
      BY <2>1, <2>3, <3>1, <3>2, <3>3 DEF CollectedSoFar, Collected
    <3>4. CASE ~NoFilter
      BY <2>1, <2>2, <2>3, <3>2, <3>4 DEF CollectedSoFar, Collected
    <3> QED
      BY <3>3, <3>4
  <2>6. ListsAsDocumented'
    BY <2>1 DEF ListsAsDocumented
  <2> QED
    BY <2>4, <2>5, <2>6
<1>4. CASE Defaults
  <2>1. /\ args' = args /\ environment' = environment /\ options' = options
        /\ nextArg' = nextArg /\ parsed = "environment" /\ parsed' = "done"
        /\ nextArg = Len(environment) + 1
    BY <1>1, <1>4 DEF Defaults, FilterTypeOK, GivenArgs
  <2>2. \A name \in FilterNames : filter[name] = Asked(name)
    BY <1>1, <2>1, AskedCollected DEF CollectedSoFar
  <2>3. \A name \in FilterNames : Asked(name) \subseteq FilterValues(name)
    BY <1>1, AskedCollected, CollectedType DEF FilterTypeOK
  <2>4. FilterTypeOK'
    <3>1. /\ DOMAIN filter' = FilterNames
          /\ \A name \in FilterNames :
               \/ filter'[name] = filter[name]
               \/ name = "status" /\ filter'[name] \subseteq Statuses
               \/ filter'[name] = {AllPorts}
      BY <1>4 DEF Defaults, PortDefaults, FilterTypeOK, FilterNames, KnownNames, Statuses
    <3>2. \A name \in FilterNames : filter'[name] \subseteq FilterValues(name) \cup {AllPorts}
      BY <3>1 DEF FilterTypeOK, FilterValues
    <3> QED
      BY <2>1, <3>1, <3>2 DEF FilterTypeOK, GivenArgs
  <2>5. CollectedSoFar'
    BY <2>1 DEF CollectedSoFar
  <2>6. ListsAsDocumented'
    <3>1. \A c : DocumentedContainer(c)' <=> DocumentedContainer(c)
      BY <2>1 DEF DocumentedContainer, FitsAll, Asked, Fits
    <3>2. Undisputed' <=> Undisputed
      BY <2>1 DEF Undisputed, Asked
    <3>3. Undisputed => \A c \in FilteredContainers : Listed(c)' <=> DocumentedContainer(c)
      BY <1>4, <2>2, <2>3, DefaultsDocumented DEF FilterTypeOK
    <3> QED
      BY <3>1, <3>2, <3>3 DEF ListsAsDocumented
  <2> QED
    BY <2>4, <2>5, <2>6
<1>5. CASE UNCHANGED filterVars
  <2>1. /\ args' = args /\ environment' = environment /\ options' = options
        /\ parsed' = parsed /\ nextArg' = nextArg /\ filter' = filter
    BY <1>5 DEF filterVars
  <2>2. FilterTypeOK' /\ CollectedSoFar'
    BY <2>1 DEF FilterTypeOK, GivenArgs, CollectedSoFar, Collected, NothingIn
  <2>3. ListsAsDocumented'
    <3>1. \A c : Listed(c)' <=> Listed(c)
      BY <2>1 DEF Listed, Fits
    <3>2. \A c : DocumentedContainer(c)' <=> DocumentedContainer(c)
      BY <2>1 DEF DocumentedContainer, FitsAll, Asked, Fits
    <3>3. Undisputed' <=> Undisputed
      BY <2>1 DEF Undisputed, Asked
    <3> QED
      BY <2>1, <3>1, <3>2, <3>3 DEF ListsAsDocumented
  <2> QED
    BY <2>2, <2>3
<1> QED
  BY <1>2, <1>3, <1>4, <1>5 DEF FilterNext

LEMMA FilterInvariant == FilterSpec => []FilterInv
BY FilterInitial, FilterNextStep, PTL DEF FilterSpec

\* The map has values of the right kind under each name, and "1-65535" besides.
THEOREM FilterTypeCorrect == FilterSpec => []FilterTypeOK
<1>1. FilterInv => FilterTypeOK
  BY DEF FilterInv
<1> QED
  BY <1>1, FilterInvariant, PTL

\* The daemon is asked for exactly the containers that the usage text describes,
\* whatever the arguments, the variable, the flags and the containers, unless the
\* filters are those of which the text and the code disagree: several values under
\* one name other than label, and names that the daemon does not know, "exposed" and
\* "published" of the text among them.
THEOREM ContainersListed == FilterSpec => []ListsAsDocumented
<1>1. FilterInv => ListsAsDocumented
  BY DEF FilterInv
<1> QED
  BY <1>1, FilterInvariant, PTL
===============================================================================
