--------------------------- MODULE ContainerFilter ---------------------------
(***************************************************************************)
(* Which containers the config of the command line is about                *)
(* (cmd/docker-gen/main.go): the filter that -container-filter,            *)
(* DOCKER_CONTAINER_FILTERS, -include-stopped, -only-exposed and           *)
(* -only-published make together, and that the daemon applies.             *)
(***************************************************************************)
EXTENDS Naturals, Sequences

CONSTANTS
  PortNumbers,  \* the ports, for all of 1 to 65535
  Labels,       \* the labels, for all that containers are filtered by otherwise
  AllPorts,     \* "1-65535"
  Malformed,    \* an argument without "="
  ArgLists      \* the lists of arguments of -container-filter, and in the variable

Statuses == {"created", "restarting", "running", "removing", "paused", "exited",
             "dead"}

\* The names of filters that the daemon knows, for all of them, and those that the
\* usage text speaks of besides.
KnownNames  == {"status", "publish", "expose", "label"}
FilterNames == KnownNames \cup {"published", "exposed"}
FilterValues(name) == CASE name = "status" -> Statuses
                        [] name = "label"  -> Labels
                        [] OTHER           -> PortNumbers

Filters == UNION {[name : {name}, value : FilterValues(name)] : name \in FilterNames}

ASSUME FilterAssumption ==
  /\ AllPorts \notin PortNumbers
  /\ ArgLists \subseteq Seq(Filters \cup {Malformed})

VARIABLES
  args,         \* those of -container-filter
  environment,  \* those in DOCKER_CONTAINER_FILTERS
  options,      \* the other flags that are given
  parsed,       \* what is parsed: "flags", "environment", or "done"
  nextArg,      \* how far it is
  filter        \* containerFilter: the values under each name

filterVars == <<args, environment, options, parsed, nextArg, filter>>

FilterInit ==
  /\ args \in ArgLists /\ environment \in ArgLists
  /\ options \in SUBSET {"include-stopped", "only-exposed", "only-published"}
  /\ parsed = "flags" /\ nextArg = 1
  /\ filter = [name \in FilterNames |-> {}]

-------------------------------------------------------------------------------
GivenArgs == IF parsed = "flags" THEN args ELSE environment

NoFilter == \A name \in FilterNames : filter[name] = {}

\* mapstringslice.Set
Set ==
  /\ parsed # "done" /\ nextArg <= Len(GivenArgs)
  /\ LET arg == GivenArgs[nextArg] IN
     filter' = IF arg = Malformed THEN filter
               ELSE [filter EXCEPT ![arg.name] = @ \cup {arg.value}]
  /\ nextArg' = nextArg + 1
  /\ UNCHANGED <<args, environment, options, parsed>>

\* Mutant of ReadEnvironment: the variable is added to the flags.
ReadBoth ==
  /\ parsed = "flags" /\ nextArg > Len(args)
  /\ parsed' = "environment" /\ nextArg' = 1
  /\ UNCHANGED <<args, environment, options, filter>>

\* The variable counts if the flags have left the map empty.
ReadEnvironment ==
  /\ parsed = "flags" /\ nextArg > Len(args)
  /\ parsed' = "environment"
  /\ nextArg' = IF NoFilter THEN 1 ELSE Len(environment) + 1
  /\ UNCHANGED <<args, environment, options, filter>>

\* Mutant of PortDefaults: -only-exposed is always looked at first.
ExposedFirst(f) ==
  IF "only-exposed" \in options /\ f["expose"] = {}
  THEN [f EXCEPT !["expose"] = {AllPorts}]
  ELSE IF "only-published" \in options /\ f["publish"] = {}
  THEN [f EXCEPT !["publish"] = {AllPorts}]
  ELSE f

PortDefaults(f) ==
  IF "only-published" \in options /\ f["publish"] = {}
  THEN [f EXCEPT !["publish"] = {AllPorts}]
  ELSE IF "only-exposed" \in options /\ f["expose"] = {}
  THEN [f EXCEPT !["expose"] = {AllPorts}]
  ELSE f

\* main, where no config file is given.
Defaults ==
  /\ parsed = "environment" /\ nextArg > Len(environment)
  /\ parsed' = "done"
  /\ LET statuses == IF filter["status"] # {} THEN filter["status"]
                     ELSE IF "include-stopped" \in options THEN Statuses
                     ELSE {"running"}
     IN  filter' = PortDefaults([filter EXCEPT !["status"] = statuses])
  /\ UNCHANGED <<args, environment, options, nextArg>>

FilterNext == Set \/ ReadEnvironment \/ Defaults

FilterSpec == FilterInit /\ [][FilterNext]_filterVars

-------------------------------------------------------------------------------
(* Properties.                                                             *)

\* A published port is an exposed one.
FilteredContainers ==
  {c \in [status : Statuses, publish : SUBSET PortNumbers,
          expose : SUBSET PortNumbers, label : SUBSET Labels] :
     c.publish \subseteq c.expose}

\* How the daemon reads a value under a name.
Fits(c, name, value) ==
  IF name = "status" THEN c.status = value
  ELSE IF name # "label" /\ value = AllPorts THEN c[name] # {}
  ELSE value \in c[name]

\* The daemon lists a container if all labels fit, and one value under each other
\* name that has any.  It refuses names that it does not know, so that nothing is
\* listed.
Listed(c) ==
  /\ \A name \in FilterNames \ KnownNames : filter[name] = {}
  /\ \A value \in filter["label"] : Fits(c, "label", value)
  /\ \A name \in KnownNames \ {"label"} :
       filter[name] # {} => \E value \in filter[name] : Fits(c, name, value)

\* What the user has asked for under a name: with the flags, or else with the
\* variable ("ignored if -container-filter is provided", main.go; an argument
\* without "=" does not count).
Asked(name) ==
  LET WellFormed(list) == {n \in DOMAIN list : list[n] # Malformed}
      list == IF WellFormed(args) # {} THEN args ELSE environment
  IN  {list[n].value : n \in {n \in WellFormed(list) : list[n].name = name}}

\* "You can pass this option multiple times to combine filters with AND."
FitsAll(c) ==
  \A name \in KnownNames : \A value \in Asked(name) : Fits(c, name, value)

\* The containers that the usage text describes: "only include containers with
\* published ports (implies -only-exposed). Bypassed when providing a container
\* published filter (-container-filter published=foo)", and so on.
DocumentedContainer(c) ==
  /\ FitsAll(c)
  /\ Asked("status") = {} /\ "include-stopped" \notin options => c.status = "running"
  /\ Asked("published") = {} /\ "only-published" \in options => c.publish # {}
  /\ Asked("exposed") = {} /\ options \cap {"only-exposed", "only-published"} # {}
       => c.expose # {}

\* The filters that documentation and code agree on: no name that the daemon does
\* not know, and no two values under one name, but for labels.
Undisputed ==
  /\ \A name \in FilterNames \ KnownNames : Asked(name) = {}
  /\ \A name \in KnownNames \ {"label"} : \A v, w \in Asked(name) : v = w

\* docker-gen is about the containers that the usage text says, in all
\* combinations of the flags, the variable and undisputed filters: although main
\* puts one of its two port filters only, and bypasses each by another name than
\* the text gives.
ListsAsDocumented ==
  parsed = "done" /\ Undisputed =>
    \A c \in FilteredContainers : Listed(c) <=> DocumentedContainer(c)

\* Of two other sentences of the usage text: a container that is listed fits every
\* filter that was given ("You can pass this option multiple times to combine filters
\* with AND"), and -only-exposed and -only-published ask for nothing of their own if
\* the filter is given that bypasses them ("Bypassed when providing a container
\* exposed filter (-container-filter exposed=foo)", "... published filter
\* (-container-filter published=foo)", main.go).
CombinesWithAnd == \A c \in FilteredContainers : Listed(c) => FitsAll(c)

BypassedByFilter ==
  /\ Asked("exposed") # {} => AllPorts \notin filter["expose"]
  /\ Asked("published") # {} => AllPorts \notin filter["publish"]

FollowsUsage == parsed = "done" => CombinesWithAnd /\ BypassedByFilter
===============================================================================
