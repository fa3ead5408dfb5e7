---------------------------- MODULE ContextStore ----------------------------
(***************************************************************************)
(* What every template sees beside its containers: .Docker and             *)
(* .CurrentContainer (internal/context/context.go).  Both are variables of *)
(* the package, which each pass sets in getContainers                      *)
(* (internal/generator/generator.go) and its template reads later on.  The *)
(* lock around them makes each get and each set one step, and keeps nobody *)
(* from setting them between the sets of a pass or while its template is   *)
(* executed.                                                               *)
(***************************************************************************)
EXTENDS Integers

CONSTANTS
  Goroutines,   \* those that run passes
  HidesSelf,    \* those whose ContainerFilter leaves out docker-gen itself
  Self, NoID,   \* the container docker-gen runs in; an empty ID
  Bounds        \* how often the environment may do each limited thing

Limited == {"change", "fault"}
None    == -1

ASSUME StoreAssumption ==
  /\ HidesSelf \subseteq Goroutines
  /\ Self # NoID
  /\ Bounds \in [Limited -> Nat]

VARIABLES
  server,       \* what the daemon says about itself
  own,          \* what it says about docker-gen's container
  left,         \* what is left of Bounds
  info,         \* dockerInfo
  current,      \* currentContainer
  pc,           \* where each goroutine is in its pass
  answer,       \* the answer to Info it has not stored yet
  found,        \* its own container, as it has inspected it
  known         \* history: the ID has been stored once

storeVars == <<server, own, left, info, current, pc, answer, found, known>>

Spend(what) == /\ left[what] > 0
               /\ left' = [left EXCEPT ![what] = @ - 1]

Goto(g, point) == pc' = [pc EXCEPT ![g] = point]

StoreInit ==
  /\ server = 1 /\ own = 1
  /\ left = Bounds
  /\ info = [server |-> 0, id |-> NoID]
  /\ current = None
  /\ pc = [g \in Goroutines |-> "idle"]
  /\ answer = [g \in Goroutines |-> None]
  /\ found = [g \in Goroutines |-> None]
  /\ known = FALSE

\* The daemon has something new to say about itself or about docker-gen.
Change ==
  /\ Spend("change")
  /\ \/ server' = server + 1 /\ UNCHANGED own
     \/ own' = own + 1 /\ UNCHANGED server
  /\ UNCHANGED <<info, current, pc, answer, found, known>>

-------------------------------------------------------------------------------
(* getContainers and the template, in goroutine g.                         *)

Start(g) ==
  /\ pc[g] = "idle"
  /\ Goto(g, "info")
  /\ UNCHANGED <<server, own, left, info, current, answer, found, known>>

\* Mutant of Info: an error is logged and the answer, nil, is stored anyway.
InfoIgnoringError(g) ==
  /\ pc[g] = "info"
  /\ Goto(g, "setinfo")
  /\ \/ answer' = [answer EXCEPT ![g] = server] /\ UNCHANGED left
     \/ Spend("fault") /\ UNCHANGED answer
  /\ UNCHANGED <<server, own, info, current, found, known>>

\* Client.Info; when it fails nothing is stored.
Info(g) ==
  /\ pc[g] = "info"
  /\ \/ /\ answer' = [answer EXCEPT ![g] = server]
        /\ Goto(g, "setinfo")
        /\ UNCHANGED left
     \/ /\ Spend("fault")
        /\ Goto(g, "setid")
        /\ UNCHANGED answer
  /\ UNCHANGED <<server, own, info, current, found, known>>

\* dockerInfo is replaced as a whole: its CurrentContainerID is empty now.
SetServerInfo(g) ==
  /\ pc[g] = "setinfo"
  /\ info' = [server |-> answer[g], id |-> NoID]
  /\ answer' = [answer EXCEPT ![g] = None]
  /\ Goto(g, "setid")
  /\ UNCHANGED <<server, own, left, current, found, known>>

\* Mutant of SetCurrentContainerID: an ID that was stored before is not stored
\* again.
SetCurrentContainerIDOnce(g) ==
  /\ pc[g] = "setid"
  /\ info' = IF known THEN info ELSE [info EXCEPT !.id = Self]
  /\ known' = TRUE
  /\ Goto(g, "list")
  /\ UNCHANGED <<server, own, left, current, answer, found>>

SetCurrentContainerID(g) ==
  /\ pc[g] = "setid"
  /\ info' = [info EXCEPT !.id = Self]
  /\ known' = TRUE
  /\ Goto(g, "list")
  /\ UNCHANGED <<server, own, left, current, answer, found>>

\* ListContainers and ListNetworks; when one fails the pass is over.  Then the
\* containers are inspected, docker-gen's own among them unless the filter
\* leaves it out.  An inspection that fails leaves the container out as well.
List(g) ==
  /\ pc[g] = "list"
  /\ \/ /\ found' = [found EXCEPT ![g] = IF g \in HidesSelf THEN None ELSE own]
        /\ Goto(g, "current")
        /\ UNCHANGED left
     \/ /\ Spend("fault")
        /\ \/ Goto(g, "idle")
           \/ Goto(g, "current")
        /\ UNCHANGED found
  /\ UNCHANGED <<server, own, info, current, answer, known>>

\* Mutant of CurrentContainer: it is looked for among the listed ones only.
CurrentContainerListed(g) ==
  /\ pc[g] = "current"
  /\ Goto(g, "setcurrent")
  /\ UNCHANGED <<server, own, left, info, current, answer, found, known>>

\* currentContainer: docker-gen's own container is inspected if it is not
\* among those that were listed and inspected.
CurrentContainer(g) ==
  /\ pc[g] = "current"
  /\ \/ found[g] # None /\ UNCHANGED <<found, left>>
     \/ /\ found[g] = None
        /\ found' = [found EXCEPT ![g] = own]
        /\ UNCHANGED left
     \/ found[g] = None /\ Spend("fault") /\ UNCHANGED found
  /\ Goto(g, "setcurrent")
  /\ UNCHANGED <<server, own, info, current, answer, known>>

SetCurrentContainer(g) ==
  /\ pc[g] = "setcurrent"
  /\ current' = found[g]
  /\ found' = [found EXCEPT ![g] = None]
  /\ Goto(g, "template")
  /\ UNCHANGED <<server, own, left, info, answer, known>>

\* The template reads .Docker and .CurrentContainer as often as it likes, at
\* any time while the goroutine is at "template"; it is done then.
Done(g) ==
  /\ pc[g] = "template"
  /\ Goto(g, "idle")
  /\ UNCHANGED <<server, own, left, info, current, answer, found, known>>

Step(g) ==
  \/ Start(g) \/ Info(g) \/ SetServerInfo(g) \/ SetCurrentContainerID(g)
  \/ List(g) \/ CurrentContainer(g) \/ SetCurrentContainer(g) \/ Done(g)

StoreNext == Change \/ \E g \in Goroutines : Step(g)

StoreSpec == StoreInit /\ [][StoreNext]_storeVars

-------------------------------------------------------------------------------
(* Properties.                                                             *)

Points == {"idle", "info", "setinfo", "setid", "list", "current", "setcurrent",
           "template"}

StoreTypeOK ==
  /\ server \in Nat /\ own \in Nat
  /\ left \in [Limited -> Nat]
  /\ info \in [server : Nat, id : {Self, NoID}]
  /\ current \in Nat \cup {None}
  /\ pc \in [Goroutines -> Points]
  /\ answer \in [Goroutines -> Nat \cup {None}]
  /\ found \in [Goroutines -> Nat \cup {None}]
  /\ known \in BOOLEAN

\* The ID that one pass clears when it stores the server info comes back: once
\* it has been stored, it is missing only while some goroutine is on its way
\* from SetServerInfo to SetCurrentContainerID, whatever the others do.
IdComesBack ==
  known /\ info.id = NoID => \E g \in Goroutines : pc[g] = "setid"

\* .CurrentContainer "remains available even when" a filter leaves docker-gen
\* out (README.md): it takes a failed inspection, and where the filters let
\* docker-gen through two failed ones, for a template not to see it.
FailuresToHide == IF HidesSelf = {} THEN 2 ELSE 1

CurrentAvailable ==
  (\E g \in Goroutines : pc[g] = "template") /\ current = None =>
    Bounds["fault"] - left["fault"] >= FailuresToHide

\* Every template sees the ID of docker-gen's container (the assertion on
\* result.Docker.CurrentContainerID in integration_test.go).
TemplatesSeeId == \A g \in Goroutines : pc[g] = "template" => info.id = Self
=============================================================================
