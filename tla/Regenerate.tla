------------------------------ MODULE Regenerate ------------------------------
(***************************************************************************)
(* The generation passes of docker-gen and the files they maintain.        *)
(*                                                                         *)
(* A pass lists the containers, inspects them one by one, renders the      *)
(* template, compares the result with the destination file, rewrites the   *)
(* file when it differs and notifies whoever reads the file.  Passes run   *)
(* in several goroutines of internal/generator/generator.go:               *)
(*   Main      the initial generateFromContainers, before the others start *)
(*   Events    the goroutine that keeps the event listener: it runs        *)
(*             generateFromContainers each time the listener is registered *)
(*             and hands the events to the watchers the rest of the time   *)
(*   Signals   runs generateFromContainers on SIGHUP                       *)
(*   Watchers  one per config with Watch, a pass per event                 *)
(*   Tickers   one per config with Interval, a pass per tick               *)
(* Nothing but the Go scheduler orders them: there is no lock around a     *)
(* destination file.                                                       *)
(***************************************************************************)
EXTENDS Naturals, Sequences, FiniteSets

CONSTANTS
  NumConfigs,      \* the configs are 1..NumConfigs, in the order of the file
  NumContainers,   \* the containers are 1..NumContainers, in listing order
  Addrs,           \* what a template prints about a running container
  Gone,            \* a container that is stopped or removed
  Main, Events, Signals,   \* the goroutines that walk over every config
  Watchers, Tickers,       \* the goroutines that serve one config each
  ConfigOf,        \* the config of a watcher or ticker
  Notifies,        \* the notifications each config asks for
  ToStdout,        \* the configs with an empty Dest
  KeepBlankLines,  \* the configs with KeepBlankLines set
  ChanCap,         \* capacity of the event channels (100 in the code)
  Faults,          \* the calls that may fail
  Bounds           \* how often the environment may do each limited thing

Configs    == 1..NumConfigs
Containers == 1..NumContainers
Phases     == {"cmd", "containers", "filter"}
Limited    == {"change", "disconnect", "sighup", "fault"}

\* generateFromEvents and generateFromSignals start no goroutine when no
\* config is watched.
Walkers == {Main} \cup (IF Watchers = {} THEN {} ELSE {Events, Signals})
Workers == Watchers \cup Tickers
Goroutines == Walkers \cup Workers

Line == Containers \X (Addrs \cup {Gone})

ASSUME ConfigAssumption ==
  /\ NumConfigs \in Nat \ {0} /\ NumContainers \in Nat
  /\ Gone \notin Addrs
  /\ ConfigOf \in [Workers -> Configs]
  /\ Notifies \in [Configs -> SUBSET Phases]
  /\ ToStdout \subseteq Configs /\ KeepBlankLines \subseteq Configs
  /\ ChanCap \in Nat \ {0}
  /\ Faults \subseteq {"list", "inspect", "notify", "fatal"}
  /\ Bounds \in [Limited -> Nat]

ASSUME GoroutineAssumption ==
  /\ Main # Events /\ Main # Signals /\ Events # Signals
  /\ {Main, Events, Signals} \cap Workers = {}
  /\ Watchers \cap Tickers = {}

VARIABLES
  docker,      \* the daemon: the address of each container, or Gone
  left,        \* what is left of Bounds
  subscribed,  \* the event listener is registered with the daemon
  feed,        \* number of events in eventChan
  wake,        \* number of values in the channel each goroutine receives from
  pc,          \* where each goroutine is in its pass
  cfg,         \* the config it is working on, or will start with
  ids,         \* the listed containers it has not inspected yet
  contents,    \* the lines it has rendered, until it is done with them
  file,        \* the destination file of each config
  loaded       \* what each reader of a file saw when it was last notified

vars == <<docker, left, subscribed, feed, wake, pc, cfg, ids, contents, file,
          loaded>>
passVars == <<pc, cfg, ids, contents, file, loaded>>

FirstConfig(g) == IF g \in Walkers THEN 1 ELSE ConfigOf[g]

Running == {c \in Containers : docker[c] # Gone}

\* The environment does a limited thing once more.
Spend(what) == /\ left[what] > 0
               /\ left' = [left EXCEPT ![what] = @ - 1]

Fault(call) == call \in Faults /\ Spend("fault")

-------------------------------------------------------------------------------
Init ==
  /\ docker \in [Containers -> Addrs \cup {Gone}]
  /\ left = Bounds
  /\ subscribed = FALSE
  /\ feed = 0
  /\ wake = [g \in Goroutines |-> 0]
  /\ pc = [g \in Goroutines |-> IF g = Main THEN "list" ELSE "idle"]
  /\ cfg = [g \in Goroutines |-> FirstConfig(g)]
  /\ ids = [g \in Goroutines |-> {}]
  /\ contents = [g \in Goroutines |-> <<>>]
  /\ file = [c \in Configs |-> <<>>]
  /\ loaded = [c \in Configs |-> [p \in Phases |-> <<>>]]

\* Generate() starts the other goroutines after the initial pass has returned.
Started == pc[Main] = "idle"

-------------------------------------------------------------------------------
(* What wakes the goroutines.                                              *)

\* A container starts, stops or comes back with another address.  The
\* registered listener gets an event, which the client library drops when
\* eventChan is full.
Change(c, a) ==
  /\ docker[c] # a
  /\ Spend("change")
  /\ docker' = [docker EXCEPT ![c] = a]
  /\ feed' = IF subscribed /\ feed < ChanCap THEN feed + 1 ELSE feed
  /\ UNCHANGED <<subscribed, wake, passVars>>

\* Mutant of Subscribe: it does not sync.
SubscribeWithoutSync ==
  /\ Events \in Goroutines /\ Started
  /\ pc[Events] = "idle" /\ ~subscribed
  /\ subscribed' = TRUE
  /\ UNCHANGED <<docker, left, feed, wake, passVars>>

\* The listener is registered, for the first time or after the connection was
\* lost, and all configs are synced in the same goroutine.
Subscribe ==
  /\ Events \in Goroutines /\ Started
  /\ pc[Events] = "idle" /\ ~subscribed
  /\ subscribed' = TRUE
  /\ pc' = [pc EXCEPT ![Events] = "list"]
  /\ UNCHANGED <<docker, left, feed, wake, cfg, ids, contents, file, loaded>>

\* The connection to the daemon is lost: no more events until Subscribe.
Disconnect ==
  /\ subscribed
  /\ Spend("disconnect")
  /\ subscribed' = FALSE
  /\ UNCHANGED <<docker, feed, wake, passVars>>

HandOut == wake' = [g \in Goroutines |->
                      IF g \in Watchers THEN wake[g] + 1 ELSE wake[g]]

\* Mutants of Fanout: the sync runs in a goroutine of its own; an event is
\* counted off that was not there.
FanoutDuringSync ==
  /\ Events \in Goroutines
  /\ feed > 0
  /\ \A w \in Watchers : wake[w] < ChanCap
  /\ feed' = feed - 1
  /\ HandOut
  /\ UNCHANGED <<docker, left, subscribed, passVars>>

FanoutOfNothing ==
  /\ Events \in Goroutines /\ pc[Events] = "idle" /\ subscribed
  /\ \A w \in Watchers : wake[w] < ChanCap
  /\ feed' = feed - 1
  /\ HandOut
  /\ UNCHANGED <<docker, left, subscribed, passVars>>

\* The Events goroutine, when it is not running a pass, takes an event and
\* hands it to every watcher; it blocks while one of their channels is full.
Fanout ==
  /\ Events \in Goroutines /\ pc[Events] = "idle"
  /\ feed > 0
  /\ \A w \in Watchers : wake[w] < ChanCap
  /\ feed' = feed - 1
  /\ HandOut
  /\ UNCHANGED <<docker, left, subscribed, passVars>>

\* The signal channel holds one signal: another SIGHUP is dropped while it is
\* full.
Sighup ==
  /\ Signals \in Goroutines /\ Started
  /\ Spend("sighup")
  /\ wake' = [wake EXCEPT ![Signals] = 1]
  /\ UNCHANGED <<docker, subscribed, feed, passVars>>

\* A ticker's channel holds one tick and drops the ticks nobody has time for.
Tick(g) ==
  /\ Started /\ wake[g] = 0
  /\ wake' = [wake EXCEPT ![g] = 1]
  /\ UNCHANGED <<docker, left, subscribed, feed, passVars>>

-------------------------------------------------------------------------------
(* The pass.  Every action is one call of goroutine g.                     *)

\* A loop receives from its channel and starts a pass.
Receive(g) ==
  /\ Started /\ pc[g] = "idle" /\ wake[g] > 0
  /\ wake' = [wake EXCEPT ![g] = @ - 1]
  /\ pc' = [pc EXCEPT ![g] = "list"]
  /\ UNCHANGED <<docker, left, subscribed, feed, cfg, ids, contents, file, loaded>>

EndPass(g) == /\ pc' = [pc EXCEPT ![g] = "idle"]
              /\ cfg' = [cfg EXCEPT ![g] = FirstConfig(g)]

\* ListContainers (and ListNetworks).  When it fails, generateFromContainers
\* returns without touching the remaining configs and the loops wait for their
\* next event or tick: the pass is over.
List(g) ==
  /\ pc[g] = "list"
  /\ \/ /\ ids' = [ids EXCEPT ![g] = Running]
        /\ pc' = [pc EXCEPT ![g] = "inspect"]
        /\ UNCHANGED <<cfg, left>>
     \/ /\ Fault("list")
        /\ EndPass(g)
        /\ UNCHANGED ids
  /\ UNCHANGED <<docker, subscribed, feed, wake, contents, file, loaded>>

\* What the file says about container c: its line, which is blank if it is
\* stopped; removeBlankLines drops it then.
Lines(g, c) ==
  IF docker[c] = Gone /\ cfg[g] \notin KeepBlankLines THEN <<>>
  ELSE <<<<c, docker[c]>>>>

\* InspectContainerWithOptions on the next listed container.  When it fails,
\* as it does if the container has been removed by now, the container is left
\* out.
Inspect(g) ==
  /\ pc[g] = "inspect"
  /\ \E c \in ids[g] :
       /\ \A d \in ids[g] : c <= d
       /\ ids' = [ids EXCEPT ![g] = @ \ {c}]
       /\ \/ /\ contents' = [contents EXCEPT ![g] = @ \o Lines(g, c)]
             /\ UNCHANGED left
          \/ docker[c] = Gone /\ UNCHANGED <<contents, left>>
          \/ Fault("inspect") /\ UNCHANGED contents
  /\ UNCHANGED <<docker, subscribed, feed, wake, pc, cfg, file, loaded>>

\* The config is done: a walker goes on to the next one.
Advance(g) ==
  IF g \in Walkers /\ cfg[g] < NumConfigs
  THEN /\ cfg' = [cfg EXCEPT ![g] = @ + 1]
       /\ pc' = [pc EXCEPT ![g] = "list"]
  ELSE EndPass(g)

\* Mutant of Compare: a ticker too skips the notifications of a file that did
\* not change.
CompareSkipping(g) ==
  /\ pc[g] = "inspect" /\ ids[g] = {}
  /\ IF cfg[g] \notin ToStdout /\ file[cfg[g]] # contents[g]
     THEN /\ pc' = [pc EXCEPT ![g] = "truncate"]
          /\ UNCHANGED <<cfg, contents>>
     ELSE /\ Advance(g)
          /\ contents' = [contents EXCEPT ![g] = <<>>]
  /\ UNCHANGED <<docker, left, subscribed, feed, wake, ids, file, loaded>>

\* GenerateFile renders and compares.  Output to stdout always counts as a
\* change, and a ticker notifies whether or not the file has changed.
Compare(g) ==
  /\ pc[g] = "inspect" /\ ids[g] = {}
  /\ \/ /\ cfg[g] \notin ToStdout
        /\ file[cfg[g]] # contents[g]
        /\ pc' = [pc EXCEPT ![g] = "truncate"]
        /\ UNCHANGED <<cfg, contents>>
     \/ /\ cfg[g] \in ToStdout \/ (file[cfg[g]] = contents[g] /\ g \in Tickers)
        /\ pc' = [pc EXCEPT ![g] = "cmd"]
        /\ contents' = [contents EXCEPT ![g] = <<>>]
        /\ UNCHANGED cfg
     \/ /\ cfg[g] \notin ToStdout
        /\ file[cfg[g]] = contents[g]
        /\ g \notin Tickers
        /\ Advance(g)
        /\ contents' = [contents EXCEPT ![g] = <<>>]
  /\ UNCHANGED <<docker, left, subscribed, feed, wake, ids, file, loaded>>

\* os.WriteFile opens the file with O_TRUNC ...
Truncate(g) ==
  /\ pc[g] = "truncate"
  /\ file' = [file EXCEPT ![cfg[g]] = <<>>]
  /\ pc' = [pc EXCEPT ![g] = "write"]
  /\ UNCHANGED <<docker, left, subscribed, feed, wake, cfg, ids, contents,
                 loaded>>

\* ... and writes from offset 0: what another goroutine has written beyond the
\* end of this text stays.
Overwrite(old, new) ==
  IF Len(old) <= Len(new) THEN new
  ELSE new \o SubSeq(old, Len(new) + 1, Len(old))

Write(g) ==
  /\ pc[g] = "write"
  /\ file' = [file EXCEPT ![cfg[g]] = Overwrite(@, contents[g])]
  /\ pc' = [pc EXCEPT ![g] = "cmd"]
  /\ contents' = [contents EXCEPT ![g] = <<>>]
  /\ UNCHANGED <<docker, left, subscribed, feed, wake, cfg, ids, loaded>>

\* One notification of config cfg[g]; the reader it reaches reloads the file.
\* An error is logged and forgotten.
Notify(g, phase) ==
  \/ /\ phase \in Notifies[cfg[g]]
     /\ loaded' = [loaded EXCEPT ![cfg[g]][phase] = file[cfg[g]]]
     /\ UNCHANGED left
  \/ /\ phase \notin Notifies[cfg[g]]
     /\ UNCHANGED <<loaded, left>>
  \/ /\ phase \in Notifies[cfg[g]]
     /\ Fault("notify")
     /\ UNCHANGED loaded

RunNotifyCmd(g) ==
  /\ pc[g] = "cmd"
  /\ Notify(g, "cmd")
  /\ pc' = [pc EXCEPT ![g] = "containers"]
  /\ UNCHANGED <<docker, subscribed, feed, wake, cfg, ids, contents, file>>

\* Mutant of SendSignalToContainers: with no NotifyContainers the filtered
\* containers are skipped as well.
SendSignalToContainersOnly(g) ==
  /\ pc[g] = "containers"
  /\ Notify(g, "containers")
  /\ IF "containers" \in Notifies[cfg[g]]
     THEN pc' = [pc EXCEPT ![g] = "filter"] /\ UNCHANGED cfg
     ELSE Advance(g)
  /\ UNCHANGED <<docker, subscribed, feed, wake, ids, contents, file>>

SendSignalToContainers(g) ==
  /\ pc[g] = "containers"
  /\ Notify(g, "containers")
  /\ pc' = [pc EXCEPT ![g] = "filter"]
  /\ UNCHANGED <<docker, subscribed, feed, wake, cfg, ids, contents, file>>

SendSignalToFilteredContainers(g) ==
  /\ pc[g] = "filter"
  /\ Notify(g, "filter")
  /\ Advance(g)
  /\ UNCHANGED <<docker, subscribed, feed, wake, ids, contents, file>>

\* log.Fatalf: the template fails, or the file cannot be read, opened or
\* written.  The whole process exits, whatever its other goroutines are doing,
\* and is started again.
Fatal(g) ==
  /\ \/ pc[g] = "inspect" /\ ids[g] = {}
     \/ pc[g] \in {"truncate", "write"}
  /\ Fault("fatal")
  /\ subscribed' = FALSE
  /\ feed' = 0
  /\ wake' = [h \in Goroutines |-> 0]
  /\ pc' = [h \in Goroutines |-> IF h = Main THEN "list" ELSE "idle"]
  /\ cfg' = [h \in Goroutines |-> FirstConfig(h)]
  /\ ids' = [h \in Goroutines |-> {}]
  /\ contents' = [h \in Goroutines |-> <<>>]
  /\ UNCHANGED <<docker, file, loaded>>

Step(g) ==
  \/ Receive(g)
  \/ List(g)
  \/ Inspect(g)
  \/ Compare(g)
  \/ Truncate(g)
  \/ Write(g)
  \/ RunNotifyCmd(g)
  \/ SendSignalToContainers(g)
  \/ SendSignalToFilteredContainers(g)

Next ==
  \/ \E c \in Containers, a \in Addrs \cup {Gone} : Change(c, a)
  \/ Subscribe
  \/ Disconnect
  \/ Fanout
  \/ Sighup
  \/ \E g \in Tickers : Tick(g)
  \/ \E g \in Goroutines : Step(g) \/ Fatal(g)

\* The calls return and the scheduler runs every goroutine; the listener is
\* retried every ten seconds and tickers tick.  The daemon, the user and the
\* faults promise nothing.
Fairness ==
  /\ \A g \in Goroutines : WF_vars(Step(g))
  /\ WF_vars(Fanout)
  /\ WF_vars(Subscribe)
  /\ \A g \in Tickers : WF_vars(Tick(g))

Spec == Init /\ [][Next]_vars

FairSpec == Spec /\ Fairness

-------------------------------------------------------------------------------
(* Properties.                                                             *)

PassPoints == {"idle", "list", "inspect", "truncate", "write"} \cup Phases

\* Every variable keeps its type.
TypeOK ==
  /\ docker \in [Containers -> Addrs \cup {Gone}]
  /\ left \in [Limited -> Nat]
  /\ subscribed \in BOOLEAN
  /\ feed \in Nat
  /\ wake \in [Goroutines -> Nat]
  /\ pc \in [Goroutines -> PassPoints]
  /\ cfg \in [Goroutines -> Configs]
  /\ ids \in [Goroutines -> SUBSET Containers]
  /\ contents \in [Goroutines -> Seq(Line)]
  /\ file \in [Configs -> Seq(Line)]
  /\ loaded \in [Configs -> [Phases -> Seq(Line)]]

\* Goroutine g has changed the file of config c and has yet to send
\* notification p.
Owes(g, c, p) ==
  /\ cfg[g] = c
  /\ pc[g] \in {"write", p}
       \cup (IF p = "cmd" THEN {} ELSE {"cmd"})
       \cup (IF p = "filter" THEN {"containers"} ELSE {})

\* No change of a file goes unannounced (generateFromContainers and the two
\* loops skip the notification when GenerateFile finds nothing to write): if a
\* reader's copy differs from the file, some goroutine still has to notify that
\* reader, however the passes interleave.
NoLostNotification ==
  \A c \in Configs : \A p \in Notifies[c] :
    loaded[c][p] # file[c] => \E g \in Goroutines : Owes(g, c, p)

\* At most one goroutine is between the listing and the last notification for
\* a config: what the code relies on in place of a lock around Dest.  It holds
\* as long as the only source of overlapping passes, a resync or a SIGHUP while
\* a watcher has events to work off, does not occur.
Busy(g, c) == cfg[g] = c /\ pc[g] # "idle"

OnePassPerDest ==
  \A c \in Configs : \A g, h \in Goroutines :
    Busy(g, c) /\ Busy(h, c) => g = h

\* The file holds one line for each running container, as it is now.
Describes(lines) ==
  /\ Len(lines) = Cardinality(Running)
  /\ {lines[i] : i \in DOMAIN lines} = {<<c, docker[c]>> : c \in Running}

UpToDate(c) ==
  /\ c \notin ToStdout => Describes(file[c])
  /\ \A p \in Notifies[c] : loaded[c][p] = file[c]

\* Once the containers stop changing, the file of every watched or ticking
\* config ends up describing them and every reader ends up having loaded it
\* (the comment "sync all configs after resuming listener", the watcher loop
\* and the ticker loop).
DestFollowsDocker ==
  <>[](\A g \in Workers : UpToDate(ConfigOf[g]))

\* Every reader ends up having loaded the file as it is (the README's "run
\* command after template is regenerated").
ReadersFollowDest ==
  <>[](\A c \in Configs : \A p \in Notifies[c] : loaded[c][p] = file[c])
===============================================================================
