------------------------------ MODULE MCPasses ------------------------------
(***************************************************************************)
(* The instances of Regenerate in which its promises hold.  One of them    *)
(* runs in each behaviour:                                                 *)
(*   "watch"     Regenerate itself, with the constants of the configuration *)
(*   "overlap"   a watcher, resyncs and SIGHUP on the same files           *)
(*   "interval"  a watcher and a ticker on the same file                   *)
(* The last two have variables of their own, which start with "o".         *)
(***************************************************************************)
EXTENDS MCRegenerate

VARIABLES part, oDocker, oLeft, oSubscribed, oFeed, oWake, oPc, oCfg, oIds, oContents,
          oFile, oLoaded

oVars == <<oDocker, oLeft, oSubscribed, oFeed, oWake, oPc, oCfg, oIds, oContents,
           oFile, oLoaded>>

Overlap == INSTANCE Regenerate WITH
  NumConfigs <- 2, NumContainers <- 1, Watchers <- {w1}, Tickers <- {},
  ConfigOf <- MCConfigOfWatcher, Notifies <- MCNotifies2, ToStdout <- {2},
  KeepBlankLines <- {1}, Faults <- {"list", "inspect"}, Bounds <- MCOverlapBounds,
  docker <- oDocker, left <- oLeft, subscribed <- oSubscribed, feed <- oFeed,
  wake <- oWake, pc <- oPc, cfg <- oCfg, ids <- oIds, contents <- oContents,
  file <- oFile, loaded <- oLoaded

Interval == INSTANCE Regenerate WITH
  NumConfigs <- 1, NumContainers <- 1, Watchers <- {w1}, Tickers <- {t1},
  ConfigOf <- MCConfigOfBoth, Notifies <- MCNotifies1, ToStdout <- {},
  KeepBlankLines <- {}, Faults <- {"list", "inspect", "notify", "fatal"},
  Bounds <- MCIntervalBounds,
  docker <- oDocker, left <- oLeft, subscribed <- oSubscribed, feed <- oFeed,
  wake <- oWake, pc <- oPc, cfg <- oCfg, ids <- oIds, contents <- oContents,
  file <- oFile, loaded <- oLoaded

-------------------------------------------------------------------------------
\* Regenerate when it does not run: no container, and nothing to do.
Idle ==
  /\ docker = [c \in Containers |-> Gone] /\ left = Bounds /\ subscribed = TRUE
  /\ feed = 0 /\ wake = [g \in Goroutines |-> 0] /\ pc = [g \in Goroutines |-> "idle"]
  /\ cfg = [g \in Goroutines |-> FirstConfig(g)]
  /\ ids = [g \in Goroutines |-> {}] /\ contents = [g \in Goroutines |-> <<>>]
  /\ file = [c \in Configs |-> <<>>]
  /\ loaded = [c \in Configs |-> [p \in Phases |-> <<>>]]

\* The other variables where they are not used.
OthersIdle ==
  /\ oDocker = <<>> /\ oLeft = <<>> /\ oSubscribed = FALSE /\ oFeed = 0 /\ oWake = <<>>
  /\ oPc = <<>> /\ oCfg = <<>> /\ oIds = <<>> /\ oContents = <<>> /\ oFile = <<>>
  /\ oLoaded = <<>>

PassesInit ==
  \/ part = "watch" /\ Init /\ OthersIdle
  \/ part = "overlap" /\ Idle /\ Overlap!Init
  \/ part = "interval" /\ Idle /\ Interval!Init

PassesNext ==
  /\ UNCHANGED part
  /\ \/ part = "watch" /\ Next /\ UNCHANGED oVars
     \/ part = "overlap" /\ Overlap!Next /\ UNCHANGED vars
     \/ part = "interval" /\ Interval!Next /\ UNCHANGED vars

\* The fairness of Regenerate, for "interval".  "watch" has that of the module, and
\* "overlap" needs none.
IntervalFairness ==
  /\ \A g \in Interval!Goroutines : WF_oVars(part = "interval" /\ Interval!Step(g))
  /\ WF_oVars(part = "interval" /\ Interval!Fanout)
  /\ WF_oVars(part = "interval" /\ Interval!Subscribe)
  /\ WF_oVars(part = "interval" /\ Interval!Tick(t1))

PassesSpec ==
  /\ PassesInit /\ [][PassesNext]_<<part, vars, oVars>>
  /\ Fairness /\ IntervalFairness

-------------------------------------------------------------------------------
\* No change of a file goes unannounced where a watcher, a resync and a SIGHUP work on
\* it at once: a pass that finds the file unchanged and notifies nobody can rely on
\* another one that still has to (generateFromContainers and the watcher's loop).
OverlapNotifies == part = "overlap" => Overlap!NoLostNotification

\* Once the containers stop changing, the file of a config with an interval ends up
\* describing them and its readers end up having loaded it, whatever has failed and
\* however the ticker's passes and the watcher's overlap (generateAtInterval).
IntervalFollowsDocker ==
  <>[](part = "interval" => \A g \in Interval!Workers : Interval!UpToDate(1))
===============================================================================
