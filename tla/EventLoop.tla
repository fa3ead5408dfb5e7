------------------------------- MODULE EventLoop -------------------------------
(***************************************************************************)
(* How changes and signals reach the goroutines of docker-gen              *)
(* (generateFromEvents, generateFromSignals, generateAtInterval,           *)
(* newSignalChannel and newDebounceChannel in                              *)
(* internal/generator/generator.go).                                       *)
(*                                                                         *)
(* One goroutine, Events, keeps a docker client and a registered listener, *)
(* takes events from eventChan and hands each to the watchers, one after   *)
(* the other. Between it and a watcher with Wait stands a debouncer, which *)
(* lets several events through as one; it is the debouncer of Coalesce, so *)
(* that it has no clock. Signals walks over all configs on SIGHUP, a       *)
(* ticker generates one config at an interval. Those three have a signal   *)
(* channel of their own. A generation pass is one step here, at the moment *)
(* it lists the containers: the rest of it is in Regenerate.               *)
(***************************************************************************)
EXTENDS Naturals, FiniteSets

CONSTANTS
  NumConfigs,   \* the configs are 1..NumConfigs, in the order of the file
  Watched,      \* those with Watch
  Debounced,    \* those of them with Wait.Min above zero
  Ticking,      \* those with Interval
  ChanCap,      \* capacity of eventChan and of the watchers' channels
  Bounds        \* how often the environment may do each limited thing

Configs == 1..NumConfigs
Limited == {"change", "down", "fault", "hup", "term"}

Events     == <<"events", 0>>
Signals    == <<"signals", 0>>
Watcher(c) == <<"watch", c>>
Ticker(c)  == <<"tick", c>>
Debouncer(c) == <<"debounce", c>>

\* The goroutines with a signal channel, and those Generate() waits for.
Receivers == (IF Watched = {} THEN {} ELSE {Events, Signals})
             \cup {Ticker(c) : c \in Ticking}
Waited == (Receivers \ {Events}) \cup {Watcher(c) : c \in Watched}
Goroutines == Receivers \cup {Watcher(c) : c \in Watched}
              \cup {Debouncer(c) : c \in Debounced}

ASSUME LoopAssumption ==
  /\ NumConfigs \in Nat \ {0}
  /\ Watched \subseteq Configs /\ Ticking \subseteq Configs
  /\ Debounced \subseteq Watched
  /\ ChanCap \in Nat \ {0}
  /\ Bounds \in [Limited -> Nat]

VARIABLES
  left,       \* what is left of Bounds
  up,         \* the daemon answers
  version,    \* how often the containers have changed
  registered, \* the client library sends events to eventChan
  live,       \* its connection to the daemon holds
  closed,     \* it has closed eventChan
  events,     \* number of events in eventChan
  queue,      \* number of events in each watcher's channel
  shut,       \* the watchers' channels are closed
  kept,       \* the debouncers that keep an event and have their timers running
  output,     \* number of events in each debouncer's output channel
  pc,         \* where each goroutine is
  rest,       \* the configs it has yet to serve in its walk or its fan-out
  sig,        \* what is in each signal channel
  delivered,  \* the goroutines whose channel took the SIGTERM
  listed,     \* the version each config was last generated from
  lost        \* history: the configs that were to be listed for the latest change
              \* or sync, in vain

libVars  == <<registered, live, closed>>
debounceVars == <<kept, output>>
chanVars == <<queue, shut, debounceVars>>
loopVars == <<chanVars, pc, rest>>
passVars == <<listed, lost>>
vars == <<left, up, version, registered, live, closed, events, queue, shut, kept,
          output, pc, rest, sig, delivered, listed, lost>>

Spend(what) == /\ left[what] > 0
               /\ left' = [left EXCEPT ![what] = @ - 1]

Goto(g, point) == pc' = [pc EXCEPT ![g] = point]

First(S) == CHOOSE c \in S : \A d \in S : c <= d

\* The pass that Generate() begins with is over, and the containers have changed
\* since.
Init ==
  /\ left = Bounds
  /\ up = TRUE /\ version = 1
  /\ registered = FALSE /\ live = FALSE /\ closed = FALSE
  /\ events = 0
  /\ queue = [c \in Watched |-> 0]
  /\ shut = FALSE
  /\ kept = {} /\ output = [c \in Debounced |-> 0]
  /\ pc = [g \in Goroutines |-> IF g \in Receivers THEN "start" ELSE "wait"]
  /\ rest = [g \in Goroutines |-> {}]
  /\ sig = [g \in Receivers |-> "none"]
  /\ delivered = {}
  /\ listed = [c \in Configs |-> 0]
  /\ lost = {}

--------------------------------------------------------------------------------
(* The environment.                                                        *)

\* A container changes.  The library drops the event when eventChan is full.
Change ==
  /\ Spend("change")
  /\ version' = version + 1
  /\ events' = IF registered /\ live /\ ~closed /\ events < ChanCap
               THEN events + 1 ELSE events
  /\ lost' = {}
  /\ UNCHANGED <<up, libVars, loopVars, sig, delivered, listed>>

\* The daemon stops, and the connection with it; or it comes back.
DaemonDown ==
  /\ up
  /\ Spend("down")
  /\ up' = FALSE /\ live' = FALSE
  /\ UNCHANGED <<version, registered, closed, events, loopVars, sig, delivered,
                 passVars>>

DaemonUp ==
  /\ ~up /\ up' = TRUE
  /\ UNCHANGED <<left, version, libVars, events, loopVars, sig, delivered,
                 passVars>>

\* The library notices the loss and closes the channel.
CloseListener ==
  /\ registered /\ ~live
  /\ registered' = FALSE /\ closed' = TRUE
  /\ UNCHANGED <<left, up, version, live, events, loopVars, sig, delivered,
                 passVars>>

\* The goroutines that have called newSignalChannel and have not yet returned.
Notified == {g \in Receivers : pc[g] \notin {"start", "done"}}

\* os/signal offers the signal to every registered channel and drops it where
\* the one place is taken.  Before anybody is registered SIGHUP is ignored and
\* SIGTERM ends the process, which is no part of this module.
Signal(kind, s) ==
  /\ Notified # {}
  /\ Spend(kind)
  /\ sig' = [g \in Receivers |-> IF g \in Notified /\ sig[g] = "none"
                                 THEN s ELSE sig[g]]
  /\ delivered' = IF s = "term"
                  THEN delivered \cup {g \in Notified : sig[g] = "none"}
                  ELSE delivered
  /\ UNCHANGED <<up, version, libVars, events, loopVars, passVars>>

--------------------------------------------------------------------------------
(* generateFromContainers, and the loops' own pass over one config.        *)

Generate(c) ==
  /\ up
  /\ listed' = [listed EXCEPT ![c] = version]
  /\ lost' = lost \ {c}
  /\ UNCHANGED left

\* getContainers returns an error, because the daemon does not answer or for
\* another reason, with the event stream holding or not: the error is logged and
\* nothing is tried again.  The listing was to serve the events or the sync of
\* the configs in "asked"; on a connection that holds nothing else will.
ListingFails(asked) ==
  /\ (~up /\ UNCHANGED left) \/ (up /\ Spend("fault"))
  /\ lost' = IF live THEN lost \cup asked ELSE lost
  /\ UNCHANGED listed

\* A walk over the configs generates the next one; the first listing that
\* fails ends it, so that a sync leaves out the configs after it.  Then g goes to
\* "next".
Walk(g, next) ==
  /\ pc[g] = "walk"
  /\ LET c == First(rest[g]) IN
     \/ /\ Generate(c)
        /\ IF rest[g] = {c}
           THEN rest' = [rest EXCEPT ![g] = {}] /\ Goto(g, next)
           ELSE rest' = [rest EXCEPT ![g] = @ \ {c}] /\ UNCHANGED pc
     \/ /\ ListingFails(IF g = Events THEN rest[g] ELSE {})
        /\ rest' = [rest EXCEPT ![g] = {}]
        /\ Goto(g, next)
  /\ UNCHANGED <<up, version, libVars, events, chanVars, sig, delivered>>

\* newSignalChannel.
Start(g, next) ==
  /\ pc[g] = "start"
  /\ Goto(g, next)
  /\ UNCHANGED <<left, up, version, libVars, events, chanVars, rest, sig,
                 delivered, passVars>>

TakeSignal(g, s) ==
  /\ sig[g] = s
  /\ sig' = [sig EXCEPT ![g] = "none"]

--------------------------------------------------------------------------------
(* The Events goroutine.                                                   *)

\* Mutant of Register: it does not sync.
RegisterOnly ==
  /\ pc[Events] = "register"
  /\ registered' = TRUE /\ live' = up
  /\ lost' = {}
  /\ Goto(Events, "select")
  /\ UNCHANGED <<left, up, version, closed, events, chanVars, rest, sig,
                 delivered, listed>>

\* AddEventListenerWithOptions.  It may fail while the daemon is down, and is
\* tried again ten seconds later; it may as well succeed and find out later.
\* Then all configs are synced.
Register ==
  /\ pc[Events] = "register"
  /\ registered' = TRUE /\ live' = up
  /\ lost' = {}
  /\ rest' = [rest EXCEPT ![Events] = Configs]
  /\ Goto(Events, "walk")
  /\ UNCHANGED <<left, up, version, closed, events, chanVars, sig, delivered,
                 listed>>

\* Mutant of TakeEvent: the receive does not tell a closed channel from an event.
TakeAnything ==
  /\ pc[Events] = "select"
  /\ events > 0 \/ closed
  /\ events' = events - 1
  /\ rest' = [rest EXCEPT ![Events] = Watched]
  /\ Goto(Events, "fanout")
  /\ UNCHANGED <<left, up, version, libVars, chanVars, sig, delivered, passVars>>

\* An event is received and handed to the watchers in their order.
TakeEvent ==
  /\ pc[Events] = "select"
  /\ events > 0
  /\ events' = events - 1
  /\ rest' = [rest EXCEPT ![Events] = Watched]
  /\ Goto(Events, "fanout")
  /\ UNCHANGED <<left, up, version, libVars, chanVars, sig, delivered, passVars>>

\* Mutant of HandOut: a watcher whose channel is full stops the fan-out.
HandOutUntilFull ==
  /\ pc[Events] = "fanout"
  /\ LET c == First(rest[Events]) IN
     IF queue[c] < ChanCap
     THEN /\ queue' = [queue EXCEPT ![c] = @ + 1]
          /\ rest' = [rest EXCEPT ![Events] = @ \ {c}]
          /\ IF rest[Events] = {c} THEN Goto(Events, "select") ELSE UNCHANGED pc
     ELSE /\ rest' = [rest EXCEPT ![Events] = {}]
          /\ Goto(Events, "select")
          /\ UNCHANGED queue
  /\ UNCHANGED <<left, up, version, libVars, events, shut, debounceVars, sig,
                 delivered, passVars>>

\* It blocks while the channel of the next watcher is full.
HandOut ==
  /\ pc[Events] = "fanout"
  /\ LET c == First(rest[Events]) IN
     /\ queue[c] < ChanCap
     /\ queue' = [queue EXCEPT ![c] = @ + 1]
     /\ rest' = [rest EXCEPT ![Events] = @ \ {c}]
     /\ IF rest[Events] = {c} THEN Goto(Events, "select") ELSE UNCHANGED pc
  /\ UNCHANGED <<left, up, version, libVars, events, shut, debounceVars, sig,
                 delivered, passVars>>

\* eventChan is closed and empty: the client is given up and the channel made
\* anew.  The ten seconds' sleep is in the step to "register".
Interrupted ==
  /\ pc[Events] = "select"
  /\ events = 0 /\ closed
  /\ registered' = FALSE /\ live' = FALSE /\ closed' = FALSE
  /\ Goto(Events, "connect")
  /\ UNCHANGED <<left, up, version, events, chanVars, rest, sig, delivered,
                 passVars>>

\* Ten seconds without anything to do: the daemon is pinged.  If it does not
\* answer the client is given up, and the channel kept.
Timeout ==
  /\ pc[Events] = "select"
  /\ events = 0 /\ ~closed /\ sig[Events] = "none"
  /\ Goto(Events, "ping")
  /\ UNCHANGED <<left, up, version, libVars, events, chanVars, rest, sig,
                 delivered, passVars>>

Ping ==
  /\ pc[Events] = "ping"
  /\ \/ up /\ Goto(Events, "select") /\ UNCHANGED <<registered, live>>
     \/ /\ ~up
        /\ registered' = FALSE /\ live' = FALSE
        /\ Goto(Events, "connect")
  /\ UNCHANGED <<left, up, version, closed, events, chanVars, rest, sig,
                 delivered, passVars>>

\* GetEndpoint and NewDockerClient.
Connect ==
  /\ pc[Events] = "connect"
  /\ Goto(Events, "register")
  /\ UNCHANGED <<left, up, version, libVars, events, chanVars, rest, sig,
                 delivered, passVars>>

\* Mutant of EventsSignal: SIGTERM leaves the watchers' channels open.
EventsLeave ==
  /\ pc[Events] = "select"
  /\ \/ TakeSignal(Events, "term") /\ Goto(Events, "done")
     \/ TakeSignal(Events, "hup") /\ UNCHANGED pc
  /\ UNCHANGED <<left, up, version, libVars, events, chanVars, rest,
                 delivered, passVars>>

\* SIGTERM closes the watchers' channels, SIGHUP is ignored here.
EventsSignal ==
  /\ pc[Events] = "select"
  /\ \/ /\ TakeSignal(Events, "term")
        /\ shut' = TRUE
        /\ Goto(Events, "done")
     \/ TakeSignal(Events, "hup") /\ UNCHANGED <<shut, pc>>
  /\ UNCHANGED <<left, up, version, libVars, events, queue, debounceVars, rest,
                 delivered, passVars>>

EventsStep ==
  \/ Start(Events, "register") \/ Register \/ Walk(Events, "select")
  \/ TakeEvent \/ HandOut \/ Interrupted \/ Timeout \/ Ping \/ Connect
  \/ EventsSignal

--------------------------------------------------------------------------------
(* The other goroutines.                                                   *)

\* The debouncer keeps the event it receives and starts its timers.
Keep(c) ==
  /\ pc[Debouncer(c)] = "wait" /\ queue[c] > 0
  /\ queue' = [queue EXCEPT ![c] = @ - 1]
  /\ kept' = kept \cup {c}
  /\ UNCHANGED <<output, pc>>

\* One of its timers fires.
Fire(c) ==
  /\ pc[Debouncer(c)] = "wait" /\ c \in kept
  /\ Goto(Debouncer(c), "send")
  /\ UNCHANGED <<queue, kept, output>>

\* Mutant of Forward: the timers of an event that has been passed on run on.
ForwardAgain(c) ==
  /\ pc[Debouncer(c)] = "send" /\ output[c] < ChanCap
  /\ output' = [output EXCEPT ![c] = @ + 1]
  /\ Goto(Debouncer(c), "wait")
  /\ UNCHANGED <<queue, kept>>

\* It passes the event on, which blocks while the output is full.
Forward(c) ==
  /\ pc[Debouncer(c)] = "send" /\ output[c] < ChanCap
  /\ output' = [output EXCEPT ![c] = @ + 1]
  /\ kept' = kept \ {c}
  /\ Goto(Debouncer(c), "wait")
  /\ UNCHANGED queue

\* Its input is closed and empty: it forgets the event and closes the output.
Return(c) ==
  /\ pc[Debouncer(c)] = "wait" /\ queue[c] = 0 /\ shut
  /\ kept' = kept \ {c}
  /\ Goto(Debouncer(c), "done")
  /\ UNCHANGED <<queue, output>>

DebouncerStep(c) ==
  /\ Keep(c) \/ Fire(c) \/ Forward(c) \/ Return(c)
  /\ UNCHANGED <<left, up, version, libVars, events, shut, rest, sig, delivered,
                 passVars>>

\* What the watcher receives from: the output of its debouncer, or the channel
\* of the fan-out itself.
Take(c) ==
  IF c \in Debounced
  THEN output[c] > 0 /\ output' = [output EXCEPT ![c] = @ - 1] /\ UNCHANGED queue
  ELSE queue[c] > 0 /\ queue' = [queue EXCEPT ![c] = @ - 1] /\ UNCHANGED output

\* That channel is closed and empty.
Drained(c) ==
  IF c \in Debounced THEN output[c] = 0 /\ pc[Debouncer(c)] = "done"
                     ELSE queue[c] = 0 /\ shut

\* A watcher receives, generates its config once per event, and returns when
\* its channel is closed and empty.
WatcherStep(c) ==
  /\ \/ /\ pc[Watcher(c)] = "wait" /\ Take(c)
        /\ Goto(Watcher(c), "list")
        /\ UNCHANGED <<left, passVars>>
     \/ /\ pc[Watcher(c)] = "wait" /\ Drained(c)
        /\ Goto(Watcher(c), "done")
        /\ UNCHANGED <<left, queue, output, passVars>>
     \/ /\ pc[Watcher(c)] = "list"
        /\ Generate(c) \/ ListingFails({c})
        /\ Goto(Watcher(c), "wait")
        /\ UNCHANGED <<queue, output>>
  /\ UNCHANGED <<up, version, libVars, events, shut, kept, rest, sig,
                 delivered>>

SignalsSignal ==
  /\ pc[Signals] = "wait"
  /\ \/ /\ TakeSignal(Signals, "hup")
        /\ rest' = [rest EXCEPT ![Signals] = Configs]
        /\ Goto(Signals, "walk")
     \/ /\ TakeSignal(Signals, "term")
        /\ Goto(Signals, "done")
        /\ UNCHANGED rest
  /\ UNCHANGED <<left, up, version, libVars, events, chanVars, delivered,
                 passVars>>

SignalsStep ==
  \/ Start(Signals, "wait") \/ Walk(Signals, "wait") \/ SignalsSignal

\* A tick and the pass it starts; a signal.
Tick(c) ==
  /\ pc[Ticker(c)] = "wait"
  /\ Goto(Ticker(c), "list")
  /\ UNCHANGED <<left, up, version, libVars, events, chanVars, rest, sig,
                 delivered, passVars>>

TickerList(c) ==
  /\ pc[Ticker(c)] = "list"
  /\ Generate(c) \/ ListingFails({})
  /\ Goto(Ticker(c), "wait")
  /\ UNCHANGED <<up, version, libVars, events, chanVars, rest, sig,
                 delivered>>

TickerSignal(c) ==
  /\ pc[Ticker(c)] = "wait"
  /\ \/ TakeSignal(Ticker(c), "term") /\ Goto(Ticker(c), "done")
     \/ TakeSignal(Ticker(c), "hup") /\ UNCHANGED pc
  /\ UNCHANGED <<left, up, version, libVars, events, chanVars, rest,
                 delivered, passVars>>

--------------------------------------------------------------------------------
Environment ==
  \/ Change
  \/ DaemonDown
  \/ DaemonUp
  \/ Signal("hup", "hup")
  \/ Signal("term", "term")

Next ==
  \/ Environment
  \/ CloseListener
  \/ Watched # {} /\ (EventsStep \/ SignalsStep)
  \/ \E c \in Watched : WatcherStep(c)
  \/ \E c \in Debounced : DebouncerStep(c)
  \/ \E c \in Ticking : Start(Ticker(c), "wait") \/ Tick(c)
                        \/ TickerList(c) \/ TickerSignal(c)

\* The scheduler runs every goroutine, the library notices a lost connection,
\* a registration succeeds if it is tried while the daemon answers, and select
\* does not pass over a signal forever (Go picks among the ready cases at
\* random).
Fairness ==
  /\ WF_vars(CloseListener)
  /\ Watched # {} => /\ WF_vars(EventsStep /\ (pc[Events] = "register" => up))
                     /\ SF_vars(EventsSignal)
                     /\ WF_vars(SignalsStep)
  /\ \A c \in Watched : WF_vars(WatcherStep(c))
  /\ \A c \in Debounced : WF_vars(DebouncerStep(c))
  /\ \A c \in Ticking : /\ WF_vars(Start(Ticker(c), "wait") \/ TickerList(c))
                        /\ SF_vars(TickerSignal(c))

Spec == Init /\ [][Next]_vars

FairSpec == Spec /\ Fairness

--------------------------------------------------------------------------------
(* Properties.                                                             *)

TypeOK ==
  /\ left \in [Limited -> Nat]
  /\ up \in BOOLEAN /\ version \in Nat
  /\ registered \in BOOLEAN /\ live \in BOOLEAN /\ closed \in BOOLEAN
  /\ events \in 0..ChanCap
  /\ queue \in [Watched -> 0..ChanCap]
  /\ shut \in BOOLEAN
  /\ kept \subseteq Debounced /\ output \in [Debounced -> 0..ChanCap]
  /\ pc \in [Goroutines -> {"start", "connect", "register", "walk", "select",
                            "fanout", "ping", "wait", "list", "send", "done"}]
  /\ rest \in [Goroutines -> SUBSET Configs]
  /\ sig \in [Receivers -> {"none", "hup", "term"}]
  /\ delivered \subseteq Receivers
  /\ listed \in [Configs -> Nat]
  /\ lost \subseteq Configs

\* Something will have config c listed again.
Pending(c) ==
  \/ ~registered \/ ~live \/ closed
  \/ pc[Events] = "walk" /\ c \in rest[Events]
  \/ events > 0
  \/ pc[Events] = "fanout" /\ c \in rest[Events]
  \/ queue[c] > 0
  \/ c \in kept \/ (c \in Debounced /\ output[c] > 0)
  \/ pc[Watcher(c)] = "list"

\* As long as docker-gen is not shutting down, a watched config that was last
\* generated before the latest change has something on its way that generates it
\* again, or a listing that was to do so has failed on a connection that holds: no
\* event is lost between the daemon, eventChan, which drops events when it is full,
\* the fan-out, the debouncers and the watchers, or around a reconnection.
NoMissedChange ==
  \A c \in Watched :
    listed[c] < version => pc[Events] = "done" \/ Pending(c) \/ c \in lost

\* The configs that were generated before the latest change, and that nothing will
\* have listed again.
LeftOut == {c \in Watched : listed[c] < version /\ ~Pending(c)}

\* A listing that fails leaves out at most the config it was for ("sync all configs
\* after resuming listener", generateFromEvents).
OnlyFailedLeftOut ==
  pc[Events] = "done" \/ Cardinality(LeftOut) <= Bounds["fault"] - left["fault"]

Feed == INSTANCE ChangeFeed WITH
          dirty <- {c \in Watched : listed[c] < version},
          lost <- lost \cap Watched,
          stopped <- Watched # {} /\ pc[Events] = "done"

\* Each watched config is generated again after a change, unless a listing fails (the
\* loop as a whole implements ChangeFeed).
ImplementsFeed == Feed!Spec

Merge(c) == INSTANCE Coalesce WITH
              queue <- queue[c], at <- pc[Debouncer(c)], kept <- c \in kept,
              output <- output[c]

\* Every debouncer goes through the steps of Coalesce, whatever the rest of the
\* loop does: it is handed events only before its channel is closed, and forgets
\* one only after that (newDebounceChannel between the fan-out and a watcher).
DebouncersCoalesce ==
  /\ \A c \in Debounced : Merge(c)!Init
  /\ [][\A c \in Debounced : [Merge(c)!Next]_(Merge(c)!vars)]_vars

\* The process exits when the goroutines in the wait group have returned.
Exited == \A g \in Waited : pc[g] = "done"

\* If SIGTERM gets into every signal channel, and the daemon answers from some
\* time on, the process exits ("exit when context is done", "close all watchers
\* and exit").  While the daemon does not answer, the Events goroutine sleeps and
\* retries, and never receives the signal.
TermStops == <>[]up => (delivered = Receivers ~> Exited)

\* The same of every SIGTERM that is sent when all goroutines are running.
TermSent == left["term"] < Bounds["term"]
AllReceive == \A g \in Receivers : pc[g] # "start"
EveryTermStops == [](AllReceive /\ ~TermSent => [](TermSent => <>Exited))
================================================================================
