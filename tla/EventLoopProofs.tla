---------------------------- MODULE EventLoopProofs ----------------------------
(***************************************************************************)
(* Theorems about EventLoop, for every set of configs, every channel       *)
(* capacity and every bound.                                               *)
(***************************************************************************)
EXTENDS EventLoop, TLAPS

--------------------------------------------------------------------------------
(* Typing.                                                                 *)

Points == {"start", "connect", "register", "walk", "select", "fanout", "ping",
           "wait", "list", "send", "done"}

\* Tuples of variables that most steps leave alone.
USE DEF chanVars, debounceVars, passVars

LEMMA GoroutineNames ==
  /\ Watched # {} => Events \in Receivers /\ Signals \in Receivers
  /\ \A c \in Watched : Watcher(c) \in Goroutines
  /\ \A c \in Ticking : Ticker(c) \in Receivers
  /\ Receivers \subseteq Goroutines
  /\ \A c \in Debounced : c \in Watched /\ Debouncer(c) \in Goroutines
BY LoopAssumption DEF Receivers, Goroutines

LEMMA GotoType ==
  ASSUME TypeOK, NEW g, NEW point \in Points, Goto(g, point)
  PROVE  pc' \in [Goroutines -> Points]
BY DEF TypeOK, Goto, Points

LEMMA SpendType ==
  ASSUME TypeOK, NEW what, Spend(what)
  PROVE  left' \in [Limited -> Nat]
<1>1. CASE what \in Limited
  BY <1>1 DEF TypeOK, Spend
<1>2. CASE what \notin Limited
  BY <1>2 DEF TypeOK, Spend
<1> QED
  BY <1>1, <1>2

\* What a listing leaves behind, whether it succeeds or fails.
PassType == /\ left' \in [Limited -> Nat]
            /\ listed' \in [Configs -> Nat]
            /\ lost' \subseteq Configs

LEMMA GenerateType ==
  ASSUME TypeOK, NEW c, Generate(c)
  PROVE  PassType
BY DEF TypeOK, Generate, PassType

LEMMA ListingFailsType ==
  ASSUME TypeOK, NEW asked \in SUBSET Configs, ListingFails(asked)
  PROVE  PassType
<1>1. left' \in [Limited -> Nat]
  BY SpendType DEF ListingFails, TypeOK
<1> QED
  BY <1>1 DEF TypeOK, ListingFails, PassType

LEMMA TakeSignalType ==
  ASSUME TypeOK, NEW g, NEW s, TakeSignal(g, s)
  PROVE  sig' \in [Receivers -> {"none", "hup", "term"}]
BY DEF TypeOK, TakeSignal

LEMMA InitType == Init => TypeOK
<1> SUFFICES ASSUME Init PROVE TypeOK
  OBVIOUS
<1>1. ChanCap \in Nat /\ 0 \in 0..ChanCap
  BY LoopAssumption
<1>2. events \in 0..ChanCap /\ queue \in [Watched -> 0..ChanCap]
  BY <1>1 DEF Init
<1> QED
  BY <1>2, LoopAssumption DEF Init, TypeOK

LEMMA EnvironmentType ==
  ASSUME TypeOK, Environment \/ CloseListener
  PROVE  TypeOK'
<1>1. CASE Change
  <2>1. events' \in 0..ChanCap
    BY <1>1, LoopAssumption DEF TypeOK, Change
  <2>2. left' \in [Limited -> Nat]
    BY <1>1, SpendType DEF Change
  <2> QED
    BY <1>1, <2>1, <2>2 DEF TypeOK, Change, libVars, loopVars
<1>2. CASE DaemonDown
  <2>1. left' \in [Limited -> Nat]
    BY <1>2, SpendType DEF DaemonDown
  <2> QED
    BY <1>2, <2>1 DEF TypeOK, DaemonDown, loopVars
<1>3. CASE DaemonUp
  BY <1>3 DEF TypeOK, DaemonUp, libVars, loopVars
<1>4. ASSUME NEW kind, NEW s \in {"hup", "term"}, Signal(kind, s)
      PROVE  TypeOK'
  <2>1. left' \in [Limited -> Nat]
    BY <1>4, SpendType DEF Signal
  <2>2. sig' \in [Receivers -> {"none", "hup", "term"}]
    BY <1>4 DEF TypeOK, Signal
  <2>3. delivered' \subseteq Receivers
    BY <1>4 DEF TypeOK, Signal, Notified
  <2> QED
    BY <1>4, <2>1, <2>2, <2>3 DEF TypeOK, Signal, libVars, loopVars
<1>5. CASE CloseListener
  BY <1>5 DEF TypeOK, CloseListener, loopVars
<1> QED
  BY <1>1, <1>2, <1>3, <1>4, <1>5 DEF Environment

LEMMA WalkType ==
  ASSUME TypeOK, NEW g \in Goroutines, NEW next \in Points, Walk(g, next)
  PROVE  TypeOK'
<1> DEFINE c == First(rest[g])
<1>1. rest' \in [Goroutines -> SUBSET Configs]
  BY DEF TypeOK, Walk
<1>2. pc' \in [Goroutines -> Points]
  BY GotoType DEF TypeOK, Walk, Points
<1>3. PassType
  <2>1. (IF g = Events THEN rest[g] ELSE {}) \subseteq Configs
    BY DEF TypeOK
  <2>2. CASE Generate(c)
    BY <2>2, GenerateType
  <2>3. CASE ListingFails(IF g = Events THEN rest[g] ELSE {})
    BY <2>1, <2>3, ListingFailsType
  <2> QED
    BY <2>2, <2>3 DEF Walk
<1> QED
  BY <1>1, <1>2, <1>3 DEF TypeOK, Walk, libVars, Points, PassType

LEMMA StartType ==
  ASSUME TypeOK, NEW g, NEW next \in Points, Start(g, next)
  PROVE  TypeOK'
BY GotoType DEF TypeOK, Start, libVars, Points

LEMMA EventsStepType ==
  ASSUME TypeOK, Watched # {}, EventsStep
  PROVE  TypeOK'
<1> USE DEF libVars
<1>1. CASE Start(Events, "register") \/ Walk(Events, "select")
  BY <1>1, StartType, WalkType, GoroutineNames DEF Points
<1>2. CASE Register
  <2>1. rest' \in [Goroutines -> SUBSET Configs]
    BY <1>2 DEF TypeOK, Register
  <2> QED
    BY <1>2, <2>1, GotoType DEF TypeOK, Register, Points
<1>3. CASE TakeEvent
  <2>1. rest' \in [Goroutines -> SUBSET Configs]
    BY <1>3, LoopAssumption DEF TypeOK, TakeEvent
  <2>2. events' \in 0..ChanCap
    BY <1>3, LoopAssumption DEF TypeOK, TakeEvent
  <2> QED
    BY <1>3, <2>1, <2>2, GotoType DEF TypeOK, TakeEvent, Points
<1>4. CASE HandOut
  <2>1. PICK c : /\ queue[c] < ChanCap
                 /\ queue' = [queue EXCEPT ![c] = @ + 1]
                 /\ rest' = [rest EXCEPT ![Events] = @ \ {c}]
                 /\ Goto(Events, "select") \/ UNCHANGED pc
    BY <1>4 DEF HandOut
  <2>2. queue' \in [Watched -> 0..ChanCap]
    <3>1. CASE c \in Watched
      BY <2>1, <3>1, LoopAssumption DEF TypeOK
    <3>2. CASE c \notin Watched
      BY <2>1, <3>2 DEF TypeOK
    <3> QED
      BY <3>1, <3>2
  <2>3. rest' \in [Goroutines -> SUBSET Configs]
    BY <2>1 DEF TypeOK
  <2>4. pc' \in [Goroutines -> Points]
    BY <2>1, GotoType DEF TypeOK, Points
  <2> QED
    BY <1>4, <2>2, <2>3, <2>4 DEF TypeOK, HandOut, Points
<1>5. CASE Interrupted
  BY <1>5, GotoType DEF TypeOK, Interrupted, Points
<1>6. CASE Timeout
  BY <1>6, GotoType DEF TypeOK, Timeout, Points
<1>7. CASE Ping
  BY <1>7, GotoType DEF TypeOK, Ping, Points
<1>8. CASE Connect
  BY <1>8, GotoType DEF TypeOK, Connect, Points
<1>9. CASE EventsSignal
  BY <1>9, GotoType, TakeSignalType DEF TypeOK, EventsSignal, Points
<1> QED
  BY <1>1, <1>2, <1>3, <1>4, <1>5, <1>6, <1>7, <1>8, <1>9 DEF EventsStep

LEMMA SignalsStepType ==
  ASSUME TypeOK, Watched # {}, SignalsStep
  PROVE  TypeOK'
<1>1. CASE Start(Signals, "wait") \/ Walk(Signals, "wait")
  BY <1>1, StartType, WalkType, GoroutineNames DEF Points
<1>2. CASE SignalsSignal
  <2>1. rest' \in [Goroutines -> SUBSET Configs]
    BY <1>2 DEF TypeOK, SignalsSignal
  <2>2. pc' \in [Goroutines -> Points]
    BY <1>2, GotoType DEF SignalsSignal, Points
  <2>3. sig' \in [Receivers -> {"none", "hup", "term"}]
    BY <1>2, TakeSignalType DEF SignalsSignal
  <2> QED
    BY <1>2, <2>1, <2>2, <2>3 DEF TypeOK, SignalsSignal, libVars, Points
<1> QED
  BY <1>1, <1>2 DEF SignalsStep

LEMMA TakeType ==
  ASSUME TypeOK, NEW c \in Watched, Take(c)
  PROVE  queue' \in [Watched -> 0..ChanCap] /\ output' \in [Debounced -> 0..ChanCap]
<1>1. CASE c \in Debounced
  BY <1>1, LoopAssumption DEF TypeOK, Take
<1>2. CASE c \notin Debounced
  BY <1>2, LoopAssumption DEF TypeOK, Take
<1> QED
  BY <1>1, <1>2

LEMMA WatcherStepType ==
  ASSUME TypeOK, NEW c \in Watched, WatcherStep(c)
  PROVE  TypeOK'
<1>1. pc' \in [Goroutines -> Points]
  BY GotoType DEF WatcherStep, Points
<1>2. queue' \in [Watched -> 0..ChanCap] /\ output' \in [Debounced -> 0..ChanCap]
  BY TakeType DEF TypeOK, WatcherStep
<1>3. PassType
  <2>1. {c} \subseteq Configs
    BY LoopAssumption
  <2>2. CASE Generate(c) \/ ListingFails({c})
    BY <2>1, <2>2, GenerateType, ListingFailsType
  <2>3. CASE UNCHANGED <<left, listed, lost>>
    BY <2>3 DEF TypeOK, PassType
  <2> QED
    BY <2>2, <2>3 DEF WatcherStep
<1> QED
  BY <1>1, <1>2, <1>3 DEF TypeOK, WatcherStep, libVars, Points, PassType

LEMMA DebouncerStepType ==
  ASSUME TypeOK, NEW c \in Debounced, DebouncerStep(c)
  PROVE  TypeOK'
<1>1. c \in Watched
  BY LoopAssumption
<1>2. pc' \in [Goroutines -> Points]
  BY GotoType DEF TypeOK, DebouncerStep, Keep, Fire, Forward, Return, Points
<1>3. queue' \in [Watched -> 0..ChanCap]
  BY <1>1, LoopAssumption DEF TypeOK, DebouncerStep, Keep, Fire, Forward, Return
<1>4. output' \in [Debounced -> 0..ChanCap]
  BY LoopAssumption DEF TypeOK, DebouncerStep, Keep, Fire, Forward, Return
<1>5. kept' \subseteq Debounced
  BY DEF TypeOK, DebouncerStep, Keep, Fire, Forward, Return
<1> QED
  BY <1>2, <1>3, <1>4, <1>5 DEF TypeOK, DebouncerStep, libVars, Points

LEMMA TickerStepType ==
  ASSUME TypeOK, NEW c \in Ticking,
         \/ Start(Ticker(c), "wait") \/ Tick(c) \/ TickerList(c)
         \/ TickerSignal(c)
  PROVE  TypeOK'
<1>1. CASE Start(Ticker(c), "wait")
  BY <1>1, StartType DEF Points
<1>2. CASE Tick(c)
  BY <1>2, GotoType DEF TypeOK, Tick, libVars, Points
<1>3. CASE TickerList(c)
  <2>1. PassType
    BY <1>3, GenerateType, ListingFailsType DEF TickerList
  <2> QED
    BY <1>3, <2>1, GotoType DEF TypeOK, TickerList, libVars, Points, PassType
<1>4. CASE TickerSignal(c)
  BY <1>4, GotoType, TakeSignalType DEF TypeOK, TickerSignal, libVars, Points
<1> QED
  BY <1>1, <1>2, <1>3, <1>4

LEMMA NextType == TypeOK /\ [Next]_vars => TypeOK'
<1> SUFFICES ASSUME TypeOK, [Next]_vars PROVE TypeOK'
  OBVIOUS
<1>1. CASE UNCHANGED vars
  BY <1>1 DEF TypeOK, vars
<1> QED
  BY <1>1, EnvironmentType, EventsStepType, SignalsStepType, WatcherStepType,
     DebouncerStepType, TickerStepType DEF Next

\* Every reachable state is well typed; the channels keep to their capacity.
THEOREM TypeCorrect == Spec => []TypeOK
BY InitType, NextType, PTL DEF Spec

--------------------------------------------------------------------------------
(* No change is missed.  NoMissedChange is inductive as it stands: a listing *)
(* that fails when the connection is lost is made up for by the              *)
(* reconnection, and one that fails while it holds puts its configs in lost. *)
(* That such a connection is one to a daemon that is up is for ChangeFeed,   *)
(* where attempts fail only then.                                            *)

FeedInv ==
  /\ live => up
  /\ NoMissedChange

LEMMA Names ==
  /\ \A c : Watcher(c) # Events /\ Ticker(c) # Events /\ Watcher(c) # Signals
  /\ \A c, d : Watcher(c) # Ticker(d)
  /\ \A c, d : Watcher(c) = Watcher(d) => c = d
  /\ \A c, d : Debouncer(c) # Events /\ Debouncer(c) # Watcher(d)
  /\ Signals # Events
BY DEF Watcher, Ticker, Debouncer, Events, Signals

\* The watchers' channels are closed by the Events goroutine on its way out: only
\* then does a debouncer forget the event it keeps.
ShutInv == shut => pc[Events] = "done"

LEMMA NextShut == TypeOK /\ ShutInv /\ [Next]_vars => ShutInv'
<1> SUFFICES ASSUME TypeOK, ShutInv, [Next]_vars, shut' PROVE pc'[Events] = "done"
  BY DEF ShutInv
<1>1. CASE Watched # {} /\ EventsSignal
  <2>1. Events \in Goroutines
    BY <1>1, GoroutineNames
  <2> QED
    BY <1>1, <2>1 DEF TypeOK, EventsSignal, Goto, ShutInv
<1>2. CASE UNCHANGED vars \/ Environment \/ CloseListener
  BY <1>2 DEF vars, Environment, Change, DaemonDown, DaemonUp, Signal,
              CloseListener, loopVars, ShutInv
<1>3. CASE EventsStep /\ ~EventsSignal
  BY <1>3 DEF EventsStep, Start, Register, Walk, TakeEvent, HandOut, Interrupted,
              Timeout, Ping, Connect, ShutInv
<1>4. ASSUME shut, pc[Events] = "done",
             NEW h \in Goroutines \ {Events}, NEW point, Goto(h, point)
      PROVE  pc'[Events] = "done"
  BY <1>4 DEF TypeOK, Goto
<1>5. CASE Watched # {} /\ SignalsStep
  BY <1>4, <1>5, GoroutineNames, Names
     DEF SignalsStep, Start, Walk, SignalsSignal, ShutInv
<1>6. ASSUME NEW c \in Watched, WatcherStep(c)
      PROVE  pc'[Events] = "done"
  BY <1>4, <1>6, GoroutineNames, Names DEF WatcherStep, ShutInv
<1>7. ASSUME NEW c \in Debounced, DebouncerStep(c)
      PROVE  pc'[Events] = "done"
  BY <1>4, <1>7, GoroutineNames, Names
     DEF DebouncerStep, Keep, Fire, Forward, Return, ShutInv
<1>8. ASSUME NEW c \in Ticking,
             Start(Ticker(c), "wait") \/ Tick(c) \/ TickerList(c) \/ TickerSignal(c)
      PROVE  pc'[Events] = "done"
  BY <1>4, <1>8, GoroutineNames, Names
     DEF Start, Tick, TickerList, TickerSignal, ShutInv
<1> QED
  BY <1>1, <1>2, <1>3, <1>5, <1>6, <1>7, <1>8 DEF Next

\* What a step must leave alone, or make up for, config by config.
LEMMA FeedStep ==
  ASSUME FeedInv, live' => up',
         \A c \in Watched :
           \/ listed'[c] >= version' /\ listed'[c] \in Nat /\ version' \in Nat
           \/ Pending(c)'
           \/ pc'[Events] = "done"
           \/ c \in lost'
           \/ /\ version' = version /\ listed'[c] = listed[c]
              /\ pc[Events] = "done" => pc'[Events] = "done"
              /\ c \in lost => c \in lost'
              /\ Pending(c) => Pending(c)'
  PROVE  FeedInv'
<1> SUFFICES ASSUME NEW c \in Watched, listed'[c] < version'
             PROVE  pc'[Events] = "done" \/ Pending(c)' \/ c \in lost'
  BY DEF FeedInv, NoMissedChange
<1>1. CASE listed'[c] >= version' /\ listed'[c] \in Nat /\ version' \in Nat
  BY <1>1
<1>2. CASE /\ version' = version /\ listed'[c] = listed[c]
           /\ pc[Events] = "done" => pc'[Events] = "done"
           /\ c \in lost => c \in lost'
           /\ Pending(c) => Pending(c)'
  BY <1>2 DEF FeedInv, NoMissedChange
<1> QED
  BY <1>1, <1>2

LEMMA EnvironmentFeed ==
  ASSUME TypeOK, FeedInv, Environment \/ CloseListener
  PROVE  FeedInv'
<1>1. CASE Change
  <2>1. ASSUME NEW c \in Watched
        PROVE  Pending(c)'
    <3>1. CASE registered /\ live /\ ~closed
      <4>1. events' > 0
        BY <1>1, <3>1, LoopAssumption DEF TypeOK, Change
      <4> QED
        BY <4>1 DEF Pending
    <3>2. CASE ~(registered /\ live /\ ~closed)
      BY <1>1, <3>2 DEF Change, libVars, Pending
    <3> QED
      BY <3>1, <3>2
  <2> QED
    BY <1>1, <2>1, FeedStep DEF Change, libVars, FeedInv
<1>2. CASE DaemonDown
  BY <1>2, FeedStep DEF DaemonDown, Pending
<1>3. CASE DaemonUp
  BY <1>3 DEF DaemonUp, libVars, loopVars, FeedInv, NoMissedChange, Pending
<1>4. ASSUME NEW kind, NEW s, Signal(kind, s)
      PROVE  FeedInv'
  BY <1>4 DEF Signal, libVars, loopVars, FeedInv, NoMissedChange, Pending
<1>5. CASE CloseListener
  BY <1>5, FeedStep DEF CloseListener, Pending, FeedInv
<1> QED
  BY <1>1, <1>2, <1>3, <1>4, <1>5 DEF Environment

\* A listing that succeeds settles its config; one that fails shows that the
\* connection is gone, or counts its configs as lost.
LEMMA GenerateFeed ==
  ASSUME TypeOK, NEW c \in Watched, NEW d, Generate(d), UNCHANGED version
  PROVE  \/ listed'[c] >= version' /\ listed'[c] \in Nat /\ version' \in Nat
         \/ c # d /\ listed'[c] = listed[c] /\ (c \in lost => c \in lost')
BY LoopAssumption DEF TypeOK, Generate

LEMMA FailFeed ==
  ASSUME NEW asked, ListingFails(asked), UNCHANGED <<live, registered, closed>>,
         NEW c
  PROVE  \/ Pending(c)'
         \/ c \in asked /\ c \in lost'
         \/ c \notin asked /\ listed'[c] = listed[c] /\ (c \in lost => c \in lost')
BY DEF ListingFails, Pending

LEMMA WalkFeed ==
  ASSUME TypeOK, FeedInv, Watched # {}, NEW g \in {Events, Signals},
         NEW next \in {"select", "wait"}, Walk(g, next),
         g = Events => next = "select"
  PROVE  FeedInv'
<1> DEFINE d == First(rest[g])
<1>0. g \in Goroutines
  BY GoroutineNames
<1>1. live' => up'
  BY DEF Walk, libVars, FeedInv
<1>2. CASE /\ ListingFails(IF g = Events THEN rest[g] ELSE {})
           /\ rest' = [rest EXCEPT ![g] = {}]
           /\ Goto(g, next)
  <2>1. /\ UNCHANGED <<version, registered, live, closed, events, queue, kept,
                        output>>
        /\ pc[g] = "walk"
    BY DEF Walk, libVars
  <2>2. ASSUME NEW c \in Watched, Pending(c), c \notin (IF g = Events THEN rest[g] ELSE {})
        PROVE  Pending(c)'
    <3>1. pc'[Watcher(c)] = pc[Watcher(c)]
      BY <1>2, Names, GoroutineNames DEF TypeOK, Goto
    <3>2. CASE g = Events
      BY <2>1, <2>2, <3>1, <3>2 DEF Pending
    <3>3. CASE g # Events
      <4>1. pc'[Events] = pc[Events] /\ rest'[Events] = rest[Events]
        BY <1>0, <1>2, <3>3, GoroutineNames DEF TypeOK, Goto
      <4> QED
        BY <2>1, <2>2, <3>1, <4>1 DEF Pending
    <3> QED
      BY <3>2, <3>3
  <2>3. pc[Events] = "done" => pc'[Events] = "done"
    BY <1>0, <1>2, <2>1, GoroutineNames DEF TypeOK, Goto
  <2>4. ASSUME NEW c \in Watched
        PROVE  \/ Pending(c)'
               \/ c \in lost'
               \/ /\ version' = version /\ listed'[c] = listed[c]
                  /\ pc[Events] = "done" => pc'[Events] = "done"
                  /\ c \in lost => c \in lost'
                  /\ Pending(c) => Pending(c)'
    BY <1>2, <2>1, <2>2, <2>3, FailFeed
  <2> QED
    BY <1>1, <2>4, FeedStep
<1>3. CASE /\ Generate(d)
           /\ \/ rest[g] = {d} /\ rest' = [rest EXCEPT ![g] = {}] /\ Goto(g, next)
              \/ rest' = [rest EXCEPT ![g] = @ \ {d}] /\ UNCHANGED pc
  <2>1. ASSUME NEW c \in Watched, c # d, Pending(c)
        PROVE  Pending(c)'
    <3>1. UNCHANGED <<registered, live, closed, events, queue, kept, output>>
      BY DEF Walk, libVars
    <3>2. pc'[Watcher(c)] = pc[Watcher(c)]
      BY <1>3, Names, GoroutineNames DEF TypeOK, Goto
    <3>3. pc[Events] = "walk" /\ c \in rest[Events]
            => pc'[Events] = "walk" /\ c \in rest'[Events]
      BY <1>0, <1>3, <2>1, Names, GoroutineNames DEF TypeOK, Goto
    <3>4. pc[Events] = "fanout" => g # Events
      BY DEF Walk
    <3>5. pc[Events] = "fanout" /\ c \in rest[Events]
            => pc'[Events] = "fanout" /\ c \in rest'[Events]
      BY <1>0, <1>3, <3>4, Names, GoroutineNames DEF TypeOK, Goto
    <3> QED
      BY <2>1, <3>1, <3>2, <3>3, <3>5 DEF Pending
  <2>2. pc[Events] = "done" => pc'[Events] = "done"
    BY <1>0, <1>3, Names, GoroutineNames DEF TypeOK, Goto, Walk
  <2>3. UNCHANGED version
    BY DEF Walk
  <2>4. ASSUME NEW c \in Watched
        PROVE  \/ listed'[c] >= version' /\ listed'[c] \in Nat /\ version' \in Nat
               \/ /\ version' = version /\ listed'[c] = listed[c]
                  /\ pc[Events] = "done" => pc'[Events] = "done"
                  /\ c \in lost => c \in lost'
                  /\ Pending(c) => Pending(c)'
    BY <1>3, <2>1, <2>2, <2>3, GenerateFeed
  <2> QED
    BY <1>1, <2>4, FeedStep
<1> QED
  BY <1>2, <1>3 DEF Walk

LEMMA StartFeed ==
  ASSUME TypeOK, FeedInv, NEW g, NEW next, Start(g, next), next # "done"
  PROVE  FeedInv'
<1>1. ASSUME NEW h \in Goroutines
      PROVE  pc[h] # "start" => pc'[h] = pc[h]
  BY DEF TypeOK, Start, Goto
<1>2. ASSUME NEW c \in Watched, Pending(c)
      PROVE  Pending(c)'
  BY <1>1, <1>2, GoroutineNames DEF Start, Pending, libVars
<1> QED
  BY <1>1, <1>2, FeedStep, GoroutineNames DEF Start, libVars, FeedInv

LEMMA EventsFeed ==
  ASSUME TypeOK, FeedInv, Watched # {}, EventsStep
  PROVE  FeedInv'
<1>0. Events \in Goroutines /\ \A c \in Watched : Watcher(c) \in Goroutines
  BY GoroutineNames
<1>1. CASE Start(Events, "register")
  BY <1>1, StartFeed
<1>2. CASE Walk(Events, "select")
  BY <1>2, WalkFeed
<1>3. CASE Register
  <2>1. \A c \in Watched : Pending(c)'
    BY <1>0, <1>3, LoopAssumption DEF TypeOK, Register, Goto, Pending
  <2> QED
    BY <1>3, <2>1, FeedStep DEF Register
<1>4. CASE TakeEvent
  <2>1. \A c \in Watched : Pending(c)'
    BY <1>0, <1>4 DEF TypeOK, TakeEvent, Goto, Pending
  <2> QED
    BY <1>4, <2>1, FeedStep DEF TakeEvent, libVars, FeedInv
<1>5. CASE HandOut
  <2>1. PICK d : /\ queue' = [queue EXCEPT ![d] = @ + 1]
                 /\ rest' = [rest EXCEPT ![Events] = @ \ {d}]
                 /\ \/ rest[Events] = {d} /\ Goto(Events, "select")
                    \/ UNCHANGED pc
    BY <1>5 DEF HandOut
  <2>2. ASSUME NEW c \in Watched, Pending(c)
        PROVE  Pending(c)'
    <3>1. CASE c = d
      <4>1. queue'[c] > 0
        BY <2>1, <3>1, LoopAssumption DEF TypeOK
      <4> QED
        BY <4>1 DEF Pending
    <3>2. CASE c # d
      <4>1. queue'[c] = queue[c]
        BY <2>1, <3>2 DEF TypeOK
      <4>2. c \in rest[Events] => c \in rest'[Events] /\ pc'[Events] = pc[Events]
        BY <1>0, <2>1, <3>2 DEF TypeOK
      <4>3. pc'[Watcher(c)] = pc[Watcher(c)]
        BY <1>0, <2>1, Names DEF TypeOK, Goto
      <4> QED
        BY <1>5, <2>2, <4>1, <4>2, <4>3 DEF HandOut, libVars, Pending
    <3> QED
      BY <3>1, <3>2
  <2> QED
    BY <1>5, <2>2, FeedStep DEF HandOut, libVars, FeedInv
<1>6. CASE Interrupted
  <2>1. \A c \in Watched : Pending(c)'
    BY <1>6 DEF Interrupted, Pending
  <2> QED
    BY <1>6, <2>1, FeedStep DEF Interrupted
<1>7. CASE Ping
  <2>1. CASE ~up
    <3>1. \A c \in Watched : Pending(c)'
      BY <1>7, <2>1 DEF Ping, Pending
    <3> QED
      BY <1>7, <2>1, <3>1, FeedStep DEF Ping
  <2>2. CASE up
    <3>1. ASSUME NEW c \in Watched, Pending(c)
          PROVE  Pending(c)'
      BY <1>0, <1>7, <2>2, <3>1, Names DEF TypeOK, Ping, Goto, Pending
    <3> QED
      BY <1>7, <2>2, <3>1, FeedStep DEF Ping, FeedInv
  <2> QED
    BY <2>1, <2>2
<1>8. CASE Timeout \/ Connect
  <2>1. ASSUME NEW c \in Watched, Pending(c)
        PROVE  Pending(c)'
    BY <1>0, <1>8, <2>1, Names
       DEF TypeOK, Timeout, Connect, Goto, Pending, libVars
  <2> QED
    BY <1>8, <2>1, FeedStep DEF Timeout, Connect, libVars, FeedInv
<1>9. CASE EventsSignal
  <2>1. CASE Goto(Events, "done")
    <3>1. pc'[Events] = "done"
      BY <1>0, <2>1 DEF TypeOK, Goto
    <3> QED
      BY <1>9, <3>1, FeedStep DEF EventsSignal, libVars, FeedInv
  <2>2. CASE UNCHANGED pc
    BY <1>9, <2>2
       DEF EventsSignal, libVars, FeedInv, NoMissedChange, Pending
  <2> QED
    BY <1>9, <2>1, <2>2 DEF EventsSignal
<1> QED
  BY <1>1, <1>2, <1>3, <1>4, <1>5, <1>6, <1>7, <1>8, <1>9 DEF EventsStep

LEMMA SignalsFeed ==
  ASSUME TypeOK, FeedInv, Watched # {}, SignalsStep
  PROVE  FeedInv'
<1>0. Signals \in Goroutines /\ Events \in Goroutines
  BY GoroutineNames
<1>1. CASE Start(Signals, "wait")
  BY <1>1, StartFeed
<1>2. CASE Walk(Signals, "wait")
  BY <1>2, WalkFeed, Names
<1>3. CASE SignalsSignal
  <2>1. /\ pc'[Events] = pc[Events] /\ rest'[Events] = rest[Events]
        /\ \A c \in Watched : pc'[Watcher(c)] = pc[Watcher(c)]
    BY <1>0, <1>3, Names, GoroutineNames DEF TypeOK, SignalsSignal, Goto
  <2> QED
    BY <1>3, <2>1 DEF SignalsSignal, libVars, FeedInv, NoMissedChange, Pending
<1> QED
  BY <1>1, <1>2, <1>3 DEF SignalsStep

\* A watcher takes the event on to its pass, so that nothing is lost of it.
LEMMA TakeFeed ==
  ASSUME TypeOK, NEW d \in Watched, Take(d), pc' = [pc EXCEPT ![Watcher(d)] = "list"],
         UNCHANGED <<registered, live, closed, events, rest, kept>>,
         NEW c \in Watched, Pending(c)
  PROVE  Pending(c)'
<1>0. /\ Watcher(c) \in Goroutines /\ Watcher(d) \in Goroutines /\ Events \in Goroutines
      /\ Watcher(d) # Events /\ (c # d => Watcher(c) # Watcher(d))
  BY GoroutineNames, Names
<1>1. CASE c = d
  BY <1>0, <1>1 DEF TypeOK, Pending
<1>2. CASE c # d
  <2>1. pc'[Events] = pc[Events] /\ pc'[Watcher(c)] = pc[Watcher(c)]
    BY <1>0, <1>2 DEF TypeOK
  <2>2. queue'[c] = queue[c] /\ (c \in Debounced => output'[c] = output[c])
    BY <1>2 DEF TypeOK, Take
  <2> QED
    BY <2>1, <2>2 DEF Pending
<1> QED
  BY <1>1, <1>2

LEMMA WatcherFeed ==
  ASSUME TypeOK, FeedInv, NEW d \in Watched, WatcherStep(d)
  PROVE  FeedInv'
<1>0. /\ Events \in Goroutines
      /\ \A c \in Watched : Watcher(c) \in Goroutines
  BY GoroutineNames
<1>1. /\ UNCHANGED <<up, version, registered, live, closed, events, kept, rest>>
      /\ pc'[Events] = pc[Events]
      /\ \A c \in Watched : c # d => pc'[Watcher(c)] = pc[Watcher(c)]
    BY <1>0, Names DEF TypeOK, WatcherStep, libVars, Goto
<1>2. CASE Take(d) /\ Goto(Watcher(d), "list") /\ UNCHANGED <<listed, lost>>
  <2>1. ASSUME NEW c \in Watched, Pending(c)
        PROVE  Pending(c)'
    BY <1>1, <1>2, <2>1, TakeFeed DEF Goto
  <2> QED
    BY <1>1, <1>2, <2>1, FeedStep DEF FeedInv
<1>3. CASE /\ pc[Watcher(d)] = "wait"
           /\ Goto(Watcher(d), "done")
           /\ UNCHANGED <<queue, output, listed, lost>>
  <2>1. ASSUME NEW c \in Watched, Pending(c)
        PROVE  Pending(c)'
    BY <1>1, <1>3, <2>1 DEF Pending
  <2> QED
    BY <1>1, <1>3, <2>1, FeedStep DEF FeedInv
<1>4. CASE /\ Generate(d)
           /\ UNCHANGED <<queue, output>>
  <2>1. ASSUME NEW c \in Watched, c # d, Pending(c)
        PROVE  Pending(c)'
    BY <1>1, <1>4, <2>1 DEF Pending
  <2> QED
    BY <1>1, <1>4, <2>1, GenerateFeed, FeedStep DEF FeedInv
<1>5. CASE /\ ListingFails({d})
           /\ UNCHANGED <<queue, output>>
  <2>1. ASSUME NEW c \in Watched, c # d, Pending(c)
        PROVE  Pending(c)'
    BY <1>1, <1>5, <2>1 DEF Pending
  <2>2. ASSUME NEW c \in Watched
        PROVE  \/ Pending(c)' \/ c \in lost'
               \/ c # d /\ listed'[c] = listed[c] /\ (c \in lost => c \in lost')
    BY <1>1, <1>5, FailFeed
  <2> QED
    BY <1>1, <2>1, <2>2, FeedStep DEF FeedInv
<1> QED
  BY <1>2, <1>3, <1>4, <1>5 DEF WatcherStep

LEMMA DebouncerFeed ==
  ASSUME TypeOK, FeedInv, ShutInv, NEW d \in Debounced, DebouncerStep(d)
  PROVE  FeedInv'
<1>0. Events \in Goroutines /\ \A c \in Watched : Watcher(c) \in Goroutines
  BY LoopAssumption, GoroutineNames
<1>1. /\ UNCHANGED <<up, version, listed, lost, registered, live, closed, events,
                     rest>>
      /\ pc'[Events] = pc[Events]
      /\ \A c \in Watched : pc'[Watcher(c)] = pc[Watcher(c)]
  BY <1>0, Names
     DEF TypeOK, DebouncerStep, Keep, Fire, Forward, Return, libVars, Goto
<1>2. CASE Return(d)
  <2>1. pc'[Events] = "done"
    BY <1>1, <1>2 DEF Return, ShutInv
  <2> QED
    BY <1>1, <2>1, FeedStep DEF FeedInv
<1>3. ASSUME NEW c \in Watched, Pending(c), Keep(d) \/ Fire(d) \/ Forward(d)
      PROVE  Pending(c)'
  <2>1. CASE c = d
    <3>1. CASE Keep(d)
      BY <2>1, <3>1 DEF Keep, Pending
    <3>2. CASE Fire(d)
      BY <2>1, <3>2 DEF Fire, Pending
    <3>3. CASE Forward(d)
      <4>1. output'[d] > 0
        BY <3>3, LoopAssumption DEF TypeOK, Forward
      <4> QED
        BY <2>1, <4>1 DEF Pending
    <3> QED
      BY <1>3, <3>1, <3>2, <3>3
  <2>2. CASE c # d
    <3>1. /\ queue'[c] = queue[c] /\ (c \in kept => c \in kept')
          /\ c \in Debounced => output'[c] = output[c]
      BY <1>3, <2>2 DEF TypeOK, Keep, Fire, Forward
    <3> QED
      BY <1>1, <1>3, <3>1 DEF Pending
  <2> QED
    BY <2>1, <2>2
<1> QED
  BY <1>1, <1>2, <1>3, FeedStep DEF DebouncerStep, FeedInv

LEMMA TickerFeed ==
  ASSUME TypeOK, FeedInv, NEW d \in Ticking,
         \/ Start(Ticker(d), "wait") \/ Tick(d) \/ TickerList(d)
         \/ TickerSignal(d)
  PROVE  FeedInv'
<1>1. CASE Start(Ticker(d), "wait")
  BY <1>1, StartFeed
<1>2. CASE Watched = {} /\ (Tick(d) \/ TickerList(d) \/ TickerSignal(d))
  BY <1>2 DEF Tick, TickerList, TickerSignal, libVars, FeedInv, NoMissedChange
<1>3. CASE Watched # {} /\ (Tick(d) \/ TickerList(d) \/ TickerSignal(d))
  <2>1. /\ UNCHANGED <<up, version, registered, live, closed, events, queue, kept,
                      output, rest>>
        /\ pc'[Events] = pc[Events]
        /\ \A c \in Watched : pc'[Watcher(c)] = pc[Watcher(c)]
    BY <1>3, Names, GoroutineNames
       DEF TypeOK, Tick, TickerList, TickerSignal, Goto, libVars
  <2>2. \A c \in Watched : Pending(c) => Pending(c)'
    BY <2>1 DEF Pending
  <2>3. CASE UNCHANGED <<listed, lost>>
    BY <2>1, <2>2, <2>3, FeedStep DEF FeedInv
  <2>4. CASE Generate(d)
    BY <2>1, <2>2, <2>4, GenerateFeed, FeedStep DEF FeedInv
  <2>5. CASE ListingFails({})
    <3>1. UNCHANGED listed /\ lost \subseteq lost'
      BY <2>5 DEF ListingFails
    <3> QED
      BY <2>1, <2>2, <3>1, FeedStep DEF FeedInv
  <2> QED
    BY <1>3, <2>3, <2>4, <2>5 DEF Tick, TickerList, TickerSignal
<1> QED
  BY <1>1, <1>2, <1>3

LEMMA NextFeed == TypeOK /\ FeedInv /\ ShutInv /\ [Next]_vars => FeedInv'
<1> SUFFICES ASSUME TypeOK, FeedInv, ShutInv, [Next]_vars PROVE FeedInv'
  OBVIOUS
<1>1. CASE UNCHANGED vars
  BY <1>1 DEF vars, FeedInv, NoMissedChange, Pending
<1> QED
  BY <1>1, EnvironmentFeed, EventsFeed, SignalsFeed, WatcherFeed, DebouncerFeed,
     TickerFeed DEF Next

\* No change of the containers is missed: while docker-gen is not shutting down,
\* a watched config that was last generated before the latest change has an
\* event, a fan-out, a pass or a reconnection on its way, whatever events are
\* dropped and however often the connection is lost; the exception is a config
\* whose listing, for this change or for the sync, has failed on a connection that
\* holds.
THEOREM FeedSafe == Spec => []NoMissedChange
<1>1. Init => FeedInv /\ ShutInv
  BY DEF Init, FeedInv, NoMissedChange, Pending, ShutInv
<1>2. TypeOK /\ FeedInv /\ ShutInv /\ [Next]_vars => FeedInv' /\ ShutInv'
  BY NextFeed, NextShut
<1>3. FeedInv => NoMissedChange
  BY DEF FeedInv
<1> QED
  BY <1>1, <1>2, <1>3, TypeCorrect, PTL DEF Spec

--------------------------------------------------------------------------------
(* The loop implements ChangeFeed, step by step.  The mapping counts a config  *)
(* as dirty if it was last generated before the latest change, so that no      *)
(* config may ever be ahead of the containers.                                 *)

ListedInv == \A c \in Configs : listed[c] <= version

\* Stopped for ChangeFeed.
Over == Watched # {} /\ pc[Events] = "done"

\* What a step may do to what the mapping is made of: at most one of its parts
\* changes, and only the SIGTERM of the Events goroutine stops the feed.
FeedMoves ==
  \/ version' = version + 1 /\ lost' = {} /\ UNCHANGED <<up, listed>> /\ (Over' <=> Over)
  \/ up' = ~up /\ UNCHANGED <<version, listed, lost>> /\ (Over' <=> Over)
  \/ \E d : Generate(d) /\ UNCHANGED <<up, version>> /\ (Over' <=> Over)
  \/ /\ up /\ \E asked : lost' = lost \cup asked
     /\ UNCHANGED <<up, version, listed>> /\ (Over' <=> Over)
  \/ lost' = {} /\ UNCHANGED <<up, version, listed>> /\ (Over' <=> Over)
  \/ UNCHANGED <<up, version, listed, lost>> /\ (Over => Over')

LEMMA FailMoves ==
  ASSUME live => up, NEW asked, ListingFails(asked), UNCHANGED <<up, version>>,
         Over' <=> Over
  PROVE  FeedMoves
<1>1. UNCHANGED listed
  BY DEF ListingFails
<1>2. CASE live
  <2>1. lost' = lost \cup asked
    BY <1>2 DEF ListingFails
  <2> QED
    BY <1>1, <1>2, <2>1 DEF FeedMoves
<1>3. CASE ~live
  <2>1. lost' = lost
    BY <1>3 DEF ListingFails
  <2> QED
    BY <1>1, <2>1 DEF FeedMoves
<1> QED
  BY <1>2, <1>3

\* A step that moves another goroutine than Events leaves the feed running.
LEMMA OthersGo ==
  ASSUME TypeOK, NEW g \in Goroutines, g # Events, NEW point,
         Goto(g, point) \/ UNCHANGED pc
  PROVE  Over' <=> Over
<1>1. Watched # {} => Events \in Goroutines
  BY GoroutineNames
<1> QED
  BY <1>1 DEF TypeOK, Goto, Over

LEMMA EnvironmentMoves ==
  ASSUME TypeOK, Environment \/ CloseListener
  PROVE  FeedMoves
<1>1. UNCHANGED pc => (Over' <=> Over)
  BY DEF Over
<1>2. CASE Change
  BY <1>1, <1>2 DEF Change, loopVars, FeedMoves
<1>3. CASE DaemonDown \/ DaemonUp
  BY <1>1, <1>3 DEF DaemonDown, DaemonUp, loopVars, FeedMoves
<1>4. ASSUME NEW kind, NEW s, Signal(kind, s)
      PROVE  FeedMoves
  BY <1>1, <1>4 DEF Signal, loopVars, FeedMoves
<1>5. CASE CloseListener
  BY <1>1, <1>5 DEF CloseListener, loopVars, FeedMoves
<1> QED
  BY <1>2, <1>3, <1>4, <1>5 DEF Environment

LEMMA EventsMoves ==
  ASSUME TypeOK, live => up, Watched # {}, EventsStep
  PROVE  FeedMoves
<1>0. Events \in Goroutines
  BY GoroutineNames
<1>1. CASE Walk(Events, "select")
  <2>1. Over' <=> Over
    BY <1>0, <1>1 DEF TypeOK, Walk, Goto, Over
  <2>2. (\E d : Generate(d)) \/ (\E asked : ListingFails(asked))
    BY <1>1 DEF Walk
  <2>3. UNCHANGED <<up, version>>
    BY <1>1 DEF Walk
  <2>4. CASE \E d : Generate(d)
    BY <2>1, <2>3, <2>4 DEF FeedMoves
  <2>5. CASE \E asked : ListingFails(asked)
    BY <2>1, <2>3, <2>5, FailMoves
  <2> QED
    BY <2>2, <2>4, <2>5
<1>2. CASE EventsSignal
  <2>1. ~Over
    BY <1>2 DEF EventsSignal, Over
  <2> QED
    BY <1>2, <2>1 DEF EventsSignal, FeedMoves
<1>3. CASE Register
  <2>1. Over' <=> Over
    BY <1>0, <1>3 DEF TypeOK, Register, Goto, Over
  <2> QED
    BY <1>3, <2>1 DEF Register, FeedMoves
<1>4. CASE EventsStep /\ ~Walk(Events, "select") /\ ~EventsSignal /\ ~Register
  <2>1. ~Over /\ UNCHANGED <<up, version, listed, lost>>
    BY <1>4
    DEF EventsStep, Start, TakeEvent, HandOut, Interrupted, Timeout, Ping, Connect,
        Over
  <2> QED
    BY <2>1 DEF FeedMoves
<1> QED
  BY <1>1, <1>2, <1>3, <1>4

LEMMA SignalsMoves ==
  ASSUME TypeOK, live => up, Watched # {}, SignalsStep
  PROVE  FeedMoves
<1>1. Signals \in Goroutines /\ Signals # Events
  BY GoroutineNames, Names
<1>2. Over' <=> Over
  BY <1>1, OthersGo DEF SignalsStep, Start, Walk, SignalsSignal
<1>3. \/ \E d : Generate(d)
      \/ \E asked : ListingFails(asked)
      \/ UNCHANGED <<listed, lost>>
  BY DEF SignalsStep, Start, Walk, SignalsSignal
<1>4. UNCHANGED <<up, version>>
  BY DEF SignalsStep, Start, Walk, SignalsSignal
<1>5. CASE (\E d : Generate(d)) \/ UNCHANGED <<listed, lost>>
  BY <1>2, <1>4, <1>5 DEF FeedMoves
<1>6. CASE \E asked : ListingFails(asked)
  BY <1>2, <1>4, <1>6, FailMoves
<1> QED
  BY <1>3, <1>5, <1>6

LEMMA WatcherMoves ==
  ASSUME TypeOK, live => up, NEW c \in Watched, WatcherStep(c)
  PROVE  FeedMoves
<1>1. Watcher(c) \in Goroutines /\ Watcher(c) # Events
  BY GoroutineNames, Names
<1>2. Over' <=> Over
  BY <1>1, OthersGo DEF WatcherStep
<1>3. UNCHANGED <<up, version>>
  BY DEF WatcherStep
<1>4. Generate(c) \/ ListingFails({c}) \/ UNCHANGED <<listed, lost>>
  BY DEF WatcherStep
<1>5. CASE Generate(c) \/ UNCHANGED <<listed, lost>>
  BY <1>2, <1>3, <1>5 DEF FeedMoves
<1>6. CASE ListingFails({c})
  BY <1>2, <1>3, <1>6, FailMoves
<1> QED
  BY <1>4, <1>5, <1>6

LEMMA DebouncerMoves ==
  ASSUME TypeOK, NEW c \in Debounced, DebouncerStep(c)
  PROVE  FeedMoves
<1>1. Debouncer(c) \in Goroutines /\ Debouncer(c) # Events
  BY GoroutineNames, Names
<1>2. Over' <=> Over
  BY <1>1, OthersGo DEF DebouncerStep, Keep, Fire, Forward, Return
<1> QED
  BY <1>2 DEF DebouncerStep, FeedMoves

LEMMA TickerMoves ==
  ASSUME TypeOK, live => up, NEW c \in Ticking,
         \/ Start(Ticker(c), "wait") \/ Tick(c) \/ TickerList(c)
         \/ TickerSignal(c)
  PROVE  FeedMoves
<1>1. Ticker(c) \in Goroutines /\ Ticker(c) # Events
  BY GoroutineNames, Names
<1>2. Over' <=> Over
  BY <1>1, OthersGo DEF Start, Tick, TickerList, TickerSignal
<1>3. UNCHANGED <<up, version>>
  BY DEF Start, Tick, TickerList, TickerSignal, libVars
<1>4. Generate(c) \/ ListingFails({}) \/ UNCHANGED <<listed, lost>>
  BY DEF Start, Tick, TickerList, TickerSignal
<1>5. CASE Generate(c) \/ UNCHANGED <<listed, lost>>
  BY <1>2, <1>3, <1>5 DEF FeedMoves
<1>6. CASE ListingFails({})
  BY <1>2, <1>3, <1>6, FailMoves
<1> QED
  BY <1>4, <1>5, <1>6

LEMMA NextMoves == TypeOK /\ FeedInv /\ [Next]_vars => FeedMoves
<1> SUFFICES ASSUME TypeOK, FeedInv, [Next]_vars PROVE FeedMoves
  OBVIOUS
<1>1. CASE UNCHANGED vars
  BY <1>1 DEF vars, FeedMoves, Over
<1> QED
  BY <1>1, EnvironmentMoves, EventsMoves, SignalsMoves, WatcherMoves,
     DebouncerMoves, TickerMoves DEF Next, FeedInv

LEMMA MovesListed ==
  ASSUME TypeOK, ListedInv, FeedMoves
  PROVE  ListedInv'
<1>1. version \in Nat /\ listed \in [Configs -> Nat]
  BY DEF TypeOK
<1>2. ASSUME NEW d, Generate(d), UNCHANGED version
      PROVE  ListedInv'
  BY <1>1, <1>2 DEF Generate, ListedInv
<1>3. CASE version' \in {version, version + 1} /\ UNCHANGED listed
  BY <1>1, <1>3 DEF ListedInv
<1> QED
  BY <1>2, <1>3 DEF FeedMoves

\* Every move of the loop is a step of the feed, or none.
LEMMA MovesFeed ==
  ASSUME TypeOK, ListedInv, FeedMoves
  PROVE  [Feed!Next]_(Feed!vars)
<1> DEFINE dirty == {c \in Watched : listed[c] < version}
<1>0. /\ version \in Nat /\ listed \in [Configs -> Nat] /\ up \in BOOLEAN
      /\ Watched \subseteq Configs
  BY LoopAssumption DEF TypeOK
<1>1. CASE version' = version + 1 /\ lost' = {} /\ UNCHANGED <<up, listed>> /\ (Over' <=> Over)
  <2>1. dirty' = Watched
    BY <1>0, <1>1 DEF ListedInv
  <2>2. Feed!Change
    BY <1>1, <2>1 DEF Feed!Change, Over
  <2> QED
    BY <2>2 DEF Feed!Next
<1>2. CASE up' = ~up /\ UNCHANGED <<version, listed, lost>> /\ (Over' <=> Over)
  BY <1>2 DEF Feed!Next, Feed!Switch, Over
<1>3. ASSUME NEW d, Generate(d), UNCHANGED <<up, version>>, Over' <=> Over
      PROVE  [Feed!Next]_(Feed!vars)
  <2>1. CASE d \in Watched
    <3>1. listed'[d] = version /\ \A c \in Watched \ {d} : listed'[c] = listed[c]
      BY <1>0, <1>3, <2>1 DEF Generate
    <3>2. dirty' = dirty \ {d}
      BY <1>0, <1>3, <3>1
    <3>3. (lost \cap Watched)' = (lost \cap Watched) \ {d}
      BY <1>3 DEF Generate
    <3>4. Feed!Generate(d)
      BY <1>3, <3>2, <3>3 DEF Feed!Generate, Generate, Over
    <3> QED
      BY <2>1, <3>4 DEF Feed!Next
  <2>2. CASE d \notin Watched
    <3>1. \A c \in Watched : listed'[c] = listed[c]
      BY <1>0, <1>3, <2>2 DEF Generate
    <3>2. dirty' = dirty
      BY <1>3, <3>1
    <3>3. (lost \cap Watched)' = lost \cap Watched
      BY <1>3, <2>2 DEF Generate
    <3> QED
      BY <1>3, <3>2, <3>3 DEF Feed!vars, Over
  <2> QED
    BY <2>1, <2>2
<1>4. ASSUME up, NEW asked, lost' = lost \cup asked,
             UNCHANGED <<up, version, listed>>, Over' <=> Over
      PROVE  [Feed!Next]_(Feed!vars)
  <2>1. (lost \cap Watched)' = (lost \cap Watched) \cup (asked \cap Watched)
    BY <1>4
  <2>2. asked \cap Watched \in SUBSET Watched
    OBVIOUS
  <2>3. Feed!Fail
    BY <1>4, <2>1, <2>2 DEF Feed!Fail, Over
  <2> QED
    BY <2>3 DEF Feed!Next
<1>5. CASE lost' = {} /\ UNCHANGED <<up, version, listed>> /\ (Over' <=> Over)
  BY <1>5 DEF Feed!Next, Feed!Retry, Over
<1>6. CASE UNCHANGED <<up, version, listed, lost>> /\ (Over => Over')
  <2>1. CASE Over' /\ ~Over
    BY <1>6, <2>1 DEF Feed!Next, Feed!Stop, Over
  <2>2. CASE Over' <=> Over
    BY <1>6, <2>2 DEF Feed!vars, Over
  <2> QED
    BY <1>6, <2>1, <2>2
<1> QED
  BY <1>1, <1>2, <1>3, <1>4, <1>5, <1>6 DEF FeedMoves

\* What the goroutines do together is what -watch promises, as far as it can be
\* said without liveness: a change leaves every watched config to be generated
\* again, a pass settles its own config only and only while the daemon answers,
\* a listing may fail for other configs than the one it was for, a failure is
\* forgotten with the next change or sync, and once the Events goroutine has
\* stopped it never hands out events again.
THEOREM FeedRefined == Spec => Feed!Init /\ [][Feed!Next]_(Feed!vars)
<1>1. Init => Feed!Init
  BY LoopAssumption, GoroutineNames DEF Init, Feed!Init
<1>2. Init => ListedInv /\ FeedInv /\ ShutInv
  BY DEF Init, ListedInv, FeedInv, NoMissedChange, Pending, ShutInv
<1>3. TypeOK /\ ListedInv /\ FeedInv /\ ShutInv /\ [Next]_vars
        => ListedInv' /\ FeedInv' /\ ShutInv' /\ [Feed!Next]_(Feed!vars)
  BY NextMoves, MovesListed, MovesFeed, NextFeed, NextShut
<1> QED
  BY <1>1, <1>2, <1>3, TypeCorrect, PTL DEF Spec

--------------------------------------------------------------------------------
(* The debouncers take the steps of Coalesce.                                *)

\* What a step does to one debouncer and its channels.
MergeMoves(c) ==
  \/ UNCHANGED <<queue[c], pc[Debouncer(c)], c \in kept, output[c], shut>>
  \/ Merge(c)!Next

LEMMA MergeStay ==
  ASSUME TypeOK, NEW c \in Debounced, NEW g \in Goroutines, g # Debouncer(c),
         NEW point, Goto(g, point) \/ UNCHANGED pc
  PROVE  pc'[Debouncer(c)] = pc[Debouncer(c)]
<1>1. Debouncer(c) \in Goroutines
  BY GoroutineNames
<1> QED
  BY <1>1 DEF TypeOK, Goto

LEMMA DebouncerNames ==
  /\ \A c, d : Debouncer(c) = Debouncer(d) => c = d
  /\ \A c, d : Debouncer(c) # Watcher(d) /\ Debouncer(c) # Ticker(d)
  /\ \A c : Debouncer(c) # Events /\ Debouncer(c) # Signals
BY DEF Watcher, Ticker, Debouncer, Events, Signals

\* The fan-out hands an event to one watcher, whose channel is still open.
LEMMA HandOutMerges ==
  ASSUME TypeOK, ShutInv, Watched # {}, HandOut, NEW c \in Debounced
  PROVE  MergeMoves(c)
<1> DEFINE d == First(rest[Events])
<1>1. c \in Watched /\ Events \in Goroutines /\ Events # Debouncer(c)
  BY GoroutineNames, DebouncerNames
<1>2. pc'[Debouncer(c)] = pc[Debouncer(c)]
  BY <1>1, MergeStay DEF HandOut
<1>3. ~shut
  BY DEF HandOut, ShutInv
<1>4. CASE c = d
  <2>1. queue[c] < ChanCap /\ queue'[c] = queue[c] + 1
    BY <1>1, <1>4 DEF HandOut, TypeOK
  <2>2. Merge(c)!HandOut
    BY <1>2, <1>3, <2>1 DEF HandOut, Merge!HandOut
  <2> QED
    BY <2>2 DEF MergeMoves, Merge!Next
<1>5. CASE c # d
  BY <1>1, <1>2, <1>5 DEF HandOut, TypeOK, MergeMoves
<1> QED
  BY <1>4, <1>5

\* Nothing else that the Events goroutine does reaches a debouncer, but for the
\* closing of the channels.
LEMMA EventsMerges ==
  ASSUME TypeOK, ShutInv, Watched # {}, EventsStep, NEW c \in Debounced
  PROVE  MergeMoves(c)
<1>1. Events \in Goroutines /\ Events # Debouncer(c)
  BY GoroutineNames, DebouncerNames
<1>2. CASE EventsSignal
  <2>1. pc'[Debouncer(c)] = pc[Debouncer(c)]
    BY <1>1, <1>2, MergeStay DEF EventsSignal
  <2>2. shut' = TRUE \/ UNCHANGED shut
    BY <1>2 DEF EventsSignal
  <2>3. UNCHANGED <<queue, kept, output>>
    BY <1>2 DEF EventsSignal
  <2>4. CASE shut' = TRUE
    BY <2>1, <2>3, <2>4 DEF MergeMoves, Merge!Next, Merge!Close
  <2>5. CASE UNCHANGED shut
    BY <2>1, <2>3, <2>5 DEF MergeMoves
  <2> QED
    BY <2>2, <2>4, <2>5
<1>3. CASE ~EventsSignal /\ ~HandOut
  <2>1. pc'[Debouncer(c)] = pc[Debouncer(c)]
    BY <1>1, <1>3, MergeStay
    DEF EventsStep, Start, Register, Walk, TakeEvent, Interrupted, Timeout, Ping,
        Connect
  <2>2. UNCHANGED chanVars
    BY <1>3
    DEF EventsStep, Start, Register, Walk, TakeEvent, Interrupted, Timeout, Ping,
        Connect
  <2> QED
    BY <2>1, <2>2 DEF MergeMoves
<1> QED
  BY <1>2, <1>3, HandOutMerges

\* Its own steps are those of Coalesce; those of another change nothing of it.
LEMMA DebouncerMerges ==
  ASSUME TypeOK, NEW d \in Debounced, DebouncerStep(d), NEW c \in Debounced
  PROVE  MergeMoves(c)
<1>1. /\ c \in Watched /\ Debouncer(c) \in Goroutines
      /\ d \in Watched /\ Debouncer(d) \in Goroutines
  BY GoroutineNames
<1>2. UNCHANGED shut
  BY DEF DebouncerStep
<1>3. CASE c # d
  <2>1. Debouncer(d) # Debouncer(c)
    BY <1>3, DebouncerNames
  <2>2. pc'[Debouncer(c)] = pc[Debouncer(c)]
    BY <1>1, <2>1, MergeStay DEF DebouncerStep, Keep, Fire, Forward, Return
  <2>3. queue'[c] = queue[c] /\ output'[c] = output[c]
    BY <1>1, <1>3 DEF TypeOK, DebouncerStep, Keep, Fire, Forward, Return
  <2>4. c \in kept' <=> c \in kept
    BY <1>3 DEF DebouncerStep, Keep, Fire, Forward, Return
  <2> QED
    BY <1>2, <2>2, <2>3, <2>4 DEF MergeMoves
<1>4. CASE c = d
  <2>1. CASE Keep(c)
    <3>1. Merge(c)!Keep
      BY <1>1, <1>2, <2>1 DEF TypeOK, Keep, Merge!Keep
    <3> QED
      BY <3>1 DEF MergeMoves, Merge!Next
  <2>2. CASE Fire(c)
    <3>1. Merge(c)!Fire
      BY <1>1, <1>2, <2>2 DEF TypeOK, Fire, Goto, Merge!Fire
    <3> QED
      BY <3>1 DEF MergeMoves, Merge!Next
  <2>3. CASE Forward(c)
    <3>1. Merge(c)!Forward
      BY <1>1, <1>2, <2>3 DEF TypeOK, Forward, Goto, Merge!Forward
    <3> QED
      BY <3>1 DEF MergeMoves, Merge!Next
  <2>4. CASE Return(c)
    <3>1. Merge(c)!Return
      BY <1>1, <1>2, <2>4 DEF TypeOK, Return, Goto, Merge!Return
    <3> QED
      BY <3>1 DEF MergeMoves, Merge!Next
  <2> QED
    BY <1>4, <2>1, <2>2, <2>3, <2>4 DEF DebouncerStep
<1> QED
  BY <1>3, <1>4

\* The watcher behind a debouncer takes from its output.
LEMMA WatcherMerges ==
  ASSUME TypeOK, NEW d \in Watched, WatcherStep(d), NEW c \in Debounced
  PROVE  MergeMoves(c)
<1>1. c \in Watched /\ Watcher(d) \in Goroutines /\ Watcher(d) # Debouncer(c)
  BY GoroutineNames, DebouncerNames
<1>2. pc'[Debouncer(c)] = pc[Debouncer(c)] /\ UNCHANGED <<shut, kept>>
  BY <1>1, MergeStay DEF WatcherStep
<1>3. pc[Debouncer(c)] # "off"
  BY GoroutineNames DEF TypeOK
<1>4. CASE Take(d) /\ d = c
  <2>1. output[c] > 0 /\ output'[c] = output[c] - 1 /\ queue'[c] = queue[c]
    BY <1>4 DEF TypeOK, Take
  <2>2. Merge(c)!Take
    BY <1>2, <1>3, <2>1 DEF Merge!Take
  <2> QED
    BY <2>2 DEF MergeMoves, Merge!Next
<1>5. CASE Take(d) /\ d # c
  BY <1>1, <1>2, <1>5 DEF TypeOK, Take, MergeMoves
<1>6. CASE UNCHANGED <<queue, output>>
  BY <1>2, <1>6 DEF MergeMoves
<1> QED
  BY <1>4, <1>5, <1>6 DEF WatcherStep

LEMMA OthersMerge ==
  ASSUME TypeOK, NEW c \in Debounced,
         \/ Environment \/ CloseListener
         \/ Watched # {} /\ SignalsStep
         \/ \E d \in Ticking : \/ Start(Ticker(d), "wait") \/ Tick(d)
                               \/ TickerList(d) \/ TickerSignal(d)
  PROVE  MergeMoves(c)
<1>1. CASE Environment \/ CloseListener
  BY <1>1 DEF Environment, Change, DaemonDown, DaemonUp, Signal, CloseListener,
              loopVars, MergeMoves
<1>2. CASE Watched # {} /\ SignalsStep
  <2>1. pc'[Debouncer(c)] = pc[Debouncer(c)]
    BY <1>2, MergeStay, GoroutineNames, DebouncerNames
    DEF SignalsStep, Start, Walk, SignalsSignal
  <2> QED
    BY <1>2, <2>1 DEF SignalsStep, Start, Walk, SignalsSignal, MergeMoves
<1>3. ASSUME NEW d \in Ticking,
             \/ Start(Ticker(d), "wait") \/ Tick(d) \/ TickerList(d)
             \/ TickerSignal(d)
      PROVE  MergeMoves(c)
  <2>1. pc'[Debouncer(c)] = pc[Debouncer(c)]
    BY <1>3, MergeStay, GoroutineNames, DebouncerNames
    DEF Start, Tick, TickerList, TickerSignal
  <2> QED
    BY <1>3, <2>1 DEF Start, Tick, TickerList, TickerSignal, MergeMoves
<1> QED
  BY <1>1, <1>2, <1>3

LEMMA NextMerges ==
  ASSUME TypeOK, ShutInv, [Next]_vars
  PROVE  \A c \in Debounced : [Merge(c)!Next]_(Merge(c)!vars)
<1> SUFFICES ASSUME NEW c \in Debounced
             PROVE  [Merge(c)!Next]_(Merge(c)!vars)
  OBVIOUS
<1>1. MergeMoves(c)
  <2>1. CASE UNCHANGED vars
    BY <2>1 DEF vars, MergeMoves
  <2> QED
    BY <2>1, EventsMerges, DebouncerMerges, WatcherMerges, OthersMerge DEF Next
<1> QED
  BY <1>1 DEF MergeMoves, Merge!vars

\* Each debouncer of the loop is one of Coalesce: with CoalesceRefined of
\* DebounceProofs, which says the same of the debouncer with its clock, what holds
\* of the steps of one carries over to the other.
THEOREM MergesRefined == Spec => DebouncersCoalesce
<1> DEFINE Steps == \A c \in Debounced : [Merge(c)!Next]_(Merge(c)!vars)
<1>1. Init => \A c \in Debounced : Merge(c)!Init
  <2> SUFFICES ASSUME Init, NEW c \in Debounced PROVE Merge(c)!Init
    OBVIOUS
  <2>1. c \in Watched /\ Debouncer(c) \in Goroutines /\ Debouncer(c) \notin Receivers
    BY GoroutineNames, DebouncerNames DEF Receivers
  <2> QED
    BY <2>1 DEF Init, Merge!Init
<1>2. Init => ShutInv
  BY DEF Init, ShutInv
<1>3. TypeOK /\ ShutInv /\ [Next]_vars => ShutInv' /\ Steps
  BY NextShut, NextMerges
<1>4. TypeOK /\ ShutInv /\ [Next]_vars => ShutInv' /\ [Steps]_vars
  BY <1>3
<1> QED
  BY <1>1, <1>2, <1>4, TypeCorrect, PTL DEF Spec, DebouncersCoalesce
================================================================================
