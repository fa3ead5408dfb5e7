-------------------------- MODULE RegenerateProofs --------------------------
(***************************************************************************)
(* Theorems about Regenerate, for every number of configs, containers and  *)
(* goroutines, every channel capacity and every bound.                     *)
(***************************************************************************)
EXTENDS Regenerate, SequenceTheorems, TLAPS

-----------------------------------------------------------------------------
(* Typing.                                                                 *)

\* Two writes of one file that overlap leave a sequence of lines.
LEMMA OverwriteType ==
  ASSUME NEW old \in Seq(Line), NEW new \in Seq(Line)
  PROVE  Overwrite(old, new) \in Seq(Line)
<1>1. CASE Len(old) <= Len(new)
  BY <1>1 DEF Overwrite
<1>2. CASE ~(Len(old) <= Len(new))
  <2>1. Len(new) + 1 \in 1..Len(old) + 1 /\ Len(old) \in Len(new)..Len(old)
    BY <1>2, LenProperties
  <2>2. SubSeq(old, Len(new) + 1, Len(old)) \in Seq(Line)
    BY <2>1, <1>2, SubSeqProperties, LenProperties
  <2> QED
    BY <1>2, <2>2, ConcatProperties DEF Overwrite
<1> QED
  BY <1>1, <1>2

LEMMA FirstConfigType ==
  ASSUME NEW g \in Goroutines
  PROVE  FirstConfig(g) \in Configs
<1>1. CASE g \in Walkers
  BY <1>1, ConfigAssumption DEF FirstConfig, Configs
<1>2. CASE g \notin Walkers
  <2>1. g \in Workers
    BY <1>2 DEF Goroutines
  <2> QED
    BY <1>2, <2>1, ConfigAssumption DEF FirstConfig
<1> QED
  BY <1>1, <1>2

LEMMA EndPassType ==
  ASSUME TypeOK, NEW g \in Goroutines, EndPass(g)
  PROVE  /\ pc' \in [Goroutines -> PassPoints]
         /\ cfg' \in [Goroutines -> Configs]
BY FirstConfigType DEF TypeOK, EndPass, PassPoints

LEMMA AdvanceType ==
  ASSUME TypeOK, NEW g \in Goroutines, Advance(g)
  PROVE  /\ pc' \in [Goroutines -> PassPoints]
         /\ cfg' \in [Goroutines -> Configs]
<1>1. CASE g \in Walkers /\ cfg[g] < NumConfigs
  <2>1. cfg[g] + 1 \in Configs
    BY <1>1, ConfigAssumption DEF TypeOK, Configs
  <2>2. /\ cfg' = [cfg EXCEPT ![g] = cfg[g] + 1]
        /\ pc' = [pc EXCEPT ![g] = "list"]
    BY <1>1 DEF Advance
  <2> QED
    BY <2>1, <2>2 DEF TypeOK, PassPoints
<1>2. CASE ~(g \in Walkers /\ cfg[g] < NumConfigs)
  BY <1>2, EndPassType DEF Advance
<1> QED
  BY <1>1, <1>2

LEMMA SpendType ==
  ASSUME TypeOK, NEW what \in Limited, Spend(what)
  PROVE  left' \in [Limited -> Nat]
BY DEF TypeOK, Spend

LEMMA FaultType ==
  ASSUME TypeOK, NEW call, Fault(call)
  PROVE  left' \in [Limited -> Nat]
<1>1. "fault" \in Limited
  BY DEF Limited
<1> QED
  BY <1>1, SpendType DEF Fault

LEMMA NotifyType ==
  ASSUME TypeOK, NEW g \in Goroutines, NEW phase \in Phases, Notify(g, phase)
  PROVE  /\ left' \in [Limited -> Nat]
         /\ loaded' \in [Configs -> [Phases -> Seq(Line)]]
<1>1. cfg[g] \in Configs /\ file[cfg[g]] \in Seq(Line)
  BY DEF TypeOK
<1>2. CASE loaded' = [loaded EXCEPT ![cfg[g]][phase] = file[cfg[g]]] /\ UNCHANGED left
  BY <1>1, <1>2 DEF TypeOK
<1>3. CASE UNCHANGED <<loaded, left>>
  BY <1>3 DEF TypeOK
<1>4. CASE Fault("notify") /\ UNCHANGED loaded
  BY <1>4, FaultType DEF TypeOK
<1> QED
  BY <1>2, <1>3, <1>4 DEF Notify

LEMMA InitType == Init => TypeOK
<1> SUFFICES ASSUME Init PROVE TypeOK
  OBVIOUS
<1>1. <<>> \in Seq(Line)
  BY EmptySeq
<1>2. /\ docker \in [Containers -> Addrs \cup {Gone}]
      /\ left \in [Limited -> Nat]
      /\ subscribed \in BOOLEAN
      /\ feed \in Nat
      /\ wake \in [Goroutines -> Nat]
      /\ pc \in [Goroutines -> PassPoints]
      /\ ids \in [Goroutines -> SUBSET Containers]
  BY ConfigAssumption DEF Init, PassPoints
<1>3. cfg \in [Goroutines -> Configs]
  BY FirstConfigType DEF Init
<1>4. /\ contents \in [Goroutines -> Seq(Line)]
      /\ file \in [Configs -> Seq(Line)]
      /\ loaded \in [Configs -> [Phases -> Seq(Line)]]
  BY <1>1 DEF Init
<1> QED
  BY <1>2, <1>3, <1>4 DEF TypeOK

LEMMA StepType ==
  ASSUME TypeOK, NEW g \in Goroutines, Step(g)
  PROVE  TypeOK'
<1>1. CASE Receive(g)
  <2>1. wake' \in [Goroutines -> Nat]
    BY <1>1 DEF TypeOK, Receive
  <2> QED
    BY <1>1, <2>1 DEF TypeOK, Receive, PassPoints
<1>2. CASE List(g)
  <2>1. CASE ids' = [ids EXCEPT ![g] = Running]
             /\ pc' = [pc EXCEPT ![g] = "inspect"] /\ UNCHANGED <<cfg, left>>
    BY <1>2, <2>1 DEF TypeOK, List, Running, PassPoints
  <2>2. CASE Fault("list") /\ EndPass(g) /\ UNCHANGED ids
    BY <1>2, <2>2, FaultType, EndPassType DEF TypeOK, List
  <2> QED
    BY <1>2, <2>1, <2>2 DEF List
<1>3. CASE Inspect(g)
  <2>1. PICK c \in ids[g] :
          /\ ids' = [ids EXCEPT ![g] = @ \ {c}]
          /\ \/ /\ contents' = [contents EXCEPT ![g] = @ \o Lines(g, c)]
                /\ UNCHANGED left
             \/ UNCHANGED <<contents, left>>
             \/ Fault("inspect") /\ UNCHANGED contents
    BY <1>3 DEF Inspect
  <2>2. c \in Containers /\ docker[c] \in Addrs \cup {Gone}
    BY DEF TypeOK
  <2>3. contents[g] \o Lines(g, c) \in Seq(Line)
    <3>1. <<c, docker[c]>> \in Line
      BY <2>2 DEF Line
    <3>2. Lines(g, c) \in Seq(Line)
      BY <3>1 DEF Lines
    <3> QED
      BY <3>2, ConcatProperties DEF TypeOK
  <2>4. contents' \in [Goroutines -> Seq(Line)]
    BY <2>1, <2>3 DEF TypeOK
  <2>5. left' \in [Limited -> Nat]
    BY <2>1, FaultType DEF TypeOK
  <2>6. ids' \in [Goroutines -> SUBSET Containers]
    BY <2>1 DEF TypeOK
  <2> QED
    BY <1>3, <2>4, <2>5, <2>6 DEF TypeOK, Inspect
<1>4. CASE Compare(g)
  <2>1. /\ pc' \in [Goroutines -> PassPoints]
        /\ cfg' \in [Goroutines -> Configs]
    BY <1>4, AdvanceType DEF TypeOK, Compare, PassPoints, Phases
  <2>2. contents' \in [Goroutines -> Seq(Line)]
    BY <1>4, EmptySeq DEF TypeOK, Compare
  <2> QED
    BY <1>4, <2>1, <2>2 DEF TypeOK, Compare
<1>5. CASE Truncate(g)
  <2>1. file' \in [Configs -> Seq(Line)]
    BY <1>5, EmptySeq DEF TypeOK, Truncate
  <2> QED
    BY <1>5, <2>1 DEF TypeOK, Truncate, PassPoints
<1>6. CASE Write(g)
  <2>1. Overwrite(file[cfg[g]], contents[g]) \in Seq(Line)
    BY OverwriteType DEF TypeOK
  <2>2. file' \in [Configs -> Seq(Line)]
    BY <1>6, <2>1 DEF TypeOK, Write
  <2>3. contents' \in [Goroutines -> Seq(Line)]
    BY <1>6, EmptySeq DEF TypeOK, Write
  <2> QED
    BY <1>6, <2>2, <2>3 DEF TypeOK, Write, PassPoints, Phases
<1>7. CASE RunNotifyCmd(g)
  <2>1. "cmd" \in Phases
    BY DEF Phases
  <2> QED
    BY <1>7, <2>1, NotifyType DEF TypeOK, RunNotifyCmd, PassPoints, Phases
<1>8. CASE SendSignalToContainers(g)
  <2>1. "containers" \in Phases
    BY DEF Phases
  <2> QED
    BY <1>8, <2>1, NotifyType
       DEF TypeOK, SendSignalToContainers, PassPoints, Phases
<1>9. CASE SendSignalToFilteredContainers(g)
  <2>1. "filter" \in Phases
    BY DEF Phases
  <2> QED
    BY <1>9, <2>1, NotifyType, AdvanceType
       DEF TypeOK, SendSignalToFilteredContainers
<1> QED
  BY <1>1, <1>2, <1>3, <1>4, <1>5, <1>6, <1>7, <1>8, <1>9 DEF Step

LEMMA FatalType ==
  ASSUME TypeOK, NEW g \in Goroutines, Fatal(g)
  PROVE  TypeOK'
<1>1. /\ contents' \in [Goroutines -> Seq(Line)]
      /\ cfg' \in [Goroutines -> Configs]
  BY EmptySeq, FirstConfigType DEF Fatal
<1>2. left' \in [Limited -> Nat]
  BY FaultType DEF Fatal
<1> QED
  BY <1>1, <1>2 DEF TypeOK, Fatal, PassPoints

\* Every step keeps the types.
LEMMA NextType == TypeOK /\ [Next]_vars => TypeOK'
<1> SUFFICES ASSUME TypeOK, [Next]_vars PROVE TypeOK'
  OBVIOUS
<1>1. ASSUME NEW c \in Containers, NEW a \in Addrs \cup {Gone}, Change(c, a)
      PROVE  TypeOK'
  <2>1. left' \in [Limited -> Nat]
    BY <1>1, SpendType DEF Change, Limited
  <2> QED
    BY <1>1, <2>1 DEF TypeOK, Change, passVars
<1>2. CASE Subscribe
  BY <1>2 DEF TypeOK, Subscribe, PassPoints
<1>3. CASE Disconnect
  <2>1. left' \in [Limited -> Nat]
    BY <1>3, SpendType DEF Disconnect, Limited
  <2> QED
    BY <1>3, <2>1 DEF TypeOK, Disconnect, passVars
<1>4. CASE Fanout
  <2>1. wake' \in [Goroutines -> Nat] /\ feed' \in Nat
    BY <1>4 DEF TypeOK, Fanout, HandOut
  <2> QED
    BY <1>4, <2>1 DEF TypeOK, Fanout, passVars
<1>5. CASE Sighup
  <2>1. left' \in [Limited -> Nat]
    BY <1>5, SpendType DEF Sighup, Limited
  <2> QED
    BY <1>5, <2>1 DEF TypeOK, Sighup, passVars
<1>6. ASSUME NEW g \in Tickers, Tick(g)
      PROVE  TypeOK'
  BY <1>6 DEF TypeOK, Tick, passVars
<1>7. ASSUME NEW g \in Goroutines, Step(g) \/ Fatal(g)
      PROVE  TypeOK'
  BY <1>7, StepType, FatalType
<1>8. CASE UNCHANGED vars
  BY <1>8 DEF TypeOK, vars
<1> QED
  BY <1>1, <1>2, <1>3, <1>4, <1>5, <1>6, <1>7, <1>8 DEF Next

\* Every reachable state is well typed.
THEOREM TypeCorrect == Spec => []TypeOK
<1> QED
  BY InitType, NextType, PTL DEF Spec

-----------------------------------------------------------------------------
(* Notifications.  NoLostNotification is inductive on well-typed states: a *)
(* file changes only under a goroutine that owes every notification, and   *)
(* it stops owing one only by sending it.                                  *)

Quiet == {"idle", "list", "inspect"}

\* A goroutine that has not changed a file owes nothing, wherever it goes.
LEMMA QuietStep ==
  ASSUME NEW g \in Goroutines, pc[g] \in Quiet,
         \A h \in Goroutines \ {g} : pc'[h] = pc[h] /\ cfg'[h] = cfg[h],
         NEW h \in Goroutines, NEW c, NEW p \in Phases, Owes(h, c, p)
  PROVE  Owes(h, c, p)'
<1>1. h # g
  BY DEF Owes, Quiet, Phases
<1> QED
  BY <1>1 DEF Owes

LEMMA QuietSafe ==
  ASSUME TypeOK, NoLostNotification,
         NEW g \in Goroutines, pc[g] \in Quiet, UNCHANGED <<file, loaded>>,
         \A h \in Goroutines \ {g} : pc'[h] = pc[h] /\ cfg'[h] = cfg[h]
  PROVE  NoLostNotification'
<1> SUFFICES ASSUME NEW c \in Configs, NEW p \in Notifies[c],
                    loaded[c][p] # file[c]
             PROVE  \E h \in Goroutines : Owes(h, c, p)'
  BY DEF NoLostNotification
<1>1. p \in Phases
  BY ConfigAssumption
<1>2. PICK h \in Goroutines : Owes(h, c, p)
  BY DEF NoLostNotification
<1> QED
  BY <1>1, <1>2, QuietStep

\* A step that touches no pass disturbs nothing.
LEMMA PassSafe ==
  ASSUME NoLostNotification, UNCHANGED passVars
  PROVE  NoLostNotification'
BY DEF NoLostNotification, Owes, passVars

\* After a step of g, what other goroutines owed they still owe.
LEMMA OthersOwe ==
  ASSUME NoLostNotification, NEW g \in Goroutines,
         \A h \in Goroutines \ {g} : pc'[h] = pc[h] /\ cfg'[h] = cfg[h],
         NEW c \in Configs, NEW p \in Notifies[c], loaded[c][p] # file[c],
         ~Owes(g, c, p)
  PROVE  \E h \in Goroutines : Owes(h, c, p)'
<1>1. PICK h \in Goroutines : Owes(h, c, p)
  BY DEF NoLostNotification
<1>2. h # g
  BY <1>1
<1> QED
  BY <1>1, <1>2 DEF Owes

\* The step that changes a file leaves g owing all its notifications.
LEMMA ChangeSafe ==
  ASSUME TypeOK, NoLostNotification, NEW g \in Goroutines,
         \A h \in Goroutines \ {g} : pc'[h] = pc[h],
         pc[g] \in {"truncate", "write"}, pc'[g] \in {"write", "cmd"},
         UNCHANGED <<cfg, loaded>>,
         \A c \in Configs : c # cfg[g] => file'[c] = file[c]
  PROVE  NoLostNotification'
<1> SUFFICES ASSUME NEW c \in Configs, NEW p \in Notifies[c],
                    loaded[c][p] # file'[c]
             PROVE  \E h \in Goroutines : Owes(h, c, p)'
  BY DEF NoLostNotification
<1>1. p \in Phases
  BY ConfigAssumption
<1>2. CASE c = cfg[g]
  <2>1. Owes(g, c, p)'
    BY <1>1, <1>2 DEF Owes, Phases
  <2> QED
    BY <2>1
<1>3. CASE c # cfg[g]
  <2>1. ~Owes(g, c, p)
    BY <1>3 DEF Owes
  <2> QED
    BY <1>3, <2>1, OthersOwe
<1> QED
  BY <1>2, <1>3

\* Notify(g, phase) without faults settles what g owes for that phase, and
\* the next point of the pass still owes the later ones.
LEMMA NotifySafe ==
  ASSUME TypeOK, NoLostNotification, "notify" \notin Faults,
         NEW g \in Goroutines, NEW phase \in Phases, pc[g] = phase,
         Notify(g, phase), UNCHANGED file,
         \A h \in Goroutines \ {g} : pc'[h] = pc[h] /\ cfg'[h] = cfg[h],
         \A p \in Phases \ {phase}, c \in Configs : Owes(g, c, p) => Owes(g, c, p)'
  PROVE  NoLostNotification'
<1> SUFFICES ASSUME NEW c \in Configs, NEW p \in Notifies[c],
                    loaded'[c][p] # file[c]
             PROVE  \E h \in Goroutines : Owes(h, c, p)'
  BY DEF NoLostNotification
<1>1. p \in Phases /\ cfg[g] \in Configs
  BY ConfigAssumption DEF TypeOK
<1>2. \/ /\ phase \in Notifies[cfg[g]]
         /\ loaded' = [loaded EXCEPT ![cfg[g]][phase] = file[cfg[g]]]
      \/ phase \notin Notifies[cfg[g]] /\ UNCHANGED loaded
  BY DEF Notify, Fault
<1>3. CASE c = cfg[g] /\ p = phase
  BY <1>1, <1>2, <1>3 DEF TypeOK
<1>4. CASE ~(c = cfg[g] /\ p = phase)
  <2>1. loaded[c][p] # file[c]
    BY <1>1, <1>2, <1>4 DEF TypeOK
  <2>2. CASE Owes(g, c, p)
    <3>1. p # phase
      BY <1>4, <2>2 DEF Owes
    <3> QED
      BY <1>1, <2>2, <3>1
  <2>3. CASE ~Owes(g, c, p)
    BY <2>1, <2>3, OthersOwe
  <2> QED
    BY <2>2, <2>3
<1> QED
  BY <1>3, <1>4

LEMMA StepSafe ==
  ASSUME TypeOK, NoLostNotification, "notify" \notin Faults,
         NEW g \in Goroutines, Step(g)
  PROVE  NoLostNotification'
<1>1. CASE Receive(g)
  BY <1>1, QuietSafe DEF TypeOK, Receive, Quiet
<1>2. CASE List(g)
  <2>1. \A h \in Goroutines \ {g} : pc'[h] = pc[h] /\ cfg'[h] = cfg[h]
    BY <1>2 DEF TypeOK, List, EndPass
  <2> QED
    BY <1>2, <2>1, QuietSafe DEF List, Quiet
<1>3. CASE Inspect(g)
  BY <1>3, QuietSafe DEF Inspect, Quiet
<1>4. CASE Compare(g)
  <2>1. \A h \in Goroutines \ {g} : pc'[h] = pc[h] /\ cfg'[h] = cfg[h]
    BY <1>4 DEF TypeOK, Compare, Advance, EndPass
  <2> QED
    BY <1>4, <2>1, QuietSafe DEF Compare, Quiet
<1>5. CASE Truncate(g)
  <2>1. pc'[g] = "write" /\ \A h \in Goroutines \ {g} : pc'[h] = pc[h]
    BY <1>5 DEF TypeOK, Truncate
  <2>2. \A c \in Configs : c # cfg[g] => file'[c] = file[c]
    BY <1>5 DEF TypeOK, Truncate
  <2> QED
    BY <1>5, <2>1, <2>2, ChangeSafe DEF Truncate
<1>6. CASE Write(g)
  <2>1. pc'[g] = "cmd" /\ \A h \in Goroutines \ {g} : pc'[h] = pc[h]
    BY <1>6 DEF TypeOK, Write
  <2>2. \A c \in Configs : c # cfg[g] => file'[c] = file[c]
    BY <1>6 DEF TypeOK, Write
  <2> QED
    BY <1>6, <2>1, <2>2, ChangeSafe DEF Write
<1>7. CASE RunNotifyCmd(g)
  <2>1. /\ pc'[g] = "containers"
        /\ \A h \in Goroutines \ {g} : pc'[h] = pc[h] /\ cfg'[h] = cfg[h]
    BY <1>7 DEF TypeOK, RunNotifyCmd
  <2>2. \A p \in Phases \ {"cmd"}, c \in Configs : Owes(g, c, p) => Owes(g, c, p)'
    BY <1>7, <2>1 DEF Owes, RunNotifyCmd, Phases
  <2> QED
    BY <1>7, <2>1, <2>2, NotifySafe DEF RunNotifyCmd, Phases
<1>8. CASE SendSignalToContainers(g)
  <2>1. /\ pc'[g] = "filter"
        /\ \A h \in Goroutines \ {g} : pc'[h] = pc[h] /\ cfg'[h] = cfg[h]
    BY <1>8 DEF TypeOK, SendSignalToContainers
  <2>2. \A p \in Phases \ {"containers"}, c \in Configs :
          Owes(g, c, p) => Owes(g, c, p)'
    BY <1>8, <2>1 DEF Owes, SendSignalToContainers, Phases
  <2> QED
    BY <1>8, <2>1, <2>2, NotifySafe DEF SendSignalToContainers, Phases
<1>9. CASE SendSignalToFilteredContainers(g)
  <2>1. \A h \in Goroutines \ {g} : pc'[h] = pc[h] /\ cfg'[h] = cfg[h]
    BY <1>9 DEF TypeOK, SendSignalToFilteredContainers, Advance, EndPass
  <2>2. \A p \in Phases \ {"filter"}, c \in Configs : ~Owes(g, c, p)
    BY <1>9 DEF Owes, SendSignalToFilteredContainers, Phases
  <2> QED
    BY <1>9, <2>1, <2>2, NotifySafe
       DEF SendSignalToFilteredContainers, Phases
<1> QED
  BY <1>1, <1>2, <1>3, <1>4, <1>5, <1>6, <1>7, <1>8, <1>9 DEF Step

LEMMA NextSafe ==
  ASSUME "notify" \notin Faults, "fatal" \notin Faults
  PROVE  TypeOK /\ NoLostNotification /\ [Next]_vars => NoLostNotification'
<1> SUFFICES ASSUME TypeOK, NoLostNotification, [Next]_vars
             PROVE  NoLostNotification'
  OBVIOUS
<1>1. ASSUME NEW c \in Containers, NEW a \in Addrs \cup {Gone}, Change(c, a)
      PROVE  NoLostNotification'
  BY <1>1, PassSafe DEF Change
<1>2. CASE Subscribe
  BY <1>2, QuietSafe DEF Subscribe, TypeOK, Quiet
<1>3. CASE Disconnect
  BY <1>3, PassSafe DEF Disconnect
<1>4. CASE Fanout
  BY <1>4, PassSafe DEF Fanout
<1>5. CASE Sighup
  BY <1>5, PassSafe DEF Sighup
<1>6. ASSUME NEW g \in Tickers, Tick(g)
      PROVE  NoLostNotification'
  BY <1>6, PassSafe DEF Tick
<1>7. ASSUME NEW g \in Goroutines, Step(g)
      PROVE  NoLostNotification'
  BY <1>7, StepSafe
<1>8. ASSUME NEW g \in Goroutines, Fatal(g)
      PROVE  NoLostNotification'
  BY <1>8 DEF Fatal, Fault
<1>9. CASE UNCHANGED vars
  BY <1>9, PassSafe DEF vars, passVars
<1> QED
  BY <1>1, <1>2, <1>3, <1>4, <1>5, <1>6, <1>7, <1>8, <1>9 DEF Next

\* As long as notifications succeed and the process does not die in the middle
\* of a pass, no change of a destination file goes unannounced, whatever passes
\* overlap.
THEOREM NotificationSafe ==
  ASSUME "notify" \notin Faults, "fatal" \notin Faults
  PROVE  Spec => []NoLostNotification
<1>1. Init => NoLostNotification
  BY ConfigAssumption DEF Init, NoLostNotification
<1>2. TypeOK /\ NoLostNotification /\ [Next]_vars => NoLostNotification'
  BY NextSafe
<1> QED
  BY <1>1, <1>2, TypeCorrect, PTL DEF Spec

-----------------------------------------------------------------------------
(* Mutual exclusion on a destination file.  Nothing guards a file, so that *)
(* passes exclude each other only because of who wakes whom:               *)
(*   - the initial pass is over before the listener is registered;         *)
(*   - the sync that follows the registration runs in the goroutine that   *)
(*     hands out events, so that no watcher has work before it is over;    *)
(*   - the listener is registered once, and nobody sends SIGHUP.           *)

OnePassInv ==
  /\ left["sighup"] = 0 /\ left["disconnect"] = 0
  /\ \A g \in Walkers : wake[g] = 0
  /\ \A w \in Watchers : cfg[w] = ConfigOf[w]
  /\ Events \in Walkers =>
       /\ pc[Signals] = "idle"
       /\ pc[Events] # "idle" => subscribed
  /\ subscribed => Started /\ Events \in Walkers
  /\ feed > 0 => subscribed
  /\ \A w \in Watchers :
       pc[w] # "idle" \/ wake[w] > 0 => subscribed /\ pc[Events] = "idle"

\* Watchers alone, each with its own config, on a connection that holds.
WatchersAlone ==
  /\ Tickers = {}
  /\ \A v, w \in Watchers : ConfigOf[v] = ConfigOf[w] => v = w
  /\ Bounds["sighup"] = 0 /\ Bounds["disconnect"] = 0

LEMMA GoroutineNames ==
  /\ Main \in Walkers /\ Walkers \subseteq {Main, Events, Signals}
  /\ Events \in Walkers <=> Watchers # {}
  /\ Signals \in Walkers <=> Watchers # {}
  /\ Walkers \cap Watchers = {}
  /\ Goroutines = Walkers \cup Watchers \cup Tickers
BY GoroutineAssumption DEF Walkers, Workers, Goroutines

LEMMA OnePassInit == WatchersAlone /\ Init => OnePassInv
BY ConfigAssumption, GoroutineNames, GoroutineAssumption
   DEF WatchersAlone, Init, OnePassInv, Limited, FirstConfig, Started, Workers

LEMMA SpendOther ==
  ASSUME TypeOK, NEW what \in Limited, Spend(what),
         left["sighup"] = 0, left["disconnect"] = 0
  PROVE  /\ left'["sighup"] = 0 /\ left'["disconnect"] = 0
         /\ what # "sighup" /\ what # "disconnect"
BY DEF TypeOK, Spend, Limited

\* A step of g's pass leaves the others where they are, and g with its config.
PassFrame(g) ==
  /\ \A h \in Goroutines \ {g} : pc'[h] = pc[h] /\ cfg'[h] = cfg[h]
  /\ g \in Watchers => cfg'[g] = ConfigOf[g]

LEMMA AdvanceFrame ==
  ASSUME TypeOK, NEW g \in Goroutines, Advance(g) \/ EndPass(g)
  PROVE  PassFrame(g)
BY GoroutineNames DEF TypeOK, Advance, EndPass, FirstConfig, PassFrame

LEMMA StayFrame ==
  ASSUME TypeOK, OnePassInv, NEW g \in Goroutines, UNCHANGED cfg,
         NEW point, pc' = [pc EXCEPT ![g] = point]
  PROVE  PassFrame(g)
BY DEF TypeOK, PassFrame, OnePassInv

\* A pass of goroutine g, which is under way, goes on or ends.
LEMMA OnePassStep ==
  ASSUME TypeOK, OnePassInv, NEW g \in Goroutines, pc[g] # "idle",
         UNCHANGED <<subscribed, feed, wake>>,
         \/ UNCHANGED left
         \/ Spend("fault"),
         PassFrame(g)
  PROVE  OnePassInv'
<1>1. left'["sighup"] = 0 /\ left'["disconnect"] = 0
  BY SpendOther DEF OnePassInv, Limited
<1>2. \A w \in Watchers : cfg'[w] = ConfigOf[w]
  BY GoroutineNames DEF OnePassInv, PassFrame
<1>3. /\ Events \in Walkers => pc'[Signals] = "idle"
      /\ Events \in Walkers /\ pc'[Events] # "idle" => subscribed
  BY GoroutineNames DEF OnePassInv, PassFrame
<1>4. subscribed => pc'[Main] = "idle" /\ Events \in Walkers
  BY GoroutineNames DEF OnePassInv, PassFrame, Started
<1>5. ASSUME NEW w \in Watchers, pc'[w] # "idle" \/ wake[w] > 0
      PROVE  subscribed /\ pc'[Events] = "idle"
  <2>1. pc[w] # "idle" \/ wake[w] > 0
    BY <1>5, GoroutineNames DEF PassFrame
  <2>2. subscribed /\ pc[Events] = "idle"
    BY <2>1 DEF OnePassInv
  <2> QED
    BY <2>2, GoroutineNames DEF PassFrame
<1> QED
  BY <1>1, <1>2, <1>3, <1>4, <1>5 DEF OnePassInv, Started

LEMMA OnePassNext ==
  ASSUME TypeOK, OnePassInv, WatchersAlone, [Next]_vars
  PROVE  OnePassInv'
<1>1. ASSUME NEW c \in Containers, NEW a \in Addrs \cup {Gone}, Change(c, a)
      PROVE  OnePassInv'
  <2>1. left'["sighup"] = 0 /\ left'["disconnect"] = 0
    BY <1>1, SpendOther DEF Change, OnePassInv, Limited
  <2>2. feed' > 0 => subscribed
    BY <1>1 DEF Change, OnePassInv, TypeOK
  <2> QED
    BY <1>1, <2>1, <2>2 DEF Change, OnePassInv, passVars, Started
<1>2. CASE Subscribe
  <2>1. /\ Watchers # {} /\ Events \in Walkers /\ ~subscribed
        /\ subscribed' /\ pc[Main] = "idle"
    BY <1>2, GoroutineNames, GoroutineAssumption DEF Subscribe, Started, Workers
  <2>2. \A w \in Watchers : ~(pc'[w] # "idle" \/ wake'[w] > 0)
    BY <1>2, <2>1, GoroutineNames DEF Subscribe, OnePassInv, TypeOK
  <2>3. pc'[Signals] = "idle" /\ pc'[Main] = "idle"
    BY <1>2, <2>1, GoroutineNames, GoroutineAssumption
       DEF Subscribe, OnePassInv, TypeOK
  <2> QED
    BY <1>2, <2>1, <2>2, <2>3 DEF Subscribe, OnePassInv, Started
<1>3. ASSUME Disconnect PROVE FALSE
  BY <1>3 DEF Disconnect, Spend, OnePassInv
<1>4. CASE Fanout
  <2>1. feed > 0 /\ feed' = feed - 1 /\ subscribed /\ pc[Events] = "idle"
    BY <1>4 DEF Fanout, OnePassInv
  <2>2. \A g \in Walkers : wake'[g] = 0
    BY <1>4, GoroutineNames DEF Fanout, HandOut, OnePassInv
  <2> QED
    BY <1>4, <2>1, <2>2 DEF Fanout, OnePassInv, passVars, Started
<1>5. ASSUME Sighup PROVE FALSE
  BY <1>5 DEF Sighup, Spend, OnePassInv
<1>6. ASSUME NEW g \in Tickers, Tick(g)
      PROVE  FALSE
  BY <1>6 DEF WatchersAlone
<1>7. ASSUME NEW g \in Goroutines, Step(g)
      PROVE  OnePassInv'
  <2> USE <1>7
  <2>1. CASE Receive(g)
    <3>1. g \in Watchers /\ subscribed /\ pc[Events] = "idle"
      BY <2>1, GoroutineNames DEF Receive, OnePassInv, WatchersAlone
    <3>2. /\ \A h \in Walkers : wake'[h] = 0 /\ pc'[h] = pc[h]
          /\ Events \in Walkers /\ Main \in Walkers /\ Signals \in Walkers
      BY <2>1, <3>1, GoroutineNames DEF Receive, OnePassInv, TypeOK
    <3>3. ASSUME NEW w \in Watchers
          PROVE  subscribed' /\ pc'[Events] = "idle"
      BY <2>1, <3>1, <3>2 DEF Receive
    <3> QED
      BY <2>1, <3>1, <3>2, <3>3 DEF Receive, OnePassInv, Started
  <2>2. CASE List(g)
    <3>1. PassFrame(g)
      BY <2>2, StayFrame, AdvanceFrame DEF List
    <3> QED
      BY <2>2, <3>1, OnePassStep DEF List, Fault
  <2>3. CASE Inspect(g)
    <3>1. PassFrame(g)
      BY <2>3 DEF Inspect, PassFrame, OnePassInv
    <3> QED
      BY <2>3, <3>1, OnePassStep DEF Inspect, Fault
  <2>4. CASE Compare(g)
    <3>1. PassFrame(g)
      BY <2>4, StayFrame, AdvanceFrame DEF Compare
    <3> QED
      BY <2>4, <3>1, OnePassStep DEF Compare
  <2>5. CASE Truncate(g)
    BY <2>5, StayFrame, OnePassStep DEF Truncate
  <2>6. CASE Write(g)
    BY <2>6, StayFrame, OnePassStep DEF Write
  <2>7. CASE RunNotifyCmd(g)
    <3>1. PassFrame(g)
      BY <2>7, StayFrame DEF RunNotifyCmd
    <3> QED
      BY <2>7, <3>1, OnePassStep DEF RunNotifyCmd, Notify, Fault
  <2>8. CASE SendSignalToContainers(g)
    <3>1. PassFrame(g)
      BY <2>8, StayFrame DEF SendSignalToContainers
    <3> QED
      BY <2>8, <3>1, OnePassStep DEF SendSignalToContainers, Notify, Fault
  <2>9. CASE SendSignalToFilteredContainers(g)
    <3>1. PassFrame(g)
      BY <2>9, AdvanceFrame DEF SendSignalToFilteredContainers
    <3> QED
      BY <2>9, <3>1, OnePassStep
         DEF SendSignalToFilteredContainers, Notify, Fault
  <2> QED
    BY <2>1, <2>2, <2>3, <2>4, <2>5, <2>6, <2>7, <2>8, <2>9 DEF Step
<1>8. ASSUME NEW g \in Goroutines, Fatal(g)
      PROVE  OnePassInv'
  <2>1. left'["sighup"] = 0 /\ left'["disconnect"] = 0
    BY <1>8, SpendOther DEF Fatal, Fault, OnePassInv, Limited
  <2> QED
    BY <1>8, <2>1, GoroutineNames, GoroutineAssumption
       DEF Fatal, OnePassInv, FirstConfig
<1>9. CASE UNCHANGED vars
  BY <1>9 DEF vars, OnePassInv, Started
<1> QED
  BY <1>1, <1>2, <1>3, <1>4, <1>5, <1>6, <1>7, <1>8, <1>9 DEF Next

LEMMA OnePassImplies ==
  ASSUME TypeOK, OnePassInv, WatchersAlone
  PROVE  OnePassPerDest
<1> SUFFICES ASSUME NEW c \in Configs, NEW g \in Goroutines,
                    NEW h \in Goroutines, Busy(g, c), Busy(h, c)
             PROVE  g = h
  BY DEF OnePassPerDest
<1>1. \A k \in Walkers : k = Main \/ (k = Events /\ Events \in Walkers)
                        \/ (k = Signals /\ Events \in Walkers)
  BY GoroutineNames
<1>2. g \in Walkers \cup Watchers /\ h \in Walkers \cup Watchers
  BY GoroutineNames DEF WatchersAlone
<1>3. pc[g] # "idle" /\ pc[h] # "idle" /\ cfg[g] = cfg[h]
  BY DEF Busy
<1>4. CASE g \in Walkers
  BY <1>1, <1>2, <1>3, <1>4 DEF OnePassInv, Started
<1>5. CASE h \in Walkers
  BY <1>1, <1>2, <1>3, <1>5 DEF OnePassInv, Started
<1>6. CASE g \in Watchers /\ h \in Watchers
  BY <1>3, <1>6 DEF OnePassInv, WatchersAlone
<1> QED
  BY <1>2, <1>4, <1>5, <1>6

\* Without reconnections, SIGHUP and intervals, and with at most one watcher
\* for each config, no two passes ever overlap on one destination file.
THEOREM PassesExclude ==
  ASSUME WatchersAlone
  PROVE  Spec => []OnePassPerDest
<1>1. Init => OnePassInv
  BY OnePassInit
<1>2. TypeOK /\ OnePassInv /\ [Next]_vars => OnePassInv'
  BY OnePassNext
<1>3. TypeOK /\ OnePassInv => OnePassPerDest
  BY OnePassImplies
<1> QED
  BY <1>1, <1>2, <1>3, TypeCorrect, PTL DEF Spec
=============================================================================
