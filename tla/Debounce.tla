------------------------------- MODULE Debounce -------------------------------
(***************************************************************************)
(* newDebounceChannel (internal/generator/generator.go): the goroutine     *)
(* between a watcher's channel and the watcher, which lets a burst of      *)
(* events through as one, Wait.Min after its last event and no later than  *)
(* Wait.Max after its first.  Only the order of the events matters, so     *)
(* that an event is its number and a channel holds numbers.                *)
(***************************************************************************)
EXTENDS Integers, Sequences

CONSTANTS
  Waits,      \* the [min, max] pairs a config may ask for, in clock units
  ChanCap,    \* capacity of the channels (100 in the code)
  NumEvents   \* bound: how many events arrive

Unset == -1

ASSUME WaitAssumption ==
  /\ \A w \in Waits : /\ w = [min |-> w.min, max |-> w.max]
                      /\ w.min \in Nat /\ w.max \in Nat /\ w.min <= w.max
  /\ ChanCap \in Nat \ {0} /\ NumEvents \in Nat

VARIABLES
  wait,       \* the config's Wait
  sent,       \* the newest event in the input channel
  taken,      \* the newest event received from it
  closed,     \* the input channel is closed
  stage,      \* where the goroutine is; "off" where there is none
  event,      \* the event it keeps
  minTimer, maxTimer,  \* the time left on the timers, or Unset
  output,     \* the output channel
  passed,     \* the newest event the watcher has received
  burst,      \* history: the time since the burst began, Unset without a burst
  quiet       \* history: the time since the last event, as far as it matters

debounceVars == <<wait, sent, taken, closed, stage, event, minTimer, maxTimer, output,
          passed, burst, quiet>>

DebounceInit ==
  /\ wait \in Waits
  /\ sent = 0 /\ taken = 0
  /\ closed = FALSE
  /\ stage = IF wait.min = 0 THEN "off" ELSE "select"
  /\ event = Unset /\ minTimer = Unset /\ maxTimer = Unset
  /\ output = <<>>
  /\ passed = 0
  /\ burst = Unset /\ quiet = 0

-------------------------------------------------------------------------------
(* The Events goroutine sends events, as long as there is room, and closes *)
(* the channel when docker-gen shuts down.                                 *)

Send ==
  /\ ~closed
  /\ sent < NumEvents
  /\ sent - (IF stage = "off" THEN passed ELSE taken) < ChanCap
  /\ sent' = sent + 1
  /\ UNCHANGED <<wait, taken, closed, stage, event, minTimer, maxTimer, output,
                 passed, burst, quiet>>

Close ==
  /\ ~closed
  /\ closed' = TRUE
  /\ UNCHANGED <<wait, sent, taken, stage, event, minTimer, maxTimer, output,
                 passed, burst, quiet>>

-------------------------------------------------------------------------------
(* The goroutine.                                                          *)

Keep(min, max) ==
  /\ stage = "select"
  /\ taken < sent
  /\ taken' = taken + 1
  /\ event' = taken + 1
  /\ minTimer' = min /\ maxTimer' = max
  /\ quiet' = 0
  /\ burst' = IF burst = Unset THEN 0 ELSE burst
  /\ UNCHANGED <<wait, sent, closed, stage, output, passed>>

\* Mutants of Receive: the wrong timer is started anew.
ReceiveMax == Keep(wait.min, wait.max)
ReceiveMin == Keep(IF minTimer = Unset THEN wait.min ELSE minTimer,
                   IF maxTimer = Unset THEN wait.max ELSE maxTimer)

\* Mutant of Receive: the timers are started, the event is not kept.
ReceiveForgetting ==
  /\ stage = "select"
  /\ taken < sent
  /\ taken' = taken + 1
  /\ minTimer' = wait.min
  /\ maxTimer' = IF maxTimer = Unset THEN wait.max ELSE maxTimer
  /\ quiet' = 0
  /\ burst' = IF burst = Unset THEN 0 ELSE burst
  /\ UNCHANGED <<wait, sent, closed, stage, event, output, passed>>

\* An event takes the place of the one that is kept and starts the min timer
\* anew; only the first one of a burst starts the max timer.
Receive == Keep(wait.min,
                IF maxTimer = Unset THEN wait.max ELSE maxTimer)

Due(timer) == timer = 0

\* Mutant of Fire: the other timer is left running.
FireOne ==
  /\ stage = "select"
  /\ \/ Due(minTimer) /\ minTimer' = Unset /\ UNCHANGED maxTimer
     \/ Due(maxTimer) /\ maxTimer' = Unset /\ UNCHANGED minTimer
  /\ burst' = Unset
  /\ stage' = "send"
  /\ UNCHANGED <<wait, sent, taken, closed, event, output, passed, quiet>>

\* Either timer fires; both are cleared.  When an event and a timer are ready
\* at once, select may take either.
Fire ==
  /\ stage = "select"
  /\ Due(minTimer) \/ Due(maxTimer)
  /\ minTimer' = Unset /\ maxTimer' = Unset
  /\ burst' = Unset
  /\ stage' = "send"
  /\ UNCHANGED <<wait, sent, taken, closed, event, output, passed, quiet>>

\* Mutant of Forward: the event is dropped when the channel is full.
ForwardOrDrop ==
  /\ stage = "send"
  /\ output' = IF Len(output) < ChanCap THEN Append(output, event) ELSE output
  /\ stage' = "select"
  /\ UNCHANGED <<wait, sent, taken, closed, event, minTimer, maxTimer,
                 passed, burst, quiet>>

\* output <- event, which blocks while the channel is full.
Forward ==
  /\ stage = "send"
  /\ Len(output) < ChanCap
  /\ output' = Append(output, event)
  /\ stage' = "select"
  /\ UNCHANGED <<wait, sent, taken, closed, event, minTimer, maxTimer,
                 passed, burst, quiet>>

\* The input is closed and empty: the output is closed, the timers and the
\* event that is kept are forgotten.
Finish ==
  /\ stage = "select"
  /\ closed /\ taken = sent
  /\ minTimer' = Unset /\ maxTimer' = Unset /\ event' = Unset
  /\ burst' = Unset
  /\ stage' = "done"
  /\ UNCHANGED <<wait, sent, taken, closed, output, passed, quiet>>

Debouncer == Receive \/ Fire \/ Forward \/ Finish

-------------------------------------------------------------------------------
\* The watcher receives from the output, or from the input itself where Min is
\* zero.  Between two receives it runs a pass, which takes any time.
Watch ==
  /\ IF stage = "off"
     THEN /\ passed < sent
          /\ passed' = passed + 1
          /\ UNCHANGED output
     ELSE /\ output # <<>>
          /\ passed' = Head(output)
          /\ output' = Tail(output)
  /\ UNCHANGED <<wait, sent, taken, closed, stage, event, minTimer, maxTimer,
                 burst, quiet>>

\* The goroutine is fast against the clock: time passes only when it waits.
Busy == \/ stage = "select" /\ (taken < sent \/ closed \/ Due(minTimer) \/ Due(maxTimer))
        \/ stage = "send" /\ Len(output) < ChanCap

Elapse(timer) == IF timer = Unset THEN Unset ELSE timer - 1

Tick ==
  /\ ~Busy
  /\ minTimer' = Elapse(minTimer) /\ maxTimer' = Elapse(maxTimer)
  /\ burst' = IF burst = Unset THEN Unset ELSE burst + 1
  /\ quiet' = IF quiet < wait.max THEN quiet + 1 ELSE quiet
  /\ UNCHANGED <<wait, sent, taken, closed, stage, event, output, passed>>

DebounceNext == Send \/ Close \/ Debouncer \/ Watch \/ Tick

DebounceFairness ==
  /\ WF_debounceVars(Debouncer)
  /\ WF_debounceVars(Watch)
  /\ WF_debounceVars(Tick)

DebounceSpec == DebounceInit /\ [][DebounceNext]_debounceVars

DebounceFairSpec == DebounceSpec /\ DebounceFairness

-------------------------------------------------------------------------------
(* Properties.                                                             *)

Durations == Nat \cup {Unset}

DebounceTypeOK ==
  /\ wait \in Waits
  /\ sent \in Nat /\ taken \in 0..sent /\ passed \in 0..sent
  /\ closed \in BOOLEAN
  /\ stage \in {"off", "select", "send", "done"}
  /\ event \in Nat \cup {Unset}
  /\ minTimer \in Durations /\ maxTimer \in Durations
  /\ output \in Seq(Nat)
  /\ burst \in Durations /\ quiet \in Nat

\* The newest event that is in the output or has been received from it.
Forwarded == IF output = <<>> THEN passed ELSE output[Len(output)]

\* While the goroutine waits, both timers run if it keeps an event it has not
\* passed on, which is then the newest; and neither runs otherwise, so that no
\* event is passed on twice.
ArmedIffPending ==
  stage = "select" =>
    \/ taken = Forwarded /\ minTimer = Unset /\ maxTimer = Unset
    \/ taken > Forwarded /\ event = taken /\ minTimer # Unset /\ maxTimer # Unset

\* An event waits at most Max, however many follow it ("Max caps the wait when
\* events keep arriving", generator_test.go), not counting the time for which
\* the output is full.
NotOverdue == burst <= wait.max

\* An event is passed on only after Min without another one, or after Max
\* ("fires Min after the last event", generator_test.go).
Paced ==
  [][stage = "select" /\ stage' = "send" =>
       quiet >= wait.min \/ burst >= wait.max]_debounceVars

\* Unless docker-gen shuts down, the watcher is up to date again and again, and so
\* gets the last event however it is merged with others (a burst "fires Min after the
\* last event", generator_test.go).
EveryEventArrives == []<>(passed = sent \/ closed)

Without == INSTANCE Coalesce WITH
             queue <- sent - (IF stage = "off" THEN passed ELSE taken),
             shut <- closed,
             at <- IF stage = "select" THEN "wait" ELSE stage,
             kept <- minTimer # Unset \/ stage = "send",
             output <- Len(output)

\* Whatever the timers do, events are merged and delayed, and never lost, doubled
\* or kept for ever, except that the shutdown forgets the one that is kept.
ImplementsCoalesce == Without!Spec
===============================================================================
