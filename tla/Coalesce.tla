------------------------------- MODULE Coalesce -------------------------------
(***************************************************************************)
(* A debouncer without its timers: any number of events that arrive while  *)
(* one is kept become one, which is passed on some time later.  Debounce   *)
(* implements it, with a clock; the debouncers of EventLoop take its steps. *)
(***************************************************************************)
EXTENDS Naturals

CONSTANT ChanCap            \* capacity of the channels

VARIABLES
  queue,                    \* number of events in the channel of the fan-out
  shut,                     \* that channel is closed
  at,                       \* where the debouncer is; "off" where there is none
  kept,                     \* it keeps an event
  output                    \* number of events in its output

vars == <<queue, shut, at, kept, output>>

Init ==
  /\ queue = 0 /\ shut = FALSE
  /\ at \in {"off", "wait"}
  /\ kept = FALSE /\ output = 0

HandOut ==
  /\ ~shut /\ queue < ChanCap
  /\ queue' = queue + 1
  /\ UNCHANGED <<shut, at, kept, output>>

Close ==
  /\ shut' = TRUE
  /\ UNCHANGED <<queue, at, kept, output>>

Keep ==
  /\ at = "wait" /\ queue > 0
  /\ queue' = queue - 1 /\ kept' = TRUE
  /\ UNCHANGED <<shut, at, output>>

\* One of the timers fires, and the event is on its way to the output.
Fire ==
  /\ at = "wait" /\ kept
  /\ at' = "send"
  /\ UNCHANGED <<queue, shut, kept, output>>

Forward ==
  /\ at = "send" /\ output < ChanCap
  /\ output' = output + 1 /\ kept' = FALSE /\ at' = "wait"
  /\ UNCHANGED <<queue, shut>>

\* Only here, after the input has been closed, may an event be forgotten.
Return ==
  /\ at = "wait" /\ shut /\ queue = 0
  /\ at' = "done" /\ kept' = FALSE
  /\ UNCHANGED <<queue, shut, output>>

\* The watcher receives.
Take ==
  /\ IF at = "off" THEN queue > 0 /\ queue' = queue - 1 /\ UNCHANGED output
                   ELSE output > 0 /\ output' = output - 1 /\ UNCHANGED queue
  /\ UNCHANGED <<shut, at, kept>>

Next == HandOut \/ Close \/ Keep \/ Fire \/ Forward \/ Return \/ Take

\* No event waits for ever in the channel, with the debouncer or behind it.
Fairness == WF_vars(Fire) /\ WF_vars(Keep \/ Forward \/ Return) /\ WF_vars(Take)

Spec == Init /\ [][Next]_vars /\ Fairness
===============================================================================
