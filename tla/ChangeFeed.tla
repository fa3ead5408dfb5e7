------------------------------ MODULE ChangeFeed ------------------------------
(***************************************************************************)
(* What -watch promises, without channels, connections or goroutines: after *)
(* a change of the containers every watched config is generated again, as  *)
(* soon as the daemon can be asked and unless docker-gen is shutting down.  *)
(* Each change, and each sync after a lost connection, is good for one      *)
(* attempt: if it fails the config waits for the next one.                  *)
(***************************************************************************)
CONSTANT Watched            \* the configs with Watch set

VARIABLES
  up,                       \* the daemon answers
  dirty,                    \* the configs generated before the last change
  lost,                     \* those of them whose attempt has failed
  stopped                   \* docker-gen no longer hands out events

vars == <<up, dirty, lost, stopped>>

Init ==
  /\ up = TRUE
  /\ dirty = Watched
  /\ lost = {}
  /\ stopped = FALSE

Change ==
  /\ dirty' = Watched
  /\ lost' = {}
  /\ UNCHANGED <<up, stopped>>

\* The daemon goes down or comes back.
Switch ==
  /\ up' = ~up
  /\ UNCHANGED <<dirty, lost, stopped>>

\* Config c is generated from what the daemon says now.
Generate(c) ==
  /\ up
  /\ dirty' = dirty \ {c}
  /\ lost' = lost \ {c}
  /\ UNCHANGED <<up, stopped>>

\* The attempt fails for some of the configs, although the daemon is up.
Fail ==
  /\ up
  /\ \E failed \in SUBSET Watched : lost' = lost \cup failed
  /\ UNCHANGED <<up, dirty, stopped>>

\* The configs are synced.
Retry ==
  /\ lost' = {}
  /\ UNCHANGED <<up, dirty, stopped>>

Stop ==
  /\ stopped' = TRUE
  /\ UNCHANGED <<up, dirty, lost>>

Next ==
  \/ Change
  \/ Switch
  \/ \E c \in Watched : Generate(c)
  \/ Fail
  \/ Retry
  \/ Stop

\* No dirty config waits forever while the daemon answers, but for those whose
\* attempt has failed.
Fairness ==
  \A c \in Watched : WF_vars(c \in dirty \ lost /\ ~stopped /\ Generate(c))

Spec == Init /\ [][Next]_vars /\ Fairness
===============================================================================
