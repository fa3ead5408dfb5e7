---------------------------- MODULE MCRegenerate ----------------------------
(***************************************************************************)
(* Constants for the instances of Regenerate that TLC checks.              *)
(***************************************************************************)
EXTENDS Regenerate, TLC

CONSTANTS main, events, signals, w1, w2, t1, x, y, gone

\* Two configs that one goroutine each serves.
MCConfigOfWatchers == (w1 :> 1) @@ (w2 :> 2)
\* One config, watched and rewritten at an interval as well.
MCConfigOfBoth     == (w1 :> 1) @@ (t1 :> 1)
MCConfigOfWatcher  == w1 :> 1

\* The first config runs a command and signals the containers a filter selects;
\* the second one signals containers by name.
MCNotifies(n) == [c \in 1..n |-> IF c = 1 THEN {"cmd", "filter"}
                                 ELSE {"containers"}]
MCNotifies1 == MCNotifies(1)
MCNotifies2 == MCNotifies(2)

MCBounds(change, disconnect, sighup, fault) ==
  [l \in {"change", "disconnect", "sighup", "fault"} |->
     CASE l = "change" -> change
       [] l = "disconnect" -> disconnect
       [] l = "sighup" -> sighup
       [] l = "fault" -> fault]

MCQuietBounds    == MCBounds(2, 0, 0, 0)
MCOverlapBounds  == MCBounds(1, 1, 1, 1)
MCIntervalBounds == MCBounds(1, 1, 0, 1)
MCResyncBounds   == MCBounds(2, 1, 0, 0)
MCFatalBounds    == MCBounds(1, 0, 0, 1)

===============================================================================
