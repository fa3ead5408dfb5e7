----------------------------- MODULE MCEventLoop -----------------------------
(***************************************************************************)
(* Constants for the instances of EventLoop that TLC checks.               *)
(***************************************************************************)
EXTENDS EventLoop

MCBounds(change, down, fault, hup, term) ==
  [l \in {"change", "down", "fault", "hup", "term"} |->
     CASE l = "change" -> change
       [] l = "down" -> down
       [] l = "fault" -> fault
       [] l = "hup" -> hup
       [] l = "term" -> term]

MCFeedBounds    == MCBounds(2, 1, 1, 0, 0)
MCTermBounds    == MCBounds(1, 1, 0, 1, 1)
MCHangupBounds  == MCBounds(0, 0, 0, 1, 1)
MCFaultBounds   == MCBounds(0, 0, 1, 0, 0)
===============================================================================
