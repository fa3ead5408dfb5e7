----------------------------- MODULE MCDebounce -----------------------------
(***************************************************************************)
(* The waits that TLC checks Debounce with: none, Max above Min and not a  *)
(* multiple of it, Max equal to Min, and the default of four times Min.    *)
(***************************************************************************)
EXTENDS Debounce

MCWait(min, max) == [min |-> min, max |-> max]
MCWaits == {MCWait(0, 0), MCWait(2, 3), MCWait(2, 2), MCWait(1, 4)}
===============================================================================
