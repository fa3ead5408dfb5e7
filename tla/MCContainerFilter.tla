-------------------------- MODULE MCContainerFilter --------------------------
(***************************************************************************)
(* Constants for the instances of ContainerFilter that TLC checks: up to   *)
(* two arguments in each place.                                            *)
(***************************************************************************)
EXTENDS ContainerFilter, SequencesExt

MCArgs ==
  {Malformed, [name |-> "label", value |-> "x"], [name |-> "label", value |-> "y"],
   [name |-> "status", value |-> "exited"], [name |-> "publish", value |-> "80"],
   [name |-> "expose", value |-> "80"], [name |-> "exposed", value |-> "80"]}

MCArgLists == BoundedSeq(MCArgs, 2)

\* Two values of status besides.
MCStatusLists == BoundedSeq(MCArgs \cup {[name |-> "status", value |-> "running"]}, 2)
===============================================================================
