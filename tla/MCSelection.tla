----------------------------- MODULE MCSelection -----------------------------
(***************************************************************************)
(* All lists of up to three entries over four strings, two of which are    *)
(* lists themselves, one with a string twice; all comparisons of up to two *)
(* strings.                                                                *)
(***************************************************************************)
EXTENDS Selection, SequencesExt, TLC

CONSTANTS a, b, ab, aa

MCStrings == {a, b, ab, aa}
MCSplit == (a :> <<a>>) @@ (b :> <<b>>) @@ (ab :> <<a, b>>) @@ (aa :> <<a, a>>)
MCLists == BoundedSeq(MCStrings \cup {Nil, Other}, 3)
MCComparisons == BoundedSeq({a, b}, 2)
===============================================================================
