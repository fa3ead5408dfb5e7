----------------------------- MODULE MCNginxQuote -----------------------------
(***************************************************************************)
(* All values of up to five characters, one or two of each sort.           *)
(***************************************************************************)
EXTENDS NginxQuote, SequencesExt

MCCharacters == {"a", Single, Double, Backslash, ";", "#", " ", "\n"}
MCQuoteValues == BoundedSeq(MCCharacters, 5)
===============================================================================
