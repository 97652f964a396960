--------------------------- MODULE MCTranslation ---------------------------
(***************************************************************************)
(* Instances of Translation for TLC.                                       *)
(***************************************************************************)
EXTENDS Translation, TLC

CONSTANTS c1, c2

Ordered == <<c1, c2>>
Symmetry == Permutations(Translators) \union Permutations(Adjudicators)
=============================================================================
