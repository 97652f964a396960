----------------------------- MODULE MCCampaign -----------------------------
(***************************************************************************)
(* Instances of Campaign for TLC.                                          *)
(***************************************************************************)
EXTENDS Campaign

CONSTANTS a1, b1, b2, d1, d2

\* Two languages; the first case of the second one has the smallest id.
LanguageOf == [c \in Cases |-> IF c = 1 THEN 2 ELSE 1]

\* Two rows fill a packet to the byte.
SizeOf == [c \in Cases |-> 2]

RoleOf == [w \in Workers |->
             CASE w = a1 -> "A" [] w \in {b1, b2} -> "B" [] OTHER -> "adjudicator"]

\* b2 reviews under the identity of the other slot's reviewer; d1 and d2 are
\* one adjudicator in two contexts.
IdentityOf == [w \in Workers |->
                 CASE w = b2 -> a1 [] w = d2 -> d1 [] OTHER -> w]

\* The candidates, and a shorter list of them.
Candidates == {Cases, {2}}
AllCandidates == {Cases}
=============================================================================
