---------------------------- MODULE MCCorpusStore ----------------------------
(***************************************************************************)
(* Instances of CorpusStore for TLC: two language shards and three updates.*)
(***************************************************************************)
EXTENDS CorpusStore

CONSTANTS c1, c2, c3, en, de, u1, u2, u3

\* u1 adds a record to the English shard; u2 corrects it; u3 corrects it too,
\* and its language with it, so that the result lands in the German shard.
ThreeLanguageOf == [u \in {u1, u2, u3} |-> IF u = u3 THEN de ELSE en]

\* Two batches are integrated (u1, u3) and the record of the first corrected.
TwoIntegrations == [u \in {u1, u2, u3} |-> IF u = u2 THEN u1 ELSE None]
=============================================================================
