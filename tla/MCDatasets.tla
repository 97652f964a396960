----------------------------- MODULE MCDatasets -----------------------------
EXTENDS Datasets, TLC

MCText(n) == [sentence |-> n, spelling |-> "plain"]
MCRecord(id, lang, n, family, split, status) ==
    [id |-> id, lang |-> lang, text |-> MCText(n), family |-> family, split |-> split,
     by |-> {}, status |-> status]

MCCanonical == {MCRecord(1, "en", 1, "f", "dev", "gold")}
MCCandidates == {MCRecord(9, "en", 2, "none", "candidate", "quarantine")}
MCHashSplit == [seed \in Seeds, ratios \in Ratios, f \in Families |->
                  IF ratios = "test only" THEN "test" ELSE IF seed = 1 THEN "train" ELSE "dev"]
Symmetry == Permutations(Reviewers)
=============================================================================
