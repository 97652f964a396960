----------------------------- MODULE Promotion -----------------------------
(***************************************************************************)
(* promotion.py: one decision a candidate, the records made of the ones    *)
(* promoted, and what refuses the whole batch.  A decision is [verdict,    *)
(* id, family, reviewers]; its reviewers are the list the decision has.    *)
(***************************************************************************)
EXTENDS Naturals, Sequences, SequencesExt, FiniteSets

CONSTANTS Candidates,    \* records as the importers leave them
          Restricted     \* the ids of those whose source may not be embedded

Verdicts == {"promote_curated", "promote_upstream", "keep_external"}
Promotable == {"promote_curated", "promote_upstream"}

\* _validate_decision_shape: two entries, which may be one name twice.
WellShaped(d) == Len(d.reviewers) >= 2

\* _source_for_decision: an embedded upstream record needs a source that
\* allows it; a curated one is the project's own.
SourceAllows(c, d) == d.verdict = "promote_upstream" => c.id \notin Restricted

Promoted(decisions) == {c \in DOMAIN decisions : decisions[c].verdict \in Promotable}

\* _record_from_decision.
RecordOf(c, d) ==
    [c EXCEPT !.id = d.id, !.family = d.family, !.status = "gold",
              !.split = "candidate", !.by = ToSet(d.reviewers)]

\* build_promoted_records, what it refuses: language is compared with the
\* existing records of the family, not with the ones of this batch.
BatchAccepted(decisions, existing) ==
    /\ \A c \in DOMAIN decisions : WellShaped(decisions[c])
    /\ \A c \in Promoted(decisions) :
         LET d == decisions[c]
         IN  /\ SourceAllows(c, d)
             /\ \A r \in existing : r.family = d.family => r.lang = c.lang
             /\ d.id \notin {r.id : r \in existing}
             /\ \A e \in Promoted(decisions) : decisions[e].id = d.id => e = c

\* build_promoted_records, the records it returns.
Staging(decisions) == {RecordOf(c, decisions[c]) : c \in Promoted(decisions)}
=============================================================================
