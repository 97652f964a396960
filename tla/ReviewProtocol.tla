--------------------------- MODULE ReviewProtocol ---------------------------
(***************************************************************************)
(* review.py, the first review protocol: blind rows keyed by a sentence    *)
(* identity derived from the text, what makes the rows of two reviewers    *)
(* complete and comparable, and how decisions about them are applied to    *)
(* the canonical records.                                                  *)
(*                                                                         *)
(* A record is [id, lang, text, family, split, by, status]; its text is a  *)
(* sentence and a spelling of it, and normalization forgets the spelling.  *)
(***************************************************************************)
EXTENDS Naturals, FiniteSets, FiniteSetsExt

CONSTANTS Reviewers, Nobody

\* The reviewers are finitely many.
ASSUME ReviewersAssumption == IsFiniteSet(Reviewers)

Slots == {"A", "B"}

\* sentence_oracle_id: language and locale with the normalized text.
OracleId(r) == [lang |-> r.lang, sentence |-> r.text.sentence]
OracleIds(records) == {OracleId(r) : r \in records}

\* One record of a sentence: what a dictionary by oracle id keeps is unique.
NoTwins(records) == \A r, s \in records : OracleId(r) = OracleId(s) => r = s

\* blind_review_batch: one row a sentence, with the text of its first record.
BlindRows(records) ==
    [k \in OracleIds(records) |->
        [text |-> LET first == Min({r.id : r \in {s \in records : OracleId(s) = k}})
                  IN  (CHOOSE r \in records : OracleId(r) = k /\ r.id = first).text,
         oracle |-> "open",
         by |-> Nobody]]

\* _annotation_issues: an annotation with a flaw is as good as none.
Annotated(row) == row.oracle = "annotated"

\* The reviewer ids that the rows bear; a row may bear none.
Annotators(rows) == {rows[k].by : k \in DOMAIN rows} \ {Nobody}

\* validate_review_rows: every row is annotated, and there is one reviewer id
\* among them all.
RowsReady(rows) ==
    /\ \A k \in DOMAIN rows : Annotated(rows[k])
    /\ Cardinality(Annotators(rows)) = 1

Annotator(rows) == CHOOSE r \in Annotators(rows) : TRUE

\* _context_issues: the input, letter by letter, with language and locale.
SameContext(one, other) == one.text = other.text

\* compare_review_batches.
Comparable(a, b) ==
    /\ RowsReady(a)
    /\ RowsReady(b)
    /\ Annotator(a) # Annotator(b)
    /\ DOMAIN a = DOMAIN b
    /\ \A k \in DOMAIN a : SameContext(a[k], b[k])

\* review_preflight: ready.
Preflight(records, a, b) ==
    /\ NoTwins(records)
    /\ Comparable(a, b)
    /\ OracleIds(records) = DOMAIN a
    /\ \A r \in records : SameContext(r, a[OracleId(r)])

\* _validate_canonical_decision_shape.
Shape(d) == Cardinality(d.reviewers) >= 2

\* Mutant of Applicable: a decision is matched to the record by identity.
ApplicableToAnyText(records, a, b, decisions) ==
    /\ Comparable(a, b)
    /\ NoTwins(records)
    /\ DOMAIN decisions = OracleIds(records)
    /\ DOMAIN decisions \subseteq DOMAIN a
    /\ \A r \in records :
         LET d == decisions[OracleId(r)]
         IN  /\ Shape(d)
             /\ {Annotator(a), Annotator(b)} \subseteq d.reviewers
             /\ d.id = r.id
             /\ d.family = r.family

\* apply_reviewed_oracles, what it refuses: the canonical identities, the
\* completed rows and the decisions have to be about the same sentences, and
\* a decision about the record as it is.  The rows' text is not looked at.
Applicable(records, a, b, decisions) ==
    /\ Comparable(a, b)
    /\ NoTwins(records)
    /\ DOMAIN decisions = OracleIds(records)
    /\ DOMAIN decisions \subseteq DOMAIN a
    /\ \A r \in records :
         LET d == decisions[OracleId(r)]
         IN  /\ Shape(d)
             /\ {Annotator(a), Annotator(b)} \subseteq d.reviewers
             /\ d.text = r.text
             /\ d.id = r.id
             /\ d.family = r.family

\* apply_reviewed_oracles, what it writes: the record with the decided
\* oracle, status and review; identity and split stay.
Applied(records, decisions) ==
    {[r EXCEPT !.status = "gold", !.by = decisions[OracleId(r)].reviewers] : r \in records}
=============================================================================
