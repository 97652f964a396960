------------------------------ MODULE Datasets ------------------------------
(***************************************************************************)
(* The first data layout: train, dev and test files, and a registry that   *)
(* freezes every family in one of them.  Candidates are promoted by        *)
(* decision, split with the canonical records, re-reviewed, committed and  *)
(* released.  splitting.py writes four files in place, one after another,  *)
(* and may be killed in any of them.                                       *)
(***************************************************************************)
EXTENDS ReviewProtocol, Promotion

CONSTANTS Families, Ids, Spellings,
          Edited,        \* bound: the records respelled, or mistaken for another's
          Seeds,
          Ratios,        \* the ratios a split may be asked for
          HashSplit,     \* the split a new family gets, of seed, ratios and family
          Canonical,     \* the records the data starts with
          None

Splits == <<"train", "dev", "test">>
ReleaseSplits == ToSet(Splits)

ASSUME SplitAssumption ==
    /\ Seeds # {} /\ None \notin ReleaseSplits
    /\ HashSplit \in [Seeds \X Ratios \X Families -> ReleaseSplits]

\* The fields of a record.  The data starts as validate_records accepts it: a
\* family is in one split.
ASSUME CanonicalAssumption ==
    /\ \A r \in Canonical \union Candidates :
         r = [id |-> r.id, lang |-> r.lang, text |-> r.text, family |-> r.family,
              split |-> r.split, by |-> r.by, status |-> r.status]
    /\ \A r \in Canonical : r.family \in Families
    /\ \A r, s \in Canonical : r.family = s.family => r.split = s.split

VARIABLES data,          \* the records of each split file
          broken,        \* the split files that end within a line
          registry,      \* splits/family_assignments.json
          committed,     \* records and registry, as last committed
          staged,        \* the output of promote-reviewed
          rows,          \* the rows of slot A and of slot B
          decided,       \* the canonical decisions
          applied,       \* records.jsonl of apply-reviewed-oracles
          released       \* the split each family was last released in

vars == <<data, broken, registry, committed, staged, rows, decided, applied, released>>
review == <<rows, decided, applied>>

RecordsOf(files) == UNION {files[s] : s \in ReleaseSplits}

\* read_jsonl: half a line ends the command that reads it.
Readable == broken = {}

Missing == [form |-> "missing", seed |-> None, families |-> [f \in Families |-> None]]
Torn == [Missing EXCEPT !.form = "torn"]

-----------------------------------------------------------------------------
\* resolve_family_assignments

SplitsAsserted(records, f) == {r.split : r \in {q \in records : q.family = f}} \intersect ReleaseSplits

\* What it refuses: a registry cut short, another seed, a family found in a
\* split it is not frozen in, or found in two.
Resolvable(reg, records, seed) ==
    /\ reg.form # "torn"
    /\ reg.seed \in {None, seed}
    /\ \A f \in {r.family : r \in records} :
         LET found == SplitsAsserted(records, f)
         IN  IF reg.families[f] # None THEN found \subseteq {reg.families[f]} ELSE Cardinality(found) <= 1

\* Mutant of Resolved: the ratios decide again.
ResolvedAgain(reg, records, seed, ratios) ==
    [form |-> "whole", seed |-> seed,
     families |-> [f \in Families |->
        IF f \notin {r.family : r \in records} THEN reg.families[f]
        ELSE HashSplit[seed, ratios, f]]]

\* A frozen family keeps its split, a new one takes that of its records, and
\* one with neither is hashed.  A missing registry is an empty one.
Resolved(reg, records, seed, ratios) ==
    [form |-> "whole", seed |-> seed,
     families |-> [f \in Families |->
        IF reg.families[f] # None \/ f \notin {r.family : r \in records} THEN reg.families[f]
        ELSE IF SplitsAsserted(records, f) # {} THEN CHOOSE s \in SplitsAsserted(records, f) : TRUE
        ELSE HashSplit[seed, ratios, f]]]

Placed(records, reg) ==
    [s \in ReleaseSplits |->
        {[r EXCEPT !.split = s] : r \in {q \in records : reg.families[q.family] = s}}]

\* The whole lines of a file, in the order of their ids, that was cut short.
Cuts(records) == {{r \in records : r.id < n} : n \in Ids \union {0}}

-----------------------------------------------------------------------------
Init ==
    /\ data = [s \in ReleaseSplits |-> {r \in Canonical : r.split = s}]
    /\ broken = {}
    /\ registry = Missing
    /\ committed = [data |-> data, registry |-> registry]
    /\ staged = {}
    /\ rows = [s \in Slots |-> << >>]
    /\ decided = << >>
    /\ applied = {}
    /\ released = [f \in Families |-> None]

\* promote-reviewed, against the canonical records.  Bound: one batch is.
Promote(decisions) ==
    /\ staged = {}
    /\ Readable
    /\ BatchAccepted(decisions, RecordsOf(data))
    /\ staged' = Staging(decisions)
    /\ UNCHANGED <<data, broken, registry, committed, released, review>>

\* split, of the canonical records and the given others: the registry, then
\* train, dev and test.
Split(others, seed, ratios) ==
    LET records == RecordsOf(data) \union others
        reg == Resolved(registry, records, seed, ratios)
    IN  /\ Readable
        /\ Resolvable(registry, records, seed)
        /\ registry' = reg
        /\ data' = Placed(records, reg)
        /\ UNCHANGED <<broken, committed, staged, released, review>>

\* split, killed in the registry, before the first file, or in one of the
\* three: the file was emptied and is written through a buffer, so that it
\* ends after any line or within one.
SplitKilled(others, seed, ratios) ==
    LET records == RecordsOf(data) \union others
        reg == Resolved(registry, records, seed, ratios)
        new == Placed(records, reg)
    IN  /\ Readable
        /\ Resolvable(registry, records, seed)
        /\ \/ registry' = Torn /\ UNCHANGED <<data, broken>>
           \/ registry' = reg /\ UNCHANGED <<data, broken>>
           \/ \E n \in DOMAIN Splits : \E cut \in Cuts(new[Splits[n]]) :
                /\ registry' = reg
                /\ data' = [s \in ReleaseSplits |->
                              IF s = Splits[n] THEN cut
                              ELSE IF s \in {Splits[i] : i \in 1..n} THEN new[s] ELSE data[s]]
                /\ \/ UNCHANGED broken
                   \/ cut # new[Splits[n]] /\ broken' = {Splits[n]}
        /\ UNCHANGED <<committed, staged, released, review>>

\* The maintainers: a commit of what can be read, a checkout of it, and one of
\* a single file that cannot be read.
Commit ==
    /\ Readable
    /\ registry.form # "torn"
    /\ committed' = [data |-> data, registry |-> registry]
    /\ UNCHANGED <<data, broken, registry, staged, released, review>>

Checkout ==
    /\ data' = committed.data
    /\ broken' = {}
    /\ registry' = committed.registry
    /\ UNCHANGED <<committed, staged, released, review>>

CheckoutFile(s) ==
    /\ s \in broken
    /\ data' = [t \in ReleaseSplits |-> IF t = s THEN committed.data[t] ELSE data[t]]
    /\ broken' = broken \ {s}
    /\ UNCHANGED <<registry, committed, staged, released, review>>

\* A maintainer respells the text of a record, which stays the same sentence.
\* Bound: while a re-review is open.
Respell(id, spelling) ==
    /\ Readable
    /\ rows["A"] # << >>
    /\ data' = [s \in ReleaseSplits |->
                  {IF r.id = id THEN [r EXCEPT !.text.spelling = spelling] ELSE r : r \in data[s]}]
    /\ UNCHANGED <<broken, registry, committed, staged, released, review>>

-----------------------------------------------------------------------------
\* prepare-canonical-rereview, in a directory that is new.  Bound: one is.
PrepareRereview ==
    /\ rows["A"] = << >>
    /\ Readable
    /\ RecordsOf(data) # {}
    /\ rows' = [s \in Slots |-> BlindRows(RecordsOf(data))]
    /\ UNCHANGED <<data, broken, registry, committed, staged, released, decided, applied>>

\* The reviewers of a slot return its rows annotated, as long as they do not
\* pass; a row need not bear its reviewer's id.
Annotate(slot, who) ==
    /\ DOMAIN who = DOMAIN rows[slot]
    /\ ~RowsReady(rows[slot])
    /\ rows' = [rows EXCEPT ![slot] = [k \in DOMAIN who |-> [@[k] EXCEPT !.oracle = "annotated", !.by = who[k]]]]
    /\ UNCHANGED <<data, broken, registry, committed, staged, released, decided, applied>>

\* The adjudicator decides once review-preflight says ready, about the
\* records as they are, and may take one for a record of another family.
Decide(mistaken) ==
    LET records == RecordsOf(data)
    IN  /\ Readable
        /\ Preflight(records, rows["A"], rows["B"])
        /\ decided' = [k \in OracleIds(records) |->
              LET r == CHOOSE q \in records : OracleId(q) = k
              IN  [id |-> r.id, family |-> IF r.id = mistaken THEN None ELSE r.family, text |-> r.text,
                   reviewers |-> {Annotator(rows["A"]), Annotator(rows["B"])}]]
        /\ UNCHANGED <<data, broken, registry, committed, staged, released, rows, applied>>

\* apply-reviewed-oracles, into a directory of its own.
Apply ==
    /\ Readable
    /\ RecordsOf(data) # {}
    /\ Applicable(RecordsOf(data), rows["A"], rows["B"], decided)
    /\ applied' = Applied(RecordsOf(data), decided)
    /\ UNCHANGED <<data, broken, registry, committed, staged, released, rows, decided>>

\* The maintainers put the applied records in the place of the canonical ones.
Adopt ==
    /\ applied # {}
    /\ Readable
    /\ data' = [s \in ReleaseSplits |->
                  {r \in data[s] : r.id \notin {a.id : a \in applied}} \union {a \in applied : a.split = s}]
    /\ UNCHANGED <<broken, registry, committed, staged, released, review>>

-----------------------------------------------------------------------------
\* validate_records: one record an id ...
UniqueIds(records) == \A r, s \in records : r.id = s.id => r = s

\* ... and one split a family.
NoLeakage(records) == \A r, s \in records : r.family = s.family => r.split = s.split

\* audit_records: strict for a stable release.
Audit(records, maturity) ==
    maturity = "stable" => \A r \in records : Cardinality(r.by) >= 2

\* validate_release_split_registry.
SplitsRegistered(records, reg) == \A r \in records : reg.families[r.family] = r.split

\* release, of the first layout, built from a commit.
Release(maturity) ==
    LET records == RecordsOf(committed.data)
    IN  /\ committed.registry.form = "whole"
        /\ UniqueIds(records)
        /\ NoLeakage(records)
        /\ Audit(records, maturity)
        /\ SplitsRegistered(records, committed.registry)
        /\ \A r \in records : r.status = "gold"
        /\ released' = [f \in Families |->
             LET own == SplitsAsserted(records, f)
             IN  IF own = {} THEN released[f] ELSE CHOOSE s \in own : TRUE]
        /\ UNCHANGED <<data, broken, registry, committed, staged, review>>

-----------------------------------------------------------------------------
\* What is split with the canonical records: nothing, or the promoted ones
\* that are not among them yet.
Additions == {{}, {r \in staged : r.id \notin {q.id : q \in RecordsOf(data)}}}

Decision == [verdict : Verdicts, id : Ids, family : Families, reviewers : UNION {[1..n -> Reviewers] : n \in 1..2}]

Next ==
    \/ \E batch \in SUBSET Candidates : \E decisions \in [batch -> Decision] : Promote(decisions)
    \/ \E seed \in Seeds, ratios \in Ratios, others \in Additions : Split(others, seed, ratios)
    \/ \E seed \in Seeds, ratios \in Ratios, others \in Additions : SplitKilled(others, seed, ratios)
    \/ Commit
    \/ Checkout
    \/ \E s \in ReleaseSplits : CheckoutFile(s)
    \/ \E id \in Edited, spelling \in Spellings : Respell(id, spelling)
    \/ PrepareRereview
    \/ \E slot \in Slots : \E who \in [DOMAIN rows[slot] -> Reviewers \union {Nobody}] : Annotate(slot, who)
    \/ \E mistaken \in Edited \union {0} : Decide(mistaken)
    \/ Apply
    \/ Adopt
    \/ \E maturity \in {"experimental", "stable"} : Release(maturity)

Spec == Init /\ [][Next]_vars

-----------------------------------------------------------------------------
(***************************************************************************)
(* SplitsStand: a family that has been released in a split is never        *)
(* released in another, whatever seeds and ratios later splits are asked   *)
(* for and whatever is killed, checked out or replaced by re-reviewed      *)
(* records in between: the registry freezes it.                           *)
(***************************************************************************)
SplitsStand ==
    [][\A f \in Families : released[f] # None => released'[f] = released[f]]_vars

(***************************************************************************)
(* SplitCanBeRepeated: a split that was killed, in whichever of its files, *)
(* leaves registry and files that some split accepts, unless the registry  *)
(* itself is cut short; until re-reviewed records are put in by hand.  A   *)
(* file that ends within a line stops every command; it is enough to check *)
(* that one file out again, however old its committed records are.         *)
(***************************************************************************)
SplitCanBeRepeated ==
    applied = {} /\ registry.form # "torn" /\ Readable =>
        \E seed \in Seeds : Resolvable(registry, RecordsOf(data), seed)

\* The row of the slot shows the record's text and is annotated, and who is
\* the reviewer of the slot, whose id this row bears or else another one.
Credited(slot, r, who) ==
    LET row == rows[slot][OracleId(r)]
    IN  /\ row.text = r.text
        /\ Annotated(row)
        /\ row.by \in {who, Nobody}
        /\ who \in Annotators(rows[slot])

(***************************************************************************)
(* AppliedAsAnnotated: what an application credits to two reviewers was    *)
(* annotated in both slots with this very text, by them as far as the rows *)
(* say: no row of theirs bears another id, though apply-reviewed-oracles   *)
(* compares the record with the decision only and may run long after the   *)
(* preflight.                                                              *)
(***************************************************************************)
AppliedAsAnnotated ==
    \A r \in applied : \E a, b \in r.by :
        a # b /\ Credited("A", r, a) /\ Credited("B", r, b)

(***************************************************************************)
(* AppliedIsSigned: the rows behind an applied record bear the id of their *)
(* reviewer, as schemas/completed-review-row.schema.json requires of every *)
(* completed row.  validate_review_rows is content with one id in a slot.  *)
(***************************************************************************)
AppliedIsSigned ==
    \A r \in applied, slot \in Slots : rows[slot][OracleId(r)].by # Nobody
=============================================================================
