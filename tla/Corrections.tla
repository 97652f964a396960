---------------------------- MODULE Corrections ----------------------------
(***************************************************************************)
(* spokenform_gold/corrections.py with prepare-correction and              *)
(* apply-correction of cli.py: a maintainer changes one canonical record.  *)
(* A command reads the corpus and the lineage file, computes the corrected *)
(* record, and replaces the corpus (CorpusStore shows that step is one),   *)
(* then rewrites the lineage, then fills a receipt directory named by the  *)
(* revision.  It can be killed between two of these writes.                *)
(***************************************************************************)
EXTENDS Naturals, FiniteSets, SequencesExt

CONSTANTS Records,       \* permanent ids, in the corpus from the start
          Oracles,       \* what oracle_hash covers: input, units, oracle, status
          Notes,         \* what it does not: notes, negative_for
          Terminals,     \* where commands run, one at a time in each
          None,
          Torn,          \* a lineage that ends in half a line: reading it raises
          MaxRevisions,  \* bound: corrections on one record
          MaxDecisions,  \* bound: decision files prepared
          MaxPreviews,   \* bound: applications without --write
          MaxCrashes     \* bound: killed commands

ASSUME CorrectionBounds ==
    {MaxRevisions, MaxDecisions, MaxPreviews, MaxCrashes} \subseteq Nat

ASSUME CorpusIsFinite == IsFiniteSet(Records)

VARIABLES corpus,     \* each record: its content and its correction history
          lineage,    \* data/lineage/review-evidence.jsonl, row by row
          decisions,  \* the decision.json files maintainers filled in
          receipts,   \* the directories corrections/<id>/rev-<NNNN> with files
          job,        \* the command each terminal runs, and what it computed
          previews, crashes

vars == <<corpus, lineage, decisions, receipts, job, previews, crashes>>

-----------------------------------------------------------------------------
Content == [oracle : Oracles, notes : Notes]

\* An item of review.correction_history; oracles stand for their hashes.
Item == [revision : Nat \ {0}, old : Oracles, new : Oracles]
CanonicalRecord == [content : Content, history : Seq(Item)]

\* One row per record; a row of revision 0 is a record's legacy evidence.
EvidenceRow == [record : Records, revision : Nat, history : Seq(Item)]

Decision == [record : Records, old : Oracles, content : Content]
Receipt == [record : Records, revision : Nat \ {0}]

Idle == [step |-> "idle", record |-> None, updated |-> None, rows |-> <<>>]

-----------------------------------------------------------------------------
(***************************************************************************)
(* _previous_revision.  It means to look at the record's own history too,  *)
(* but keeps only entries with the record's record_id, and items of the    *)
(* history have none.  Evidence for every record is made up, with revision *)
(* 0, when the file is missing or empty.                                   *)
(***************************************************************************)
PreviousRevision(r, rows) ==
    LET revisions == {rows[i].revision : i \in {j \in DOMAIN rows : rows[j].record = r}}
    IN  Max(revisions \union {0})

\* Mutants of NextItem: the previous revision again; the new hash is taken
\* before the change.
NextItemSameRevision(d) ==
    [revision |-> PreviousRevision(d.record, lineage),
     old |-> corpus[d.record].content.oracle,
     new |-> d.content.oracle]

NextItemOldHash(d) ==
    [revision |-> PreviousRevision(d.record, lineage) + 1,
     old |-> corpus[d.record].content.oracle,
     new |-> corpus[d.record].content.oracle]

\* apply_correction on the record as read and the lineage as read.
NextItem(d) ==
    [revision |-> PreviousRevision(d.record, lineage) + 1,
     old |-> corpus[d.record].content.oracle,
     new |-> d.content.oracle]

\* Mutant of Corrected: the new item replaces the history.
CorrectedAfresh(d) == [content |-> d.content, history |-> <<NextItem(d)>>]

Corrected(d) ==
    [content |-> d.content,
     history |-> Append(corpus[d.record].history, NextItem(d))]

Legacy(r) == [record |-> r, revision |-> 0, history |-> <<>>]
Evidence == IF lineage = <<>> THEN SetToSeq({Legacy(r) : r \in Records}) ELSE lineage

\* The rows of other records.  A lineage has at most one row of a record: the
\* files the program starts with do, and WithEntry keeps it that way.
Without(rows, r) ==
    IF \E i \in DOMAIN rows : rows[i].record = r
      THEN RemoveAt(rows, CHOOSE i \in DOMAIN rows : rows[i].record = r)
      ELSE rows

\* Mutant of WithEntry: the record's row keeps its revision.
WithEntrySameRevision(rows, d) ==
    Append(Without(rows, d.record),
           [record |-> d.record,
            revision |-> PreviousRevision(d.record, rows),
            history |-> Corrected(d).history])

\* _correction_evidence_entry: the record's row is replaced, at the end.
WithEntry(rows, d) ==
    Append(Without(rows, d.record),
           [record |-> d.record,
            revision |-> NextItem(d).revision,
            history |-> Corrected(d).history])

Init ==
    /\ corpus \in [Records -> [content : Content, history : {<<>>}]]
    /\ lineage \in {<<>>, SetToSeq({Legacy(r) : r \in Records})}
    /\ decisions = {}
    /\ receipts = {}
    /\ job = [t \in Terminals |-> Idle]
    /\ previews = 0
    /\ crashes = 0

-----------------------------------------------------------------------------
At(t, step) == job[t].step = step
Goto(t, step) == job' = [job EXCEPT ![t].step = step]
Return(t) == job' = [job EXCEPT ![t] = Idle]
LastItem(t) == Last(job[t].updated.history)

\* prepare-correction, and the maintainer's edit of its decision.json.
Prepare(r, content) ==
    /\ lineage # Torn
    /\ Cardinality(decisions) < MaxDecisions
    /\ decisions' = decisions \union
         {[record |-> r, old |-> corpus[r].content.oracle, content |-> content]}
    /\ UNCHANGED <<corpus, lineage, receipts, job, previews, crashes>>

\* What validate_correction and apply_correction accept.
Applicable(d) ==
    /\ lineage # Torn
    /\ d.old = corpus[d.record].content.oracle
    /\ d.content # corpus[d.record].content
    /\ Len(corpus[d.record].history) < MaxRevisions

\* apply-correction without --write: only the receipt directory, which has
\* the same name as that of the application it previews.
Preview(d) ==
    LET receipt == [record |-> d.record, revision |-> NextItem(d).revision] IN
    /\ previews < MaxPreviews
    /\ Applicable(d)
    /\ receipt \notin receipts
    /\ receipts' = receipts \union {receipt}
    /\ previews' = previews + 1
    /\ UNCHANGED <<corpus, lineage, decisions, job, crashes>>

\* apply-correction --write reads the corpus and the lineage ...
Apply(t, d) ==
    /\ At(t, "idle")
    /\ Applicable(d)
    /\ job' = [job EXCEPT ![t] = [step |-> "check",
                                  record |-> d.record,
                                  updated |-> Corrected(d),
                                  rows |-> WithEntry(Evidence, d)]]
    /\ UNCHANGED <<corpus, lineage, decisions, receipts, previews, crashes>>

\* ... reads the corpus again, to see whether the record has changed ...
Check(t) ==
    /\ At(t, "check")
    /\ IF corpus[job[t].record].content.oracle = LastItem(t).old
         THEN Goto(t, "corpus")
         ELSE Return(t)
    /\ UNCHANGED <<corpus, lineage, decisions, receipts, previews, crashes>>

\* Mutant of WriteCorpus: the fields are replaced, the history is not.
WriteContentOnly(t) ==
    /\ At(t, "corpus")
    /\ corpus' = [corpus EXCEPT ![job[t].record].content = job[t].updated.content]
    /\ Goto(t, "lineage")
    /\ UNCHANGED <<lineage, decisions, receipts, previews, crashes>>

WriteCorpus(t) ==
    /\ At(t, "corpus")
    /\ corpus' = [corpus EXCEPT ![job[t].record] = job[t].updated]
    /\ Goto(t, "lineage")
    /\ UNCHANGED <<lineage, decisions, receipts, previews, crashes>>

WriteLineage(t) ==
    /\ At(t, "lineage")
    /\ lineage' = job[t].rows
    /\ Goto(t, "receipt")
    /\ UNCHANGED <<corpus, decisions, receipts, previews, crashes>>

\* A directory that is not empty ends the command with an error.
ReceiptOf(t) == [record |-> job[t].record, revision |-> LastItem(t).revision]

WriteReceipt(t) ==
    /\ At(t, "receipt")
    /\ receipts' = receipts \union {ReceiptOf(t)}
    /\ Return(t)
    /\ UNCHANGED <<corpus, lineage, decisions, previews, crashes>>

\* The command is killed.  write_jsonl truncates the lineage and writes it
\* row by row, so any part of the new file may be what is left of it.
Crash(t) ==
    /\ crashes < MaxCrashes
    /\ ~ At(t, "idle")
    /\ \/ UNCHANGED <<lineage, receipts>>
       \/ /\ At(t, "lineage")
          /\ lineage' \in {SubSeq(job[t].rows, 1, n) : n \in 0 .. Len(job[t].rows)}
                            \union {Torn}
          /\ UNCHANGED receipts
       \/ /\ At(t, "receipt")
          /\ receipts' = receipts \union {ReceiptOf(t)}
          /\ UNCHANGED lineage
    /\ Return(t)
    /\ crashes' = crashes + 1
    /\ UNCHANGED <<corpus, decisions, previews>>

Next ==
    \/ \E r \in Records, content \in Content : Prepare(r, content)
    \/ \E d \in decisions : Preview(d)
    \/ \E t \in Terminals :
         \/ \E d \in decisions : Apply(t, d)
         \/ Check(t)
         \/ WriteCorpus(t)
         \/ WriteLineage(t)
         \/ WriteReceipt(t)
         \/ Crash(t)

Spec == Init /\ [][Next]_vars

-----------------------------------------------------------------------------
(***************************************************************************)
(* TypeOK: the records, the evidence rows and what a command carries from  *)
(* one write to the next have the shape their readers expect.              *)
(***************************************************************************)
TypeOK ==
    /\ corpus \in [Records -> CanonicalRecord]
    /\ lineage = Torn \/ lineage \in Seq(EvidenceRow)
    /\ decisions \subseteq Decision
    /\ receipts \subseteq Receipt
    /\ job \in [Terminals -> [step : {"idle", "check", "corpus", "lineage", "receipt"},
                              record : Records \union {None},
                              updated : CanonicalRecord \union {None},
                              rows : Seq(EvidenceRow)]]
    /\ previews \in 0 .. MaxPreviews /\ crashes \in 0 .. MaxCrashes

(***************************************************************************)
(* HistoryAppends: a record only changes together with its correction      *)
(* history, which grows by one item at the end: no application, however    *)
(* old its decision file, and no killed command takes an item away.        *)
(***************************************************************************)
HistoryAppends ==
    [][\A r \in Records :
         corpus'[r] # corpus[r] =>
           /\ Len(corpus'[r].history) = Len(corpus[r].history) + 1
           /\ Front(corpus'[r].history) = corpus[r].history]_vars

(***************************************************************************)
(* ChainConnected: a record's history leads from item to item without a    *)
(* gap to the oracle the record has now, so that it can be audited.        *)
(***************************************************************************)
ChainConnected ==
    \A r \in Records :
        LET h == corpus[r].history
        IN  h # <<>> =>
              /\ \A i \in 1 .. Len(h) - 1 : h[i].new = h[i + 1].old
              /\ Last(h).new = corpus[r].content.oracle

(***************************************************************************)
(* LineageIsPrefix: the lineage never tells of a correction that is not in *)
(* the corpus; after a crash it may lag behind, or have lost rows.         *)
(***************************************************************************)
LineageIsPrefix ==
    lineage # Torn =>
        \A i \in DOMAIN lineage :
            IsPrefix(lineage[i].history, corpus[lineage[i].record].history)

(***************************************************************************)
(* RevisionsIncrease: while no command is killed, the revisions of a       *)
(* record's history are 1, 2, 3, ... though they are counted from the      *)
(* lineage file and not from the history itself.                           *)
(***************************************************************************)
RevisionsIncrease ==
    crashes = 0 =>
        \A r \in Records : \A i \in DOMAIN corpus[r].history :
            corpus[r].history[i].revision = i
=============================================================================
