---------------------------- MODULE Translation ----------------------------
(***************************************************************************)
(* translation.py and the translation-* commands: one batch of source      *)
(* records is translated twice, independently, in packets; an adjudicator  *)
(* decides case by case in packets of their own; finalize turns the        *)
(* decisions into candidate observations.  Any command may be run at any   *)
(* time, and most take the paths of what they read and write: a merge adds *)
(* the answers to one file of its slot and writes the outcome to another,  *)
(* or the same.                                                            *)
(***************************************************************************)
EXTENDS Naturals, FiniteSets, SequencesExt

CONSTANTS Cases,         \* the source records, in the order of their case ids
          Curated,       \* those with a spokenform_curated observation
          Flagged,       \* those with an observation whose flags permit adaptation
          Translators,
          Adjudicators,
          Drafts,        \* what a translator may answer: texts, and NoTransfer
          NoTransfer,    \* not_transferable or needs_source_context
          None,
          PacketCases,   \* --max-cases
          Complete,      \* a.complete.jsonl, and likewise of B
          Names,         \* the files of completed rows that a slot may have
          DecisionNames, \* the files of completed adjudications
          Overwrites     \* may a merge write over a file that it has not read?

ASSUME TranslationAssumption ==
    /\ \A i, j \in DOMAIN Cases : Cases[i] = Cases[j] => i = j
    /\ Curated \union Flagged \subseteq ToSet(Cases)
    /\ PacketCases \in Nat \ {0}
    /\ Complete \in Names
    /\ Overwrites \in BOOLEAN

VARIABLES tasks,         \* tasks.jsonl
          blind,         \* a.blind.jsonl and b.blind.jsonl
          handed,        \* the cases translators of a slot were given
          files,         \* the files of completed rows of a slot, by name
          shown,         \* the pairs of rows adjudicators were given of a case
          decisions,     \* the files of completed adjudications, by name
          candidates     \* the output of translation-finalize

vars == <<tasks, blind, handed, files, shown, decisions, candidates>>

Slots == {"A", "B"}
CaseSet == ToSet(Cases)

\* A file that is missing reads as an empty one.
NoRows == << >>

Verdicts == {"accept_a", "accept_b", "merge", "exclude"}   \* or "unresolved"
Accepted == {"accept_a", "accept_b", "merge"}

\* What a record of each form stands for: the rows of a file by case.
Over(old, new) == [c \in DOMAIN old \union DOMAIN new |-> IF c \in DOMAIN new THEN new[c] ELSE old[c]]

\* A file that already has another row of a case refuses the merge.
Conflict(old, new) == \E c \in DOMAIN old \intersect DOMAIN new : old[c] # new[c]

\* select_packet_rows: the first cases not completed.
NextPacket(cases, completed) ==
    LET open == {i \in DOMAIN Cases : Cases[i] \in cases \ completed}
    IN  {Cases[i] : i \in {k \in open : Cardinality({m \in open : m < k}) < PacketCases}}

\* _adaptation_source, of a record with its observations.
MaySeed(c) == c \in Curated \union Flagged

\* _adaptation_source, of what a task has kept of the observation: the
\* license without the flags.
MaySeedTask(c) == c \in Curated

Who(rows) == {rows[c].translator : c \in DOMAIN rows}
Judges(rows) == {rows[c].adjudicator : c \in DOMAIN rows}

\* The rows that the check, the adjudication packets and finalize are given:
\* those of one file, which each of them is assumed to be told.
Given(slot) == files[slot][Complete]

\* Mutant of Ready: A and B are compared case by case.
ReadyCaseByCase ==
    /\ DOMAIN Given("A") = tasks
    /\ DOMAIN Given("B") = tasks
    /\ \A c \in tasks : Given("A")[c].translator # Given("B")[c].translator

\* check_translation_batch.
Ready ==
    /\ DOMAIN Given("A") = tasks
    /\ DOMAIN Given("B") = tasks
    /\ Who(Given("A")) \intersect Who(Given("B")) = {}

-----------------------------------------------------------------------------
Init ==
    /\ tasks = {}
    /\ blind = [s \in Slots |-> {}]
    /\ handed = [s \in Slots |-> {}]
    /\ files = [s \in Slots |-> [n \in Names |-> NoRows]]
    /\ shown = [c \in CaseSet |-> {}]
    /\ decisions = [n \in DecisionNames |-> NoRows]
    /\ candidates = None

\* translation-prepare, into a directory that is new or empty.  One record
\* that may not be adapted refuses all of them.
Prepare ==
    /\ tasks = {}
    /\ \E records \in (SUBSET CaseSet) \ {{}} :
         /\ \A c \in records : MaySeed(c)
         /\ tasks' = records
         /\ blind' = [s \in Slots |-> records]
    /\ UNCHANGED <<handed, files, shown, decisions, candidates>>

\* translation-prepare, killed after tasks.jsonl: a.blind.jsonl is cut at a
\* row or whole, b.blind.jsonl is empty or missing.
PrepareKilled ==
    /\ tasks = {}
    /\ \E records \in (SUBSET CaseSet) \ {{}} :
         /\ \A c \in records : MaySeed(c)
         /\ tasks' = records
         /\ \E written \in SUBSET records :
              blind' = [s \in Slots |-> IF s = "A" THEN written ELSE {}]
    /\ UNCHANGED <<handed, files, shown, decisions, candidates>>

\* translation-packet, with what is completed in one of the files.
Packet(slot, from) ==
    /\ blind[slot] # {}
    /\ handed' = [handed EXCEPT ![slot] = @ \union NextPacket(blind[slot], DOMAIN files[slot][from])]
    /\ UNCHANGED <<tasks, blind, files, shown, decisions, candidates>>

\* A merge reads --existing, or the partial file, and writes --out: the file it
\* has read, a new one, or one whose rows it does not look at.
MayWrite(slot, from, to) ==
    Overwrites \/ from = to \/ DOMAIN files[slot][to] = {}

\* Mutant of Merge: the later answer replaces the earlier one.
MergeLatest(slot, from, to, rows) ==
    /\ DOMAIN rows \subseteq handed[slot]
    /\ MayWrite(slot, from, to)
    /\ files' = [files EXCEPT ![slot][to] = Over(files[slot][from], rows)]
    /\ UNCHANGED <<tasks, blind, handed, shown, decisions, candidates>>

\* translation-merge: answers of one translator to any cases handed out, in
\* any order and again.
Merge(slot, from, to, rows) ==
    /\ DOMAIN rows \subseteq handed[slot]
    /\ MayWrite(slot, from, to)
    /\ ~Conflict(files[slot][from], rows)
    /\ files' = [files EXCEPT ![slot][to] = Over(files[slot][from], rows)]
    /\ UNCHANGED <<tasks, blind, handed, shown, decisions, candidates>>

\* translation-adjudication-packet, of the cases without a decision: one of
\* the files says which have one, or no file does.
AdjudicationPacket(decided) ==
    /\ tasks # {}
    /\ Ready
    /\ LET packet == NextPacket(tasks, decided)
       IN  shown' = [c \in CaseSet |->
                       IF c \in packet THEN shown[c] \union {[s \in Slots |-> Given(s)[c]]} ELSE shown[c]]
    /\ UNCHANGED <<tasks, blind, handed, files, decisions, candidates>>

\* The slot whose row an accepting decision takes.
SlotOf(verdict) == IF verdict = "accept_a" THEN "A" ELSE "B"

\* What a decision about a pair has as its final translation: that of the row
\* accepted; None is the adjudicator's own, or none.
Chosen(verdict, pair) ==
    IF verdict \in {"accept_a", "accept_b"} THEN pair[SlotOf(verdict)].draft ELSE None

\* _validate_adjudication: what is accepted has a text.
Valid(row) == row.verdict \in Accepted => row.final # NoTransfer

\* Mutant of AdjudicationMerge: identities are counted in the packet only.
AdjudicationMergeOfAny(from, to, rows) ==
    /\ \A c \in DOMAIN rows : Valid(rows[c])
    /\ ~Conflict(decisions[from], rows)
    /\ Cardinality(Judges(rows)) = 1
    /\ decisions' = [decisions EXCEPT ![to] = Over(decisions[from], rows)]
    /\ UNCHANGED <<tasks, blind, handed, files, shown, candidates>>

\* translation-adjudication-merge.  Which decisions it adds to and where it
\* writes is as free as with the answers.
AdjudicationMerge(from, to, rows) ==
    /\ \A c \in DOMAIN rows : Valid(rows[c])
    /\ ~Conflict(decisions[from], rows)
    /\ Cardinality(Judges(rows) \union Judges(decisions[from])) = 1
    /\ decisions' = [decisions EXCEPT ![to] = Over(decisions[from], rows)]
    /\ UNCHANGED <<tasks, blind, handed, files, shown, candidates>>

\* The text a candidate is made from.
Text(decision, c) ==
    IF decision.verdict = "merge" THEN decision.final ELSE Given(SlotOf(decision.verdict))[c].draft

\* translation-finalize: of one case that does not finalize, none does.
Finalize(from) ==
    LET judged == decisions[from]
        accepted == {c \in tasks : judged[c].verdict \in Accepted}
    IN  /\ tasks # {}
        /\ DOMAIN judged = tasks
        /\ \A c \in tasks : MaySeedTask(c) /\ Valid(judged[c])
        /\ \A c \in accepted :
             judged[c].verdict # "merge" =>
                 /\ c \in DOMAIN Given(SlotOf(judged[c].verdict))
                 /\ Text(judged[c], c) # NoTransfer
        /\ candidates' = [of |-> [c \in accepted |-> [decision |-> judged[c], text |-> Text(judged[c], c)]],
                          translators |-> [s \in Slots |-> Who(Given(s))],
                          adjudicators |-> Judges(judged)]
        /\ UNCHANGED <<tasks, blind, handed, files, shown, decisions>>

\* The answers of one translator to cases handed out, and the decisions of one
\* adjudicator about pairs they were shown.
Answers(slot) ==
    UNION {[packet -> {[translator |-> t, draft |-> d] : d \in Drafts}]
              : t \in Translators, packet \in (SUBSET handed[slot]) \ {{}}}

Decided(j, c) ==
    {[adjudicator |-> j, verdict |-> v, final |-> Chosen(v, pair)] : v \in Verdicts, pair \in shown[c]}

Judgements ==
    UNION {{rows \in [packet -> UNION {Decided(j, c) : c \in packet}] : \A c \in packet : rows[c] \in Decided(j, c)}
              : j \in Adjudicators, packet \in (SUBSET CaseSet) \ {{}}}

Next ==
    \/ Prepare \/ PrepareKilled
    \/ \E slot \in Slots, from \in Names :
         \/ Packet(slot, from)
         \/ \E to \in Names, rows \in Answers(slot) : Merge(slot, from, to, rows)
    \/ \E decided \in {{}} \union {DOMAIN decisions[n] : n \in DecisionNames} : AdjudicationPacket(decided)
    \/ \E from, to \in DecisionNames, rows \in Judgements : AdjudicationMerge(from, to, rows)
    \/ \E from \in DecisionNames : Finalize(from)

Spec == Init /\ [][Next]_vars
-----------------------------------------------------------------------------
(***************************************************************************)
(* Independent: "independent translator A and translator B artifacts":     *)
(* nobody has translated in both of the files that a finalize has read.    *)
(* The check that says so runs when adjudication packets are made, and     *)
(* answers go on being merged after it; finalize does not check again.     *)
(***************************************************************************)
Independent ==
    candidates # None => candidates.translators["A"] \intersect candidates.translators["B"] = {}

(***************************************************************************)
(* CandidatesWereSeen: the text of a candidate is the one the adjudicator  *)
(* has settled on, though finalize takes an accepted text from the rows on *)
(* file and not from the decision, whatever was merged in between.         *)
(***************************************************************************)
CandidatesWereSeen ==
    candidates # None =>
        \A c \in DOMAIN candidates.of : candidates.of[c].text = candidates.of[c].decision.final

(***************************************************************************)
(* OneAdjudicator: the decisions behind a finalized batch are those of one *)
(* adjudicator, though they are merged packet by packet, from and to any   *)
(* files.                                                                  *)
(***************************************************************************)
OneAdjudicator ==
    candidates # None => Cardinality(candidates.adjudicators) = 1
=============================================================================
