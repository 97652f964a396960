------------------------- MODULE Translation_proofs -------------------------
(***************************************************************************)
(* Proofs about Translation, for any records, any number of translators    *)
(* and adjudicators, any drafts, any size of packets and any files.        *)
(***************************************************************************)
EXTENDS Translation, TLAPS

(***************************************************************************)
(* No merge writes over a file of completed rows that it has not read.     *)
(***************************************************************************)
InPlace == ~Overwrites

(***************************************************************************)
(* Each command only writes rows of cases the one before it has written.   *)
(***************************************************************************)
FileInv ==
    /\ blind = [s \in Slots |-> blind[s]]
    /\ handed = [s \in Slots |-> handed[s]]
    /\ files = [s \in Slots |-> [n \in Names |-> files[s][n]]]
    /\ \A s \in Slots : /\ blind[s] \subseteq tasks
                        /\ handed[s] \subseteq tasks
                        /\ \A n \in Names : DOMAIN files[s][n] \subseteq tasks

(***************************************************************************)
(* Every file of decisions is one adjudicator's, whichever files its       *)
(* merges have read and written.                                           *)
(***************************************************************************)
JudgeInv ==
    /\ decisions = [n \in DecisionNames |-> decisions[n]]
    /\ \A n \in DecisionNames :
         DOMAIN decisions[n] # {} => Cardinality(Judges(decisions[n])) = 1
    /\ OneAdjudicator

(***************************************************************************)
(* Adjudication begins with the check, and from then on the given files    *)
(* are complete: a merge may repeat a row of theirs and not change it.     *)
(* This is why neither merge nor finalize has to check again.              *)
(***************************************************************************)
ShownInv ==
    /\ \A c \in CaseSet : shown[c] # {} => c \in tasks /\ Ready
    /\ \A c \in CaseSet, s \in Slots : \A pair \in shown[c] : pair[s] = Given(s)[c]

(***************************************************************************)
(* A decision is about a pair that was shown and has its text.             *)
(***************************************************************************)
About(c, row) == \E pair \in shown[c] : row.final = Chosen(row.verdict, pair)

DecisionInv ==
    \A n \in DecisionNames : \A c \in DOMAIN decisions[n] : c \in CaseSet /\ About(c, decisions[n][c])

CheckedInv == ShownInv /\ DecisionInv /\ Independent /\ CandidatesWereSeen

-----------------------------------------------------------------------------
\* What a merged file holds of a case.
LEMMA OverIs ==
    ASSUME NEW old, NEW new
    PROVE  /\ DOMAIN Over(old, new) = DOMAIN old \union DOMAIN new
           /\ \A c \in DOMAIN new : Over(old, new)[c] = new[c]
           /\ \A c \in DOMAIN old : c \notin DOMAIN new => Over(old, new)[c] = old[c]
<1>1. PICK both : both = Over(old, new)
  OBVIOUS
<1>2. /\ DOMAIN both = DOMAIN old \union DOMAIN new
      /\ \A c \in DOMAIN old \union DOMAIN new : both[c] = IF c \in DOMAIN new THEN new[c] ELSE old[c]
  BY <1>1 DEF Over
<1>3. \A c \in DOMAIN new : both[c] = new[c]
  BY <1>2
<1>4. \A c \in DOMAIN old : c \notin DOMAIN new => both[c] = old[c]
  BY <1>2
<1> QED
  BY <1>1, <1>2, <1>3, <1>4

\* A merge without a conflict keeps the rows there are.
LEMMA OverKeeps ==
    ASSUME NEW old, NEW new, ~Conflict(old, new)
    PROVE  \A c \in DOMAIN old : Over(old, new)[c] = old[c]
<1> TAKE c \in DOMAIN old
<1>1. CASE c \in DOMAIN new
  <2>1. Over(old, new)[c] = new[c]
    BY <1>1 DEF Over
  <2> QED
    BY <1>1, <2>1 DEF Conflict
<1>2. CASE c \notin DOMAIN new
  BY <1>2, OverIs
<1> QED
  BY <1>1, <1>2

\* A packet has cases of the blind file only.
LEMMA NextPacketFrom ==
    ASSUME NEW cases, NEW completed
    PROVE  NextPacket(cases, completed) \subseteq cases
BY DEF NextPacket

\* The files of the slots, by name, before and after one of them is written.
Table(t) == t = [s \in Slots |-> [n \in Names |-> t[s][n]]]
Written(t, slot, to, rows) == [t EXCEPT ![slot][to] = rows]

LEMMA WrittenIs ==
    ASSUME NEW slot \in Slots, NEW to \in Names, NEW old, NEW rows, NEW new,
           Table(old), new = Written(old, slot, to, rows)
    PROVE  /\ Table(new)
           /\ new[slot][to] = rows
           /\ \A s \in Slots, n \in Names : s # slot \/ n # to => new[s][n] = old[s][n]
<1>1. PICK mine, own : mine = old[slot] /\ own = [mine EXCEPT ![to] = rows]
  OBVIOUS
<1>2. old = [s \in Slots |-> old[s]] /\ \A s \in Slots : old[s] = [n \in Names |-> old[s][n]]
  BY DEF Table
<1>3. mine = [n \in Names |-> mine[n]]
  BY <1>1, <1>2
<1>4. own = [n \in Names |-> own[n]] /\ own[to] = rows /\ \A n \in Names \ {to} : own[n] = mine[n]
  BY <1>1, <1>3
<1>5. new = [old EXCEPT ![slot] = own]
  BY <1>1 DEF Written
<1>6. /\ new = [s \in Slots |-> new[s]]
      /\ new[slot] = own
      /\ \A s \in Slots \ {slot} : new[s] = old[s]
  BY <1>2, <1>5
<1>7. ASSUME NEW s \in Slots PROVE new[s] = [n \in Names |-> new[s][n]]
  <2>1. CASE s = slot
    BY <1>4, <1>6, <2>1
  <2>2. CASE s # slot
    BY <1>2, <1>6, <2>2
  <2> QED
    BY <2>1, <2>2
<1>8. Table(new)
  BY <1>6, <1>7 DEF Table
<1>9. \A s \in Slots, n \in Names : s # slot \/ n # to => new[s][n] = old[s][n]
  BY <1>1, <1>4, <1>6
<1> QED
  BY <1>4, <1>6, <1>8, <1>9

\* A file that two merges could write holds what the last one wrote.
LEMMA MergeWrites ==
    ASSUME FileInv, NEW slot \in Slots, NEW from \in Names, NEW to \in Names, NEW rows,
           Merge(slot, from, to, rows)
    PROVE  /\ files' = [s \in Slots |-> [n \in Names |-> files'[s][n]]]
           /\ files'[slot][to] = Over(files[slot][from], rows)
           /\ \A s \in Slots, n \in Names : s # slot \/ n # to => files'[s][n] = files[s][n]
<1>1. PICK old, new, both : old = files /\ new = files' /\ both = Over(files[slot][from], rows)
  OBVIOUS
<1>2. Table(old)
  BY <1>1 DEF FileInv, Table
<1>3. new = Written(old, slot, to, both)
  BY <1>1 DEF Merge, Written
<1>4. /\ Table(new)
      /\ new[slot][to] = both
      /\ \A s \in Slots, n \in Names : s # slot \/ n # to => new[s][n] = old[s][n]
  BY <1>2, <1>3, WrittenIs
<1>5. new = [s \in Slots |-> [n \in Names |-> new[s][n]]]
  BY <1>4 DEF Table
<1> QED
  BY <1>1, <1>4, <1>5

-----------------------------------------------------------------------------
(***************************************************************************)
(* The files, whatever merges read and write.                              *)
(***************************************************************************)
\* There are no files to begin with.
LEMMA InitFiles == Init => FileInv /\ JudgeInv
<1> SUFFICES ASSUME Init PROVE FileInv /\ JudgeInv
  OBVIOUS
<1>1. DOMAIN NoRows = {}
  BY DEF NoRows
<1>2. FileInv
  BY <1>1 DEF Init, FileInv
<1>3. JudgeInv
  BY <1>1 DEF Init, JudgeInv, OneAdjudicator
<1> QED
  BY <1>2, <1>3

\* No task yet: nothing has been written.
LEMMA PrepareFiles ==
    ASSUME FileInv, tasks = {}, blind' = [s \in Slots |-> blind'[s]],
           \A s \in Slots : blind'[s] \subseteq tasks',
           UNCHANGED <<handed, files>>
    PROVE  FileInv'
BY DEF FileInv

\* A packet adds rows of the blind file to what was handed out.
LEMMA PacketFiles ==
    ASSUME FileInv, NEW slot \in Slots, NEW from, Packet(slot, from)
    PROVE  FileInv'
<1>1. NextPacket(blind[slot], DOMAIN files[slot][from]) \subseteq tasks
  BY NextPacketFrom DEF FileInv
<1>2. /\ handed' = [handed EXCEPT ![slot] = handed[slot] \union NextPacket(blind[slot], DOMAIN files[slot][from])]
      /\ UNCHANGED <<tasks, blind, files>>
  BY DEF Packet
<1> HIDE DEF Packet
<1>3. /\ handed' = [s \in Slots |-> handed'[s]]
      /\ \A s \in Slots : handed'[s] \subseteq tasks
  BY <1>1, <1>2 DEF FileInv
<1> QED
  BY <1>2, <1>3 DEF FileInv

\* A merge writes rows of cases that were handed out.
LEMMA MergeFiles ==
    ASSUME FileInv, NEW slot \in Slots, NEW from \in Names, NEW to \in Names, NEW rows,
           Merge(slot, from, to, rows)
    PROVE  FileInv'
<1>1. /\ DOMAIN rows \subseteq handed[slot]
      /\ files' = [files EXCEPT ![slot][to] = Over(files[slot][from], rows)]
      /\ UNCHANGED <<tasks, blind, handed>>
  BY DEF Merge
<1>2. /\ files' = [s \in Slots |-> [n \in Names |-> files'[s][n]]]
      /\ files'[slot][to] = Over(files[slot][from], rows)
      /\ \A s \in Slots, n \in Names : s # slot \/ n # to => files'[s][n] = files[s][n]
  BY MergeWrites
<1>3. DOMAIN files'[slot][to] \subseteq tasks
  <2>1. PICK old, both : old = files[slot][from] /\ both = Over(old, rows)
    OBVIOUS
  <2>2. DOMAIN both = DOMAIN old \union DOMAIN rows
    BY <2>1, OverIs
  <2> QED
    BY <1>1, <1>2, <2>1, <2>2 DEF FileInv
<1>4. \A s \in Slots, n \in Names : DOMAIN files'[s][n] \subseteq tasks
  BY <1>2, <1>3 DEF FileInv
<1> QED
  BY <1>1, <1>2, <1>4 DEF FileInv

\* Steps that leave decisions and candidates alone.
LEMMA JudgesStay ==
    ASSUME JudgeInv, UNCHANGED <<decisions, candidates>>
    PROVE  JudgeInv'
BY DEF JudgeInv, Judges, OneAdjudicator

\* The decisions that are read and those that are added are one adjudicator's.
LEMMA AdjudicationMergeJudges ==
    ASSUME JudgeInv, NEW from \in DecisionNames, NEW to \in DecisionNames, NEW rows,
           AdjudicationMerge(from, to, rows)
    PROVE  JudgeInv'
<1>1. /\ ~Conflict(decisions[from], rows)
      /\ Cardinality(Judges(rows) \union Judges(decisions[from])) = 1
      /\ decisions' = [decisions EXCEPT ![to] = Over(decisions[from], rows)]
      /\ UNCHANGED candidates
  BY DEF AdjudicationMerge
<1>2. /\ decisions' = [n \in DecisionNames |-> decisions'[n]]
      /\ decisions'[to] = Over(decisions[from], rows)
      /\ \A n \in DecisionNames \ {to} : decisions'[n] = decisions[n]
  BY <1>1 DEF JudgeInv
<1>3. Judges(decisions'[to]) = Judges(rows) \union Judges(decisions[from])
  <2>1. PICK both : both = Over(decisions[from], rows)
    OBVIOUS
  <2>2. /\ DOMAIN both = DOMAIN decisions[from] \union DOMAIN rows
        /\ \A c \in DOMAIN rows : both[c] = rows[c]
    BY <2>1 DEF Over
  <2>3. \A c \in DOMAIN decisions[from] : both[c] = decisions[from][c]
    BY <1>1, <2>1, OverKeeps
  <2>4. Judges(both) = Judges(rows) \union Judges(decisions[from])
    BY <2>2, <2>3 DEF Judges
  <2> QED
    BY <1>2, <2>1, <2>4
<1>4. ASSUME NEW n \in DecisionNames, DOMAIN decisions'[n] # {}
      PROVE  Cardinality(Judges(decisions'[n])) = 1
  BY <1>1, <1>2, <1>3, <1>4 DEF JudgeInv
<1>5. OneAdjudicator'
  BY <1>1 DEF JudgeInv, OneAdjudicator
<1> QED
  BY <1>2, <1>4, <1>5 DEF JudgeInv

\* Finalize needs a decision for every task, and there are tasks.
LEMMA FinalizeJudges ==
    ASSUME JudgeInv, NEW from \in DecisionNames, Finalize(from)
    PROVE  JudgeInv'
<1>1. /\ tasks # {} /\ DOMAIN decisions[from] = tasks
      /\ candidates'.adjudicators = Judges(decisions[from])
      /\ UNCHANGED decisions
  BY DEF Finalize
<1>2. OneAdjudicator'
  BY <1>1 DEF JudgeInv, OneAdjudicator
<1> QED
  BY <1>1, <1>2 DEF JudgeInv, Judges

\* Every command keeps what is said of the files.
LEMMA NextFiles == FileInv /\ JudgeInv /\ [Next]_vars => FileInv' /\ JudgeInv'
<1> SUFFICES ASSUME FileInv, JudgeInv, [Next]_vars PROVE FileInv' /\ JudgeInv'
  OBVIOUS
<1>1. CASE Prepare
  BY <1>1, PrepareFiles, JudgesStay DEF Prepare
<1>2. CASE PrepareKilled
  <2>1. PICK records \in (SUBSET CaseSet) \ {{}} :
           /\ tasks' = records
           /\ \E written \in SUBSET records :
                blind' = [s \in Slots |-> IF s = "A" THEN written ELSE {}]
    BY <1>2 DEF PrepareKilled
  <2> QED
    BY <1>2, <2>1, PrepareFiles, JudgesStay DEF PrepareKilled
<1>3. ASSUME NEW slot \in Slots, NEW from \in Names, Packet(slot, from) PROVE FileInv' /\ JudgeInv'
  <2>1. UNCHANGED <<decisions, candidates>>
    BY <1>3 DEF Packet
  <2> QED
    BY <1>3, <2>1, PacketFiles, JudgesStay
<1>4. ASSUME NEW slot \in Slots, NEW from \in Names, NEW to \in Names, NEW rows, Merge(slot, from, to, rows)
      PROVE  FileInv' /\ JudgeInv'
  <2>1. UNCHANGED <<decisions, candidates>>
    BY <1>4 DEF Merge
  <2> QED
    BY <1>4, <2>1, MergeFiles, JudgesStay
<1>5. ASSUME NEW decided, AdjudicationPacket(decided) PROVE FileInv' /\ JudgeInv'
  <2>1. UNCHANGED <<tasks, blind, handed, files, decisions, candidates>>
    BY <1>5 DEF AdjudicationPacket
  <2> QED
    BY <2>1, JudgesStay DEF FileInv
<1>6. ASSUME NEW from \in DecisionNames, NEW to \in DecisionNames, NEW rows, AdjudicationMerge(from, to, rows)
      PROVE  FileInv' /\ JudgeInv'
  <2>1. UNCHANGED <<tasks, blind, handed, files>>
    BY <1>6 DEF AdjudicationMerge
  <2> QED
    BY <1>6, <2>1, AdjudicationMergeJudges DEF FileInv
<1>7. ASSUME NEW from \in DecisionNames, Finalize(from) PROVE FileInv' /\ JudgeInv'
  <2>1. UNCHANGED <<tasks, blind, handed, files>>
    BY <1>7 DEF Finalize
  <2> QED
    BY <1>7, <2>1, FinalizeJudges DEF FileInv
<1>8. CASE UNCHANGED vars
  BY <1>8, JudgesStay DEF vars, FileInv
<1> QED
  BY <1>1, <1>2, <1>3, <1>4, <1>5, <1>6, <1>7, <1>8 DEF Next

(***************************************************************************)
(* DecisionsHaveOneAuthor: the decisions that a finalize has read are one  *)
(* adjudicator's, whichever files the merges before it have read and       *)
(* written: each of them counts the identities of all rows it writes.      *)
(***************************************************************************)
THEOREM DecisionsHaveOneAuthor == Spec => []OneAdjudicator
<1>1. JudgeInv => OneAdjudicator
  BY DEF JudgeInv
<1> QED
  BY InitFiles, NextFiles, <1>1, PTL DEF Spec

-----------------------------------------------------------------------------
(***************************************************************************)
(* What was checked and shown, where merges are made in place.             *)
(***************************************************************************)
\* What the check looks at depends on the given files alone.
LEMMA ReadyStays ==
    ASSUME tasks' = tasks,
           \A s \in Slots : /\ DOMAIN Given(s)' = DOMAIN Given(s)
                            /\ \A c \in DOMAIN Given(s) : Given(s)'[c] = Given(s)[c]
    PROVE  Ready' <=> Ready
<1>1. "A" \in Slots /\ "B" \in Slots
  BY DEF Slots
<1>2. ASSUME NEW s \in Slots PROVE Who(Given(s))' = Who(Given(s))
  BY DEF Who
<1> QED
  BY <1>1, <1>2 DEF Ready

\* A merge into a complete file of a batch that passed the check changes no row.
LEMMA GivenKept ==
    ASSUME InPlace, FileInv, NEW slot \in Slots, NEW from \in Names, NEW to \in Names, NEW rows,
           Merge(slot, from, to, rows), tasks # {}, Ready, NEW s \in Slots
    PROVE  /\ DOMAIN Given(s)' = DOMAIN Given(s)
           /\ \A c \in DOMAIN Given(s) : Given(s)'[c] = Given(s)[c]
<1>1. /\ DOMAIN rows \subseteq tasks /\ ~Conflict(files[slot][from], rows)
      /\ from = to \/ DOMAIN files[slot][to] = {}
      /\ files' = [files EXCEPT ![slot][to] = Over(files[slot][from], rows)]
  BY DEF Merge, MayWrite, InPlace, FileInv
<1>2. /\ files'[slot][to] = Over(files[slot][from], rows)
      /\ \A r \in Slots, n \in Names : r # slot \/ n # to => files'[r][n] = files[r][n]
  BY MergeWrites
<1>3. Complete \in Names /\ Given(s) = files[s][Complete] /\ Given(s)' = files'[s][Complete]
      /\ DOMAIN files[s][Complete] = tasks
  BY TranslationAssumption DEF Given, Ready, Slots
<1>4. CASE s # slot \/ to # Complete
  <2>1. files'[s][Complete] = files[s][Complete]
    BY <1>2, <1>3, <1>4
  <2> QED
    BY <1>3, <2>1
<1>5. CASE s = slot /\ to = Complete
  <2>1. from = Complete
    BY <1>1, <1>3, <1>5
  <2>2. PICK old : old = files[s][Complete]
    OBVIOUS
  <2>3. files'[s][Complete] = Over(old, rows) /\ ~Conflict(old, rows) /\ DOMAIN rows \subseteq DOMAIN old
    BY <1>1, <1>2, <1>3, <1>5, <2>1, <2>2
  <2>4. DOMAIN Over(old, rows) = DOMAIN old
    <3>1. DOMAIN Over(old, rows) = DOMAIN old \union DOMAIN rows
      BY OverIs
    <3> QED
      BY <2>3, <3>1
  <2>5. \A c \in DOMAIN old : Over(old, rows)[c] = old[c]
    BY <2>3, OverKeeps
  <2> QED
    BY <1>3, <2>2, <2>3, <2>4, <2>5
<1> QED
  BY <1>4, <1>5

\* Nothing has been shown to begin with.
LEMMA InitChecked == Init => CheckedInv
<1> SUFFICES ASSUME Init PROVE CheckedInv
  OBVIOUS
<1>1. DOMAIN NoRows = {}
  BY DEF NoRows
<1>2. ShownInv
  BY DEF Init, ShownInv
<1>3. DecisionInv
  BY <1>1 DEF Init, DecisionInv
<1> QED
  BY <1>2, <1>3 DEF Init, CheckedInv, Independent, CandidatesWereSeen

\* Steps that leave what is shown, decided and finalized alone, and keep the
\* given rows of a checked batch.
LEMMA CheckedStays ==
    ASSUME CheckedInv, UNCHANGED <<shown, decisions, candidates>>,
           (\E c \in CaseSet : shown[c] # {}) =>
               /\ tasks' = tasks
               /\ \A s \in Slots : /\ DOMAIN Given(s)' = DOMAIN Given(s)
                                   /\ \A c \in DOMAIN Given(s) : Given(s)'[c] = Given(s)[c]
    PROVE  CheckedInv'
<1>1. ASSUME NEW c \in CaseSet, shown[c] # {}
      PROVE  /\ c \in tasks' /\ Ready'
             /\ \A s \in Slots : \A pair \in shown[c] : pair[s] = Given(s)'[c]
  <2>1. c \in tasks /\ Ready
    BY <1>1 DEF CheckedInv, ShownInv
  <2>2. Ready'
    BY <1>1, <2>1, ReadyStays
  <2>3. ASSUME NEW s \in Slots, NEW pair \in shown[c] PROVE pair[s] = Given(s)'[c]
    <3>1. c \in DOMAIN Given(s)
      BY <2>1 DEF Ready, Slots
    <3> QED
      BY <1>1, <3>1 DEF CheckedInv, ShownInv
  <2> QED
    BY <1>1, <2>1, <2>2, <2>3
<1>2. ShownInv'
  BY <1>1 DEF ShownInv
<1>3. DecisionInv'
  BY DEF CheckedInv, DecisionInv, About
<1>4. Independent' /\ CandidatesWereSeen'
  BY DEF CheckedInv, Independent, CandidatesWereSeen
<1> QED
  BY <1>2, <1>3, <1>4 DEF CheckedInv

\* What an adjudicator is shown are the given rows, which passed the check.
LEMMA AdjudicationPacketChecked ==
    ASSUME FileInv, CheckedInv, NEW decided, AdjudicationPacket(decided)
    PROVE  CheckedInv'
<1> DEFINE packet == NextPacket(tasks, decided)
           pair(c) == [s \in Slots |-> Given(s)[c]]
<1>1. packet \subseteq tasks
  BY NextPacketFrom
<1>2. /\ Ready
      /\ shown' = [c \in CaseSet |-> IF c \in packet THEN shown[c] \union {pair(c)} ELSE shown[c]]
      /\ UNCHANGED <<tasks, blind, handed, files, decisions, candidates>>
  BY DEF AdjudicationPacket
<1>3. Ready' /\ \A s \in Slots : Given(s)' = Given(s)
  <2>1. \A s \in Slots : Given(s)' = Given(s)
    BY <1>2 DEF Given
  <2> QED
    BY <1>2, <2>1, ReadyStays
<1>4. \A c : \A s \in Slots : pair(c)[s] = Given(s)[c]
  OBVIOUS
<1> HIDE DEF packet, pair
<1>5. ASSUME NEW c \in CaseSet
      PROVE  /\ \A p \in shown'[c] : p \in shown[c] \/ (c \in packet /\ p = pair(c))
             /\ shown[c] \subseteq shown'[c]
  BY <1>2
<1>6. ASSUME NEW c \in CaseSet, NEW p \in shown'[c]
      PROVE  c \in tasks /\ \A s \in Slots : p[s] = Given(s)[c]
  <2>1. CASE p \in shown[c]
    BY <2>1 DEF CheckedInv, ShownInv
  <2>2. CASE c \in packet /\ p = pair(c)
    BY <1>1, <1>4, <2>2
  <2> QED
    BY <1>5, <1>6, <2>1, <2>2
<1>7. ShownInv'
  <2>1. \A c \in CaseSet : shown'[c] # {} => c \in tasks' /\ Ready'
    BY <1>2, <1>3, <1>6
  <2>2. \A c \in CaseSet, s \in Slots : \A p \in shown'[c] : p[s] = Given(s)'[c]
    BY <1>3, <1>6
  <2> QED
    BY <2>1, <2>2 DEF ShownInv
<1>8. DecisionInv'
  BY <1>2, <1>5 DEF CheckedInv, DecisionInv, About
<1>9. Independent' /\ CandidatesWereSeen'
  BY <1>2 DEF CheckedInv, Independent, CandidatesWereSeen
<1> QED
  BY <1>7, <1>8, <1>9 DEF CheckedInv

\* A result is about pairs that were shown.
LEMMA JudgementsAre ==
    ASSUME NEW rows \in Judgements
    PROVE  \A c \in DOMAIN rows : c \in CaseSet /\ About(c, rows[c])
<1>1. PICK j \in Adjudicators, packet \in (SUBSET CaseSet) \ {{}} :
        /\ rows \in [packet -> UNION {Decided(j, c) : c \in packet}]
        /\ \A c \in packet : rows[c] \in Decided(j, c)
  BY DEF Judgements
<1>2. SUFFICES ASSUME NEW c \in packet PROVE About(c, rows[c])
  BY <1>1
<1>3. PICK v \in Verdicts, pair \in shown[c] :
        rows[c] = [adjudicator |-> j, verdict |-> v, final |-> Chosen(v, pair)]
  BY <1>1, <1>2 DEF Decided
<1>4. rows[c].final = Chosen(rows[c].verdict, pair)
  BY <1>3
<1> QED
  BY <1>4 DEF About

\* What is merged was decided about a shown pair, like what was there.
LEMMA AdjudicationMergeChecked ==
    ASSUME CheckedInv, JudgeInv, NEW from \in DecisionNames, NEW to \in DecisionNames,
           NEW rows \in Judgements, AdjudicationMerge(from, to, rows)
    PROVE  CheckedInv'
<1>1. /\ decisions' = [decisions EXCEPT ![to] = Over(decisions[from], rows)]
      /\ UNCHANGED <<tasks, blind, handed, files, shown, candidates>>
  BY DEF AdjudicationMerge
<1>2. /\ decisions'[to] = Over(decisions[from], rows)
      /\ \A n \in DecisionNames \ {to} : decisions'[n] = decisions[n]
  BY <1>1 DEF JudgeInv
<1>3. ASSUME NEW c \in DOMAIN decisions'[to] PROVE c \in CaseSet /\ About(c, decisions'[to][c])
  <2>1. PICK old, both : old = decisions[from] /\ both = Over(old, rows)
    OBVIOUS
  <2>2. /\ DOMAIN both = DOMAIN old \union DOMAIN rows
        /\ \A d \in DOMAIN rows : both[d] = rows[d]
        /\ \A d \in DOMAIN old \ DOMAIN rows : both[d] = old[d]
    BY <2>1 DEF Over
  <2>3. decisions'[to] = both
    BY <1>2, <2>1
  <2>4. CASE c \in DOMAIN rows
    <3>1. both[c] = rows[c]
      BY <2>2, <2>4
    <3>2. c \in CaseSet /\ About(c, rows[c])
      BY <2>4, JudgementsAre
    <3> QED
      BY <2>3, <3>1, <3>2
  <2>5. CASE c \notin DOMAIN rows
    <3>1. c \in DOMAIN old /\ both[c] = old[c]
      BY <1>3, <2>2, <2>3, <2>5
    <3>2. c \in CaseSet /\ About(c, old[c])
      BY <2>1, <3>1 DEF CheckedInv, DecisionInv
    <3> QED
      BY <2>3, <3>1, <3>2
  <2> QED
    BY <2>4, <2>5
<1>4. DecisionInv'
  BY <1>1, <1>2, <1>3 DEF CheckedInv, DecisionInv, About
<1>5. ShownInv'
  <2>1. \A s \in Slots : Given(s)' = Given(s)
    BY <1>1 DEF Given
  <2>2. Ready' <=> Ready
    BY <1>1, <2>1, ReadyStays
  <2> QED
    BY <1>1, <2>1, <2>2 DEF CheckedInv, ShownInv
<1>6. Independent' /\ CandidatesWereSeen'
  BY <1>1 DEF CheckedInv, Independent, CandidatesWereSeen
<1> QED
  BY <1>4, <1>5, <1>6 DEF CheckedInv

\* Where there is a decision the check has passed, and the rows on file are
\* those the decision was about.
LEMMA FinalizeChecked ==
    ASSUME CheckedInv, NEW from \in DecisionNames, Finalize(from)
    PROVE  CheckedInv'
<1> DEFINE judged == decisions[from]
           accepted == {c \in tasks : judged[c].verdict \in Accepted}
<1>1. /\ tasks # {} /\ DOMAIN judged = tasks
      /\ candidates' = [of |-> [c \in accepted |-> [decision |-> judged[c], text |-> Text(judged[c], c)]],
                        translators |-> [s \in Slots |-> Who(Given(s))],
                        adjudicators |-> Judges(judged)]
      /\ UNCHANGED <<tasks, blind, handed, files, shown, decisions>>
  BY DEF Finalize
<1>2. ASSUME NEW c \in tasks
      PROVE  \E pair \in shown[c] : /\ c \in CaseSet /\ judged[c].final = Chosen(judged[c].verdict, pair)
                                    /\ Ready /\ \A s \in Slots : pair[s] = Given(s)[c]
  <2>1. c \in CaseSet /\ About(c, judged[c])
    BY <1>1 DEF CheckedInv, DecisionInv
  <2>2. PICK pair \in shown[c] : judged[c].final = Chosen(judged[c].verdict, pair)
    BY <2>1 DEF About
  <2> QED
    BY <2>1, <2>2 DEF CheckedInv, ShownInv
<1>3. Independent'
  <2>1. Who(Given("A")) \intersect Who(Given("B")) = {}
    BY <1>1, <1>2 DEF Ready
  <2>2. /\ candidates'.translators["A"] = Who(Given("A"))
        /\ candidates'.translators["B"] = Who(Given("B"))
    BY <1>1 DEF Slots
  <2> QED
    BY <2>1, <2>2 DEF Independent
<1>4. ASSUME NEW c \in accepted PROVE Text(judged[c], c) = judged[c].final
  <2>1. PICK pair \in shown[c] : /\ judged[c].final = Chosen(judged[c].verdict, pair)
                                 /\ \A s \in Slots : pair[s] = Given(s)[c]
    BY <1>2
  <2>2. CASE judged[c].verdict = "merge"
    BY <2>2 DEF Text
  <2>3. CASE judged[c].verdict \in {"accept_a", "accept_b"}
    <3>1. SlotOf(judged[c].verdict) \in Slots
      BY DEF SlotOf, Slots
    <3> QED
      BY <2>1, <2>3, <3>1 DEF Text, Chosen
  <2> QED
    BY <2>2, <2>3 DEF Accepted
<1>5. CandidatesWereSeen'
  <2>1. /\ DOMAIN candidates'.of = accepted
        /\ \A c \in accepted : /\ candidates'.of[c].decision = judged[c]
                               /\ candidates'.of[c].text = Text(judged[c], c)
    BY <1>1
  <2> HIDE DEF accepted, judged
  <2> QED
    BY <1>4, <2>1 DEF CandidatesWereSeen
<1>6. ShownInv' /\ DecisionInv'
  <2>1. \A s \in Slots : Given(s)' = Given(s)
    BY <1>1 DEF Given
  <2>2. Ready' <=> Ready
    BY <1>1, <2>1, ReadyStays
  <2> QED
    BY <1>1, <2>1, <2>2 DEF CheckedInv, ShownInv, DecisionInv, About
<1> QED
  BY <1>3, <1>5, <1>6 DEF CheckedInv

\* Every command keeps it.
LEMMA NextChecked ==
    ASSUME InPlace
    PROVE  FileInv /\ JudgeInv /\ CheckedInv /\ [Next]_vars => CheckedInv'
<1> SUFFICES ASSUME FileInv, JudgeInv, CheckedInv, [Next]_vars PROVE CheckedInv'
  OBVIOUS
<1>1. CASE Prepare \/ PrepareKilled
  <2>1. tasks = {} /\ UNCHANGED <<files, shown, decisions, candidates>>
    BY <1>1 DEF Prepare, PrepareKilled
  <2>2. \A c \in CaseSet : shown[c] = {}
    BY <2>1 DEF CheckedInv, ShownInv
  <2> QED
    BY <2>1, <2>2, CheckedStays
<1>2. ASSUME NEW slot \in Slots, NEW from \in Names, Packet(slot, from) PROVE CheckedInv'
  <2>1. UNCHANGED <<tasks, files, shown, decisions, candidates>>
    BY <1>2 DEF Packet
  <2>2. \A s \in Slots : Given(s)' = Given(s)
    BY <2>1 DEF Given
  <2> QED
    BY <2>1, <2>2, CheckedStays
<1>3. ASSUME NEW slot \in Slots, NEW from \in Names, NEW to \in Names, NEW rows, Merge(slot, from, to, rows)
      PROVE  CheckedInv'
  <2>1. UNCHANGED <<tasks, shown, decisions, candidates>>
    BY <1>3 DEF Merge
  <2>2. ASSUME \E c \in CaseSet : shown[c] # {} PROVE tasks # {} /\ Ready
    BY <2>2 DEF CheckedInv, ShownInv
  <2>3. ASSUME \E c \in CaseSet : shown[c] # {}, NEW s \in Slots
        PROVE  /\ DOMAIN Given(s)' = DOMAIN Given(s)
               /\ \A c \in DOMAIN Given(s) : Given(s)'[c] = Given(s)[c]
    BY <1>3, <2>2, <2>3, GivenKept
  <2> QED
    BY <2>1, <2>3, CheckedStays
<1>4. ASSUME NEW decided, AdjudicationPacket(decided) PROVE CheckedInv'
  BY <1>4, AdjudicationPacketChecked
<1>5. ASSUME NEW from \in DecisionNames, NEW to \in DecisionNames, NEW rows \in Judgements,
             AdjudicationMerge(from, to, rows)
      PROVE  CheckedInv'
  BY <1>5, AdjudicationMergeChecked
<1>6. ASSUME NEW from \in DecisionNames, Finalize(from) PROVE CheckedInv'
  BY <1>6, FinalizeChecked
<1>7. CASE UNCHANGED vars
  <2>1. UNCHANGED <<tasks, files, shown, decisions, candidates>>
    BY <1>7 DEF vars
  <2>2. \A s \in Slots : Given(s)' = Given(s)
    BY <2>1 DEF Given
  <2> QED
    BY <2>1, <2>2, CheckedStays
<1> QED
  BY <1>1, <1>2, <1>3, <1>4, <1>5, <1>6, <1>7 DEF Next

(***************************************************************************)
(* TranslatorsAreIndependent: where no merge writes over a file it has not *)
(* read, nobody has translated in both of the files that a finalize reads, *)
(* although only the command that makes adjudication packets looks: a      *)
(* checked file is complete, and a merge into it finds a conflict or       *)
(* nothing new.                                                            *)
(***************************************************************************)
THEOREM TranslatorsAreIndependent == InPlace => (Spec => []Independent)
<1> SUFFICES ASSUME InPlace PROVE Spec => []Independent
  OBVIOUS
<1>1. CheckedInv => Independent
  BY DEF CheckedInv
<1> QED
  BY InitFiles, NextFiles, InitChecked, NextChecked, <1>1, PTL DEF Spec

(***************************************************************************)
(* CandidatesAreWhatWasShown: in the same way, the text of a candidate is  *)
(* the one its adjudicator was shown and settled on, whichever files of    *)
(* decisions were read and written.                                        *)
(***************************************************************************)
THEOREM CandidatesAreWhatWasShown == InPlace => (Spec => []CandidatesWereSeen)
<1> SUFFICES ASSUME InPlace PROVE Spec => []CandidatesWereSeen
  OBVIOUS
<1>1. CheckedInv => CandidatesWereSeen
  BY DEF CheckedInv
<1> QED
  BY InitFiles, NextFiles, InitChecked, NextChecked, <1>1, PTL DEF Spec
=============================================================================
