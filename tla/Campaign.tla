------------------------------ MODULE Campaign ------------------------------
(***************************************************************************)
(* A review campaign: a snapshot of candidate cases is split into batches, *)
(* each batch is reviewed twice and adjudicated in bounded packets, and    *)
(* finalized when it is ready (spokenform_gold/campaign.py, packets.py,    *)
(* and the gates of workflow.py).  Reviewers and adjudicators work at the  *)
(* same time, each on the packet it drew; one maintainer creates, fills    *)
(* and finalizes, and its command can be killed between two of its writes. *)
(*                                                                         *)
(* Cases are numbered in the order of their ids.  Each is a sentence of    *)
(* its own, so that the corpus is a function of cases.  The commands of    *)
(* BatchCycle are taken here without the retries of a case.                *)
(***************************************************************************)
EXTENDS Integers, FiniteSetsExt

CONSTANTS LastCase,    \* number of case ids
          Language,    \* the language of a case, in the order of names
          Size,        \* the bytes of a case's packet row
          Snapshots,   \* the candidate files campaign-fill is run with
          BatchSize,   \* batch_size
          ReviewMax,   \* review_packet_max_cases
          DecisionMax, \* adjudication_packet_max_cases
          MaxBytes,    \* review_ and adjudication_packet_max_bytes
          Routing,     \* language_routing
          Workers,     \* the agents that ask for packets
          Role,        \* the role of each: a slot, or adjudicator
          Identity,    \* the reviewer_id or adjudicator_id each writes
          Defaulting,  \* workers that may leave out --batch-id
          Texts,       \* what a review can say
          Verdicts,    \* what an adjudicator can decide
          None,
          Torn,           \* a JSON file cut short by a kill; reading it raises
          MaxCrashes,     \* bound: killed commands of the maintainer
          MaxCorrections  \* bound: apply-correction

Cases == 1 .. LastCase
Slots == {"A", "B"}
Broken == "broken"  \* an accept whose final_record does not validate

ASSUME CasesAssumption == LastCase \in Nat
ASSUME RowAssumption ==
    Language \in [Cases -> Nat] /\ Size \in [Cases -> Nat \ {0}]
ASSUME LimitAssumption ==
    /\ BatchSize \in Nat \ {0} /\ MaxBytes \in Nat \ {0}
    /\ ReviewMax \in Nat \ {0} /\ DecisionMax \in Nat \ {0}
    /\ Routing \in BOOLEAN
    /\ MaxCrashes \in Nat /\ MaxCorrections \in Nat
ASSUME SnapshotAssumption == Snapshots \subseteq SUBSET Cases
ASSUME WorkerAssumption ==
    /\ Role \in [Workers -> Slots \union {"adjudicator"}]
    /\ DOMAIN Identity = Workers
    /\ Defaulting \subseteq Workers
ASSUME AnswerAssumption ==
    Verdicts \subseteq {"accept", "exclude", "unresolved", Broken}
ASSUME NoneAssumption ==
    /\ None \notin Snapshots
    /\ None \notin [by : {Identity[w] : w \in Workers}, text : Texts \union Verdicts]
    /\ None \notin {"awaiting_review", "finalized", "decided", "corrected"}

VARIABLES campaign,   \* campaign.json
          dir,        \* each batch directory: how far it is written, its cases
          complete,   \* reviews/<slot>/complete.jsonl, of all batches
          checked,    \* batches whose saved reviews/check.json says ready
          decisions,  \* each batch: adjudication/decisions.jsonl
          packet,     \* each worker: the result rows for the packet it drew
          job,        \* the maintainer's command and its step
          gold,       \* the corpus: each case's record
          pool,       \* the cases in the retry pool
          state,      \* each batch: the state in batch.json
          summary,    \* each batch: integration/summary.json
          crashes, corrections

reviews == <<complete, checked, decisions, packet>>
stores == <<gold, pool, state, summary>>
bounds == <<crashes, corrections>>
vars == <<campaign, dir, reviews, job, stores, bounds>>

-----------------------------------------------------------------------------
BatchIds == 1 .. LastCase
Readable == campaign \notin {None, Torn}
Listed == IF Readable THEN campaign.batches ELSE {}

\* The batch campaign-fill puts a case in: slices of the sorted candidates.
BatchOf(snapshot, c) ==
    (Cardinality({d \in snapshot : d < c}) \div BatchSize) + 1

Slice(snapshot, b) == {c \in snapshot : BatchOf(snapshot, c) = b}
BatchCount(snapshot) ==
    (Cardinality(snapshot) + BatchSize - 1) \div BatchSize

First(batches) == CHOOSE b \in batches : \A other \in batches : b <= other

Bytes(rows) == FoldSet(LAMBDA c, sum : Size[c] + sum, 0, rows)

\* Whether the loop of select_packet_rows ends at a row, all those before it
\* being taken.
Stops(taken, c, limit) ==
    \/ Cardinality(taken) >= limit
    \/ Size[c] > MaxBytes
    \/ taken # {} /\ Bytes(taken) + Size[c] > MaxBytes

\* A row beyond the budget on its own raises if the loop gets to it: there is
\* no packet then.
Select(rows, limit) ==
    LET stops == {c \in rows : Stops({d \in rows : d < c}, c, limit)}
        taken == {c \in rows : \A d \in stops : c < d}
    IN  IF /\ Cardinality(taken) < limit
           /\ \E c \in stops : Size[c] > MaxBytes /\ \A d \in stops : c <= d
          THEN {}
          ELSE taken

Reviewed(slot, b) == {c \in dir[b].cases : complete[slot][c] # None}
ReviewersOf(slot, b) == {complete[slot][c].by : c \in Reviewed(slot, b)}

\* Mutant of Ready: the identities are not compared.
ReadyAnyone(b) == \A slot \in Slots : Reviewed(slot, b) = dir[b].cases

\* check_reviews; a slot has one identity, or its rows were not merged.
Ready(b) ==
    /\ \A slot \in Slots : Reviewed(slot, b) = dir[b].cases
    /\ ReviewersOf("A", b) # ReviewersOf("B", b)

Decided(b) == {c \in Cases : decisions[b][c] # None}
Having(b, verdict) == {c \in Decided(b) : decisions[b][c].text = verdict}

\* What is left to do in a batch for a worker of a role.
Remaining(role, b) ==
    IF role \in Slots THEN dir[b].cases \ Reviewed(role, b)
    ELSE IF b \in checked \/ Ready(b) THEN dir[b].cases \ Decided(b)
    ELSE {}

\* The rows of the language that comes first, if packets are routed.
Routed(rows) ==
    {c \in rows : Routing => \A d \in rows : Language[c] <= Language[d]}

\* Mutant of Offered: the language is the first one of the batch.
OfferedAnyway(role, b) ==
    IF Remaining(role, b) = {} THEN {}
    ELSE IF role \in Slots THEN Routed(Remaining(role, b))
    ELSE Routed(dir[b].cases)

\* The rows a packet is taken from.  Reviews have a language, decisions have
\* none: of the rows of a language all count as undecided.
Offered(role, b) ==
    IF Routing /\ role \notin Slots
      THEN {c \in dir[b].cases : \E d \in Routed(Remaining(role, b)) : Language[c] = Language[d]}
      ELSE Routed(Remaining(role, b))

Idle == [step |-> "idle", batch |-> 0, snapshot |-> None]
Goto(step) == job' = [job EXCEPT !.step = step]
GotoBatch(step, b) == job' = [job EXCEPT !.step = step, !.batch = b]

Init ==
    /\ campaign = None
    /\ dir = [b \in BatchIds |-> [stage |-> "absent", cases |-> {}]]
    /\ complete = [slot \in Slots |-> [c \in Cases |-> None]]
    /\ checked = {}
    /\ decisions = [b \in BatchIds |-> [c \in Cases |-> None]]
    /\ packet = [w \in Workers |-> None]
    /\ job = Idle
    /\ gold = [c \in Cases |-> None]
    /\ pool = {}
    /\ state = [b \in BatchIds |-> None]
    /\ summary = [b \in BatchIds |-> None]
    /\ crashes = 0
    /\ corrections = 0

-----------------------------------------------------------------------------
(* campaign-create and campaign-fill *)

Create ==
    /\ job = Idle
    /\ campaign = None
    /\ Goto("list")
    /\ UNCHANGED <<campaign, dir, reviews, stores, bounds>>

\* A filled campaign is left alone: the same snapshot reports its status, and
\* another one is refused by its digest.
Fill(snapshot) ==
    /\ job = Idle
    /\ Readable
    /\ campaign.snapshot \in {None, snapshot}
    /\ campaign.batches = {}
    /\ job' = [step |-> "make", batch |-> 1, snapshot |-> snapshot]
    /\ UNCHANGED <<campaign, dir, reviews, stores, bounds>>

\* Mutant of MakeBatch: a directory that is there counts as made.
MakeBatchOrSkip ==
    /\ job.step = "make"
    /\ IF job.batch > BatchCount(job.snapshot) THEN Goto("list") /\ UNCHANGED dir
       ELSE IF dir[job.batch].stage # "absent"
              THEN GotoBatch("make", job.batch + 1) /\ UNCHANGED dir
              ELSE /\ dir' = [dir EXCEPT ![job.batch].stage = "partial"]
                   /\ Goto("write")
    /\ UNCHANGED <<campaign, reviews, stores, bounds>>

\* The next batch directory; one that exists already ends the command.
MakeBatch ==
    /\ job.step = "make"
    /\ IF job.batch > BatchCount(job.snapshot) THEN Goto("list") /\ UNCHANGED dir
       ELSE IF dir[job.batch].stage # "absent" THEN job' = Idle /\ UNCHANGED dir
       ELSE /\ dir' = [dir EXCEPT ![job.batch].stage = "partial"]
            /\ Goto("write")
    /\ UNCHANGED <<campaign, reviews, stores, bounds>>

\* Its cases, context and blind files, and last its batch.json.
WriteBatch ==
    /\ job.step = "write"
    /\ dir' = [dir EXCEPT ![job.batch] =
                 [stage |-> "written", cases |-> Slice(job.snapshot, job.batch)]]
    /\ state' = [state EXCEPT ![job.batch] = "awaiting_review"]
    /\ GotoBatch("make", job.batch + 1)
    /\ UNCHANGED <<campaign, reviews, gold, pool, summary, bounds>>

\* campaign.json: new from create, with its batches from fill.
ListBatches ==
    /\ job.step = "list"
    /\ campaign' =
         [snapshot |-> job.snapshot,
          batches |-> IF job.snapshot = None THEN {}
                      ELSE 1 .. BatchCount(job.snapshot)]
    /\ job' = Idle
    /\ UNCHANGED <<dir, reviews, stores, bounds>>

-----------------------------------------------------------------------------
(* campaign-next and campaign-merge *)

\* The batches in which there is something to do for the role.
Open(role) == {b \in Listed : Remaining(role, b) # {}}

Limit(role) == IF role \in Slots THEN ReviewMax ELSE DecisionMax
Answers(role) == IF role \in Slots THEN Texts ELSE Verdicts

\* A worker asks for a packet of the first batch that is open, and answers
\* all of its rows; an earlier packet is forgotten.
Draw(w) ==
    /\ \E b \in {First(open) : open \in {Open(Role[w])} \ {{}}} :
       \E offered \in {Offered(Role[w], b)} :
       \E rows \in {Select(offered, Limit(Role[w]))} \ {{}} :
       \E text \in [rows -> Answers(Role[w])] :
          packet' = [packet EXCEPT ![w] =
                       [batch |-> b,
                        rows |-> [c \in rows |->
                                    [by |-> Identity[w], text |-> text[c]]]]]
    /\ UNCHANGED <<campaign, dir, complete, checked, decisions, job, stores,
                   bounds>>

\* Mutant of Agrees: the result replaces what was merged before.
AgreesAlways(merged, rows) == TRUE

\* No row differs from one merged before.
Agrees(merged, rows) ==
    \A c \in DOMAIN rows : merged[c] \in {None, rows[c]}

\* The rows that are there after the merge have one author.
OneAuthor(merged, rows, cases) ==
    Cardinality({merged[c].by : c \in {d \in cases : merged[d] # None}}
                  \union {rows[c].by : c \in DOMAIN rows}) <= 1

\* Mutant of Merged: the file is rewritten with the result alone.
MergedAlone(merged, rows) == rows

Merged(merged, rows) ==
    [c \in Cases |-> IF c \in DOMAIN rows THEN rows[c] ELSE merged[c]]

\* merge_review_rows: the rows are the batch's, they agree with those merged
\* before, and have the same reviewer.
MergeReview(w, b) ==
    LET slot == Role[w]
        rows == packet[w].rows
    IN  /\ slot \in Slots
        /\ DOMAIN rows \subseteq dir[b].cases
        /\ Agrees(complete[slot], rows)
        /\ OneAuthor(complete[slot], rows, dir[b].cases)
        /\ complete' = [complete EXCEPT ![slot] = Merged(@, rows)]
        /\ UNCHANGED <<checked, decisions>>

\* merge_adjudication_rows behind its gate; whether the rows are the batch's
\* is not looked at.
MergeDecisions(w, b) ==
    LET rows == packet[w].rows
    IN  /\ Role[w] = "adjudicator"
        /\ Ready(b)
        /\ Agrees(decisions[b], rows)
        /\ OneAuthor(decisions[b], rows, Cases)
        /\ decisions' = [decisions EXCEPT ![b] = Merged(@, rows)]
        /\ UNCHANGED <<complete, checked>>

\* The result stays: it may be merged again, by mistake or after a kill.  A
\* refused result changes nothing.
MergeInto(w, b) ==
    /\ packet[w] # None
    /\ b \in Listed
    /\ MergeReview(w, b) \/ MergeDecisions(w, b)
    /\ UNCHANGED <<campaign, dir, packet, job, stores, bounds>>

MergeOwn(w) == packet[w] # None /\ MergeInto(w, packet[w].batch)

\* Without --batch-id the result goes to the first batch.
MergeFirst(w) ==
    /\ w \in Defaulting
    /\ Listed # {}
    /\ MergeInto(w, First(Listed))

\* review-check --json
SaveCheck(b) ==
    /\ b \in Listed
    /\ checked' = IF Ready(b) THEN checked \union {b} ELSE checked \ {b}
    /\ UNCHANGED <<campaign, dir, complete, decisions, packet, job, stores,
                   bounds>>

\* adjudication-repair-packet and adjudication-repair-merge: the decisions of
\* the packet are replaced, by anyone, with valid ones.
Repair(b) ==
    LET rows == Select(Having(b, Broken), DecisionMax)
    IN  /\ b \in Listed
        /\ Decided(b) = dir[b].cases
        /\ rows # {}
        /\ \E text \in [rows -> Verdicts \ {Broken}],
              w \in {v \in Workers : Role[v] = "adjudicator"} :
              decisions' = [decisions EXCEPT ![b] =
                 [c \in Cases |-> IF c \in rows
                                    THEN [by |-> Identity[w], text |-> text[c]]
                                    ELSE @[c]]]
        /\ UNCHANGED <<campaign, dir, complete, checked, packet, job, stores,
                       bounds>>

-----------------------------------------------------------------------------
(* campaign-finalize --write *)

\* Mutant of ReadyToFinalize: an adjudication in part is enough.
ReadyPartly(b) == Ready(b) /\ Decided(b) # {} /\ Having(b, Broken) = {}

\* batch_preflight
ReadyToFinalize(b) ==
    Ready(b) /\ Decided(b) = dir[b].cases /\ Having(b, Broken) = {}

\* The corpus with the batch's accepted records in it: a record on file for
\* the sentence gives its id and family, and the decision the rest.
Combined(b) ==
    [c \in Cases |-> IF c \in Having(b, "accept") THEN "decided" ELSE gold[c]]

Integrated(b) == summary[b] # None /\ summary[b].corpus = Combined(b)

StartFinalize ==
    /\ job = Idle
    /\ Listed # {}
    /\ GotoBatch("preflight", 1)
    /\ UNCHANGED <<campaign, dir, reviews, stores, bounds>>

\* Mutant of Preflight: a batch that has a summary counts as finalized.
PreflightUnlessSummary ==
    /\ job.step = "preflight"
    /\ IF job.batch \notin Listed THEN job' = Idle
       ELSE IF ~ReadyToFinalize(job.batch) \/ summary[job.batch] # None
              THEN GotoBatch("preflight", job.batch + 1)
              ELSE Goto(IF Integrated(job.batch) THEN "pool" ELSE "corpus")
    /\ UNCHANGED <<campaign, dir, reviews, stores, bounds>>

\* A batch that is not ready is passed over; one whose summary has the digest
\* of the combined corpus is not written again.
Preflight ==
    /\ job.step = "preflight"
    /\ IF job.batch \notin Listed THEN job' = Idle
       ELSE IF ~ReadyToFinalize(job.batch)
              THEN GotoBatch("preflight", job.batch + 1)
              ELSE Goto(IF Integrated(job.batch) THEN "pool" ELSE "corpus")
    /\ UNCHANGED <<campaign, dir, reviews, stores, bounds>>

WriteCorpus ==
    /\ job.step = "corpus"
    /\ gold' = Combined(job.batch)
    /\ Goto("summary")
    /\ UNCHANGED <<campaign, dir, reviews, pool, state, summary, bounds>>

WriteSummary ==
    /\ job.step = "summary"
    /\ summary' = [summary EXCEPT ![job.batch] =
                     [state |-> "integrated", corpus |-> Combined(job.batch)]]
    /\ Goto("pool")
    /\ UNCHANGED <<campaign, dir, reviews, gold, pool, state, bounds>>

WritePool ==
    /\ job.step = "pool"
    /\ pool' = pool \union (Decided(job.batch) \ Having(job.batch, "accept"))
    /\ Goto("metadata")
    /\ UNCHANGED <<campaign, dir, reviews, gold, state, summary, bounds>>

WriteMetadata ==
    /\ job.step = "metadata"
    /\ state' = [state EXCEPT ![job.batch] = "finalized"]
    /\ Goto("seal")
    /\ UNCHANGED <<campaign, dir, reviews, gold, pool, summary, bounds>>

WriteFinal ==
    /\ job.step = "seal"
    /\ summary' = [summary EXCEPT ![job.batch] =
                     [state |-> "finalized", corpus |-> Combined(job.batch)]]
    /\ GotoBatch("preflight", job.batch + 1)
    /\ UNCHANGED <<campaign, dir, reviews, gold, pool, state, bounds>>

\* The maintainer's command is killed between two writes, or in the middle of
\* campaign.json.  (A batch.json or summary.json cut short is in BatchCycle.)
Kill ==
    /\ crashes < MaxCrashes
    /\ job # Idle
    /\ job' = Idle
    /\ campaign' \in IF job.step = "list" THEN {campaign, Torn} ELSE {campaign}
    /\ crashes' = crashes + 1
    /\ UNCHANGED <<dir, reviews, stores, corrections>>

\* apply-correction --write between two commands of the maintainer.
Correct(c) ==
    /\ corrections < MaxCorrections
    /\ job = Idle
    /\ gold[c] # None
    /\ gold' = [gold EXCEPT ![c] = "corrected"]
    /\ corrections' = corrections + 1
    /\ UNCHANGED <<campaign, dir, reviews, job, pool, state, summary, crashes>>

FillStep == MakeBatch \/ WriteBatch \/ ListBatches
FinalizeStep ==
    \/ Preflight \/ WriteCorpus \/ WriteSummary \/ WritePool \/ WriteMetadata
    \/ WriteFinal

Next ==
    \/ Create
    \/ \E snapshot \in Snapshots : Fill(snapshot)
    \/ FillStep
    \/ \E w \in Workers : Draw(w) \/ MergeOwn(w) \/ MergeFirst(w)
    \/ \E b \in BatchIds : SaveCheck(b) \/ Repair(b)
    \/ StartFinalize
    \/ FinalizeStep
    \/ Kill
    \/ \E c \in Cases : Correct(c)

Spec == Init /\ [][Next]_vars

\* As long as there is something to draw, to merge or to repair, someone does
\* it, and campaign-finalize goes on and is run again and again.  No one has to
\* create or fill a campaign.
Fairness ==
    /\ WF_vars(\E w \in Workers : Draw(w))
    /\ WF_vars(\E w \in Workers : MergeOwn(w))
    /\ WF_vars(\E b \in BatchIds : Repair(b))
    /\ WF_vars(StartFinalize \/ FinalizeStep)

FairSpec == Spec /\ Fairness

-----------------------------------------------------------------------------
(***************************************************************************)
(* TypeOK: every file holds what its writers put there, and result rows    *)
(* are those of one packet.                                                *)
(***************************************************************************)
Answer == [by : {Identity[w] : w \in Workers}, text : Texts \union Verdicts]
Rows == [Cases -> Answer \union {None}]

TypeOK ==
    /\ campaign \in [snapshot : (SUBSET Cases) \union {None},
                      batches : SUBSET BatchIds] \union {None, Torn}
    /\ dir \in [BatchIds -> [stage : {"absent", "partial", "written"},
                              cases : SUBSET Cases]]
    /\ complete \in [Slots -> Rows]
    /\ checked \subseteq BatchIds
    /\ decisions \in [BatchIds -> Rows]
    /\ \A w \in Workers :
          packet[w] # None =>
             /\ packet[w].batch \in BatchIds
             /\ DOMAIN packet[w].rows \subseteq Cases
             /\ \A c \in DOMAIN packet[w].rows : packet[w].rows[c] \in Answer
    /\ job.step \in {"idle", "list", "make", "write", "preflight", "corpus",
                     "summary", "pool", "metadata", "seal"}
    /\ gold \in [Cases -> {None, "decided", "corrected"}]
    /\ pool \subseteq Cases
    /\ state \in [BatchIds -> {None, "awaiting_review", "finalized"}]

(***************************************************************************)
(* ListedIsWritten: batches that campaign.json lists are written to the    *)
(* end, and share the cases of its snapshot out among them, in order and   *)
(* none of them too large or empty: whatever campaign-fill was killed at,  *)
(* and whichever file it was run with before or after.                     *)
(***************************************************************************)
ListedIsWritten ==
    Listed # {} =>
        /\ UNION {dir[b].cases : b \in Listed} = campaign.snapshot
        /\ \A b \in Listed :
              /\ dir[b].stage = "written"
              /\ Cardinality(dir[b].cases) \in 1 .. BatchSize
              /\ \A later \in Listed :
                    b < later => \A c \in dir[b].cases, d \in dir[later].cases :
                                    c < d

(***************************************************************************)
(* PacketsFit: a packet comes from the first batch that has work for the   *)
(* role; a routed one is of one language, in which something is left.  Its *)
(* rows are in one piece from the first row that is left (an adjudicator's *)
(* if routed: from the first of the language, decided or not), within the  *)
(* limits, and as many as the limits allow.                                *)
(***************************************************************************)
Fits(w, b, rows) ==
    LET left == Remaining(Role[w], b)
        open == IF Routing /\ Role[w] \notin Slots THEN dir[b].cases ELSE left
        from == {c \in open : Routing => \A r \in rows : Language[c] = Language[r]}
        limit == Limit(Role[w])
        rest == from \ rows
    IN  /\ rows # {} /\ rows \subseteq from /\ from \intersect left # {}
        /\ \A c \in rows, d \in rest : c < d
        /\ Cardinality(rows) <= limit /\ Bytes(rows) <= MaxBytes
        /\ \/ rest = {}
           \/ Cardinality(rows) = limit
           \/ \E d \in rest : Bytes(rows \union {d}) > MaxBytes
                               /\ \A e \in rest : d <= e
        /\ \A earlier \in Listed :
              earlier < b => Remaining(Role[w], earlier) = {}

PacketsFit ==
    [][\A w \in Workers :
         packet'[w] # packet[w] =>
            Fits(w, packet'[w].batch, DOMAIN packet'[w].rows)]_vars

(***************************************************************************)
(* AnswersKept: what was merged stays as it is, whoever merges what after  *)
(* it, in which order and how often; only a decision that does not         *)
(* validate is replaced, by a repair.                                      *)
(***************************************************************************)
AnswersKept ==
    [][/\ \A slot \in Slots, c \in Cases :
            complete[slot][c] # None => complete'[slot][c] = complete[slot][c]
       /\ \A b \in BatchIds : \A c \in Decided(b) :
            \/ decisions'[b][c] = decisions[b][c]
            \/ decisions[b][c].text = Broken /\ decisions'[b][c] # None]_vars

(***************************************************************************)
(* Independent: a batch with decisions has two complete reviews, each by   *)
(* one reviewer and not by the same one: the gate for adjudication, which  *)
(* reads a saved check in one command and computes it in another, is never *)
(* passed by.                                                              *)
(***************************************************************************)
Independent ==
    \A b \in BatchIds :
        Decided(b) # {} =>
            /\ \A slot \in Slots :
                  /\ Reviewed(slot, b) = dir[b].cases
                  /\ Cardinality(ReviewersOf(slot, b)) = 1
            /\ ReviewersOf("A", b) # ReviewersOf("B", b)

(***************************************************************************)
(* CompleteIsIntegrated: when campaign-status says complete, the corpus    *)
(* has a record for every case that was accepted, whatever was killed.     *)
(* A batch counts as soon as its summary exists.                           *)
(***************************************************************************)
Complete ==
    Listed # {} /\ \A b \in Listed : state[b] = "finalized" \/ summary[b] # None

CompleteIsIntegrated ==
    Complete => \A b \in Listed :
                   /\ Decided(b) = dir[b].cases
                   /\ \A c \in Having(b, "accept") : gold[c] # None

(***************************************************************************)
(* Completes: once a campaign is filled, every case ends up either in the  *)
(* corpus or in the retry pool and its batch finalized, also when a        *)
(* finalization is killed half way, results are merged twice or conflict.  *)
(* It takes a routed campaign in which an adjudicator's packet holds all   *)
(* rows of a batch in one language, for which templates/adjudicator-       *)
(* task.md gives no reason: "a 1,000-case logical batch may require        *)
(* multiple packets".                                                      *)
(***************************************************************************)
Done ==
    \A b \in Listed :
        /\ state[b] = "finalized"
        /\ \A c \in dir[b].cases : gold[c] # None \/ c \in pool

Completes == Listed # {} ~> (Done /\ Complete)

(***************************************************************************)
(* CorrectionsStay: a correction is not undone by a later command.         *)
(* templates/correction-task.md has a correction preserve the evidence and *)
(* append a revision; the record that campaign-finalize writes has none.   *)
(***************************************************************************)
CorrectionsStay ==
    [][\A c \in Cases : gold[c] = "corrected" => gold'[c] = "corrected"]_vars
=============================================================================
