----------------------------- MODULE BatchCycle -----------------------------
(***************************************************************************)
(* The life of review batches over the three stores their commands share:  *)
(* the corpus, the retry pool and each batch's own directory.              *)
(* spokenform_gold/collection.py collects the observations the corpus does *)
(* not have yet into a batch, workflow.py integrates and finalizes it,     *)
(* rereview selects blocked cases of the pool for a new batch under a new  *)
(* context, or rebuilds the pool from the batches.  A command writes several files  *)
(* one after the other; it can be killed or fail between two of them, and  *)
(* it is then run again.  Replacing the corpus is one step here: that a    *)
(* reader sees it as one is what CorpusStore shows.                        *)
(***************************************************************************)
EXTENDS RetryPool, FiniteSetsExt

CONSTANTS Terminals,      \* where commands run, one at a time in each
          Sources,        \* the source observations there are, in their order
          About, Text,    \* each one's sentence, and the spelling of its text
          Prepared,       \* the observations batch-create prepares for a batch
          Limit,          \* the cases it selects at most
          NewOutcomes,    \* what adjudicators decide in new_data batches
          RetryOutcomes,  \* what they decide in re-review batches
          OldBatches,     \* those with decisions from before blockers
          MaxCrashes,     \* bound: killed commands
          MaxRebuilds     \* bound: runs of exclusions rebuild

NewBatches == Batches \ RetryBatches

ASSUME OrderAssumption == Cases \subseteq Nat /\ Sources \subseteq Nat
ASSUME PreparedAssumption ==
    /\ About \in [Sources -> Cases]
    /\ Prepared \in [NewBatches -> SUBSET Sources]
    /\ Limit \in Nat
ASSUME OutcomesAssumption ==
    NewOutcomes \union RetryOutcomes \subseteq Outcomes \ Historical
ASSUME OldBatchesAssumption == OldBatches \subseteq NewBatches
ASSUME CycleBoundAssumption == MaxCrashes \in Nat /\ MaxRebuilds \in Nat

VARIABLES gold,      \* the corpus: each case's record
          pool,      \* the retry pool: each case's row
          stage,     \* each batch: its directory, and the state in batch.json
          members,   \* each batch: its cases, with retry context and attempt
          decision,  \* each batch: adjudication/decisions.jsonl
          summary,   \* each batch: integration/summary.json
          job,       \* the command each terminal runs, and what it has read
          failed,    \* history: each case's last failed retry context
          crashes,   \* commands killed so far
          rebuilds   \* rebuilds so far

batches == <<stage, members, decision, summary>>
vars == <<gold, pool, batches, job, failed, crashes, rebuilds>>

-----------------------------------------------------------------------------
\* A record: the batch whose decision it is, the spelling of its text, and the
\* source observations it cites.
Texts == {Text[s] : s \in Sources}
Record == [by : Batches, text : Texts, sources : SUBSET Sources]
Corpus == [Cases -> Record \union {None}]
Pool == [Cases -> Row \union {None}]

Member == [context : Contexts \union {None}, attempt : Nat,
           text : Texts, sources : SUBSET Sources]

ASSUME RecordAssumption == None \notin Record /\ None \notin Member

Torn == "torn"  \* a JSON file whose writer was killed; reading it raises
Absent == [state |-> "absent", corpus |-> None]

Idle == [command |-> "none", step |-> "idle", batch |-> None, corpus |-> None,
         rows |-> None]

MembersOf(b) == {c \in Cases : members[b][c] # None}
Decided(b) == \A c \in MembersOf(b) : decision[b][c] # None
Accepted(b) == {c \in MembersOf(b) : decision[b][c] = "accept"}

-----------------------------------------------------------------------------
\* corpus_source_keys.
Cited == UNION {gold[c].sources : c \in {d \in Cases : gold[d] # None}}

\* select_cases: of what is prepared, the observations whose source is not on
\* record or whose sentence is not, ...
Candidates(b) == {s \in Prepared[b] : ~ (s \in Cited /\ gold[About[s]] # None)}

\* ... by sentence (cluster_observations), ...
Cluster(b, c) == {s \in Candidates(b) : About[s] = c}

\* ... without the cases whose record cites them all, ...
Unseen(b) ==
    {c \in Cases : /\ Cluster(b, c) # {}
                   /\ gold[c] # None => ~ (Cluster(b, c) \subseteq gold[c].sources)}

\* ... and the first of these; nobody asks the pool or the open batches.
Selected(b) == {c \in Unseen(b) : Cardinality({d \in Unseen(b) : d < c}) < Limit}

\* A collected case has the text of its first observation.
CollectedCase(observations) ==
    [context |-> None, attempt |-> 0,
     text |-> Text[Min(observations)], sources |-> observations]

\* _merge_case_sources: a case comes back with the observations of every batch
\* its row has an event of, and the text of the first.
RetriedCase(row, c) ==
    LET origins == {e.batch : e \in row.events}
    IN  [context |-> row.context, attempt |-> row.attempts + 1,
         text |-> members[Min(origins)][c].text,
         sources |-> UNION {members[b][c].sources : b \in origins}]

\* Mutant of AcceptedRecord: the observations on record are not merged.
AcceptedAnew(b, c, existing) ==
    [by |-> b, text |-> members[b][c].text, sources |-> members[b][c].sources]

\* build_accepted_record adds the case's observations to those on record.
AcceptedRecord(b, c, existing) ==
    [by |-> b, text |-> members[b][c].text,
     sources |-> (IF existing = None THEN {} ELSE existing.sources)
                 \union members[b][c].sources]

\* The corpus with the batch's accepted records in it.
Combined(b) ==
    [c \in Cases |-> IF c \in Accepted(b) THEN AcceptedRecord(b, c, gold[c])
                                          ELSE gold[c]]

\* Mutant of EventOf: the retry context is left out.
EventWithoutContext(b, c) ==
    [batch |-> b, outcome |-> decision[b][c], context |-> None]

EventOf(b, c) ==
    [batch |-> b, outcome |-> decision[b][c], context |-> members[b][c].context]

\* Mutants of PoolWith: only cases the pool knows are reported; accepted cases
\* are not reported.
PoolWithKnown(b) ==
    [c \in Cases |-> IF c \in MembersOf(b) /\ pool[c] # None
                       THEN Merged(pool[c], EventOf(b, c))
                       ELSE pool[c]]

PoolWithBlocked(b) ==
    [c \in Cases |-> IF c \in MembersOf(b) \ Accepted(b)
                       THEN Merged(pool[c], EventOf(b, c))
                       ELSE pool[c]]

\* finalize_batch reports an accepted case only if the pool knows it.
PoolWith(b) ==
    [c \in Cases |->
       IF c \in MembersOf(b) /\ (decision[b][c] # "accept" \/ pool[c] # None)
         THEN Merged(pool[c], EventOf(b, c))
         ELSE pool[c]]

\* _batch_events, batch after batch in the order of their names: accepted
\* cases are left out, and the retry context is not in the event.
Replayed(c) ==
    LET row[b \in 0 .. LastBatch] ==
          IF b = 0 THEN None
          ELSE IF /\ stage[b] \in {"open", "finalized"}
                  /\ Decided(b) /\ c \in MembersOf(b) \ Accepted(b)
                 THEN Merged(row[b - 1], [EventOf(b, c) EXCEPT !.context = None])
                 ELSE row[b - 1]
    IN  row[LastBatch]

\* Mutant of RebuiltPool: an accepting decision counts, integrated or not.
RebuiltFromDecisions ==
    [c \in Cases |->
       LET row == Replayed(c)
       IN  IF row # None /\ \E b \in Batches : c \in Accepted(b)
             THEN [row EXCEPT !.state = "resolved", !.active = None]
             ELSE row]

\* rebuild_retry_pool; the last step is _mark_corpus_resolved.
RebuiltPool ==
    [c \in Cases |->
       LET row == Replayed(c)
       IN  IF row # None /\ gold[c] # None
             THEN [row EXCEPT !.state = "resolved", !.active = None]
             ELSE row]

Init ==
    /\ gold = [c \in Cases |-> None]
    /\ pool = [c \in Cases |-> None]
    /\ stage = [b \in Batches |-> "absent"]
    /\ members = [b \in Batches |-> [c \in Cases |-> None]]
    /\ decision = [b \in Batches |-> [c \in Cases |-> None]]
    /\ summary = [b \in Batches |-> Absent]
    /\ job = [t \in Terminals |-> Idle]
    /\ failed = [c \in Cases |-> None]
    /\ crashes = 0
    /\ rebuilds = 0

-----------------------------------------------------------------------------
At(t, step) == job[t].step = step
Goto(t, step) == job' = [job EXCEPT ![t].step = step]
Return(t) == job' = [job EXCEPT ![t] = Idle]

\* Reviews A and B and the adjudication of a batch end with one decision for
\* every case of it.
Adjudicate(b) ==
    /\ stage[b] = "open"
    /\ ~ Decided(b)
    /\ \E outcome \in [MembersOf(b) ->
                         CASE b \in RetryBatches -> RetryOutcomes
                           [] b \in OldBatches -> (NewOutcomes \ Blockers) \union {"unresolved"}
                           [] OTHER -> NewOutcomes] :
         decision' = [decision EXCEPT
                        ![b] = [c \in Cases |-> IF c \in MembersOf(b)
                                                  THEN outcome[c] ELSE None]]
    /\ UNCHANGED <<gold, pool, stage, members, summary, job, failed, crashes,
                   rebuilds>>

\* batch-migrate-adjudication: the decisions file is replaced by rename.
Migrate(b) ==
    /\ b \in OldBatches
    /\ \E c \in MembersOf(b) : decision[b][c] = "unresolved"
    /\ decision' = [decision EXCEPT
                      ![b] = [c \in Cases |-> IF @[c] = "unresolved" THEN "migrated" ELSE @[c]]]
    /\ UNCHANGED <<gold, pool, stage, members, summary, job, failed, crashes, rebuilds>>

\* batch-create: prepare the observations, read the corpus and select.
Collect(t, b) ==
    /\ At(t, "idle")
    /\ b \in NewBatches /\ stage[b] = "absent"
    /\ job' = [job EXCEPT
                 ![t] = [Idle EXCEPT
                           !.command = "create", !.step = "files", !.batch = b,
                           !.rows = [c \in Cases |->
                                       IF c \in Selected(b)
                                         THEN CollectedCase(Cluster(b, c)) ELSE None]]]
    /\ UNCHANGED <<gold, pool, batches, failed, crashes, rebuilds>>

\* What it writes; nobody works on a batch that is empty.
WriteBatch(t) ==
    LET b == job[t].batch IN
    /\ At(t, "files") /\ job[t].command = "create"
    /\ members' = [members EXCEPT ![b] = job[t].rows]
    /\ stage' = [stage EXCEPT
                   ![b] = IF \A c \in Cases : job[t].rows[c] = None THEN "empty" ELSE "open"]
    /\ Return(t)
    /\ UNCHANGED <<gold, pool, decision, summary, failed, crashes, rebuilds>>

\* integrate, or the first half of batch-finalize: read the batch and the
\* corpus; an integration whose summary matches is not written again.  A case
\* accepted in another spelling than the record on file refuses the batch.
Integrate(t, b, command) ==
    LET done == summary[b].state \in {"integrated", "finalized"}
                  /\ summary[b].corpus = Combined(b)
        next == IF ~ done THEN "corpus"
                ELSE IF command = "finalize" THEN "load" ELSE "idle"
    IN  /\ At(t, "idle")
        /\ stage[b] \in {"open", "finalized"}
        /\ summary[b].state # Torn
        /\ Decided(b)
        /\ \A c \in MembersOf(b) : decision[b][c] # "unresolved"
        /\ \A c \in Accepted(b) : gold[c] # None => gold[c].text = members[b][c].text
        /\ job' = [job EXCEPT
                     ![t] = IF next = "idle" THEN Idle
                            ELSE [command |-> command, step |-> next,
                                  batch |-> b, corpus |-> Combined(b),
                                  rows |-> None]]
        /\ UNCHANGED <<gold, pool, batches, failed, crashes, rebuilds>>

WriteCorpus(t) ==
    /\ At(t, "corpus")
    /\ gold' = job[t].corpus
    /\ Goto(t, "summary")
    /\ UNCHANGED <<pool, batches, failed, crashes, rebuilds>>

SummaryOf(t, state) == [state |-> state, corpus |-> job[t].corpus]

WriteSummary(t) ==
    /\ At(t, "summary")
    /\ summary' = [summary EXCEPT ![job[t].batch] = SummaryOf(t, "integrated")]
    /\ IF job[t].command = "finalize" THEN Goto(t, "load") ELSE Return(t)
    /\ UNCHANGED <<gold, pool, stage, members, decision, failed, crashes,
                   rebuilds>>

LoadPool(t) ==
    /\ At(t, "load")
    /\ job' = [job EXCEPT ![t].rows = PoolWith(job[t].batch),
                          ![t].step = "store"]
    /\ UNCHANGED <<gold, pool, batches, failed, crashes, rebuilds>>

\* write_retry_pool_atomic, the last step of every command but finalize.
WritePool(t) ==
    /\ At(t, "store")
    /\ pool' = job[t].rows
    /\ IF job[t].command = "finalize" THEN Goto(t, "metadata") ELSE Return(t)
    /\ UNCHANGED <<gold, batches, failed, crashes, rebuilds>>

WriteMetadata(t) ==
    LET b == job[t].batch IN
    /\ At(t, "metadata")
    /\ stage' = [stage EXCEPT ![b] = "finalized"]
    /\ failed' = [c \in Cases |->
                    IF b \in RetryBatches /\ stage[b] = "open"
                         /\ decision[b][c] = "retryable"
                      THEN members[b][c].context ELSE failed[c]]
    /\ Goto(t, "final")
    /\ UNCHANGED <<gold, pool, members, decision, summary, crashes, rebuilds>>

WriteFinalSummary(t) ==
    /\ At(t, "final")
    /\ summary' = [summary EXCEPT ![job[t].batch] = SummaryOf(t, "finalized")]
    /\ Return(t)
    /\ UNCHANGED <<gold, pool, stage, members, decision, failed, crashes,
                   rebuilds>>

\* A maintainer offers a new context: load the pool, mark its rows.
OfferContext(t, context) ==
    /\ At(t, "idle")
    /\ job' = [job EXCEPT
                 ![t] = [Idle EXCEPT
                           !.command = "ready", !.step = "store",
                           !.rows = [c \in Cases |->
                                       IF pool[c] = None THEN None
                                       ELSE MarkReady(pool[c], context)]]]
    /\ UNCHANGED <<gold, pool, batches, failed, crashes, rebuilds>>

\* rereview batch-create: load the pool and select; the filters on language
\* and blocker code and the limit leave any of the selectable cases.
SelectRetries(t, b) ==
    /\ At(t, "idle")
    /\ b \in RetryBatches /\ stage[b] = "absent"
    /\ \E chosen \in SUBSET {c \in Cases : pool[c] # None /\ Selectable(pool[c])} :
         /\ chosen # {}
         /\ job' = [job EXCEPT
                      ![t] = [Idle EXCEPT
                                !.command = "retry", !.step = "files",
                                !.batch = b,
                                !.rows = [c \in Cases |->
                                   IF c \in chosen
                                     THEN [pool[c] EXCEPT
                                             !.state = "in_retry_batch",
                                             !.active = b]
                                     ELSE pool[c]]]]
    /\ UNCHANGED <<gold, pool, batches, failed, crashes, rebuilds>>

\* build_rereview_batch; the directory must be new or empty.
BuildRetryBatch(t) ==
    LET b == job[t].batch
        rows == job[t].rows
        chosen(c) == rows[c] # None /\ rows[c].active = b
    IN  /\ At(t, "files") /\ job[t].command = "retry"
        /\ IF stage[b] = "absent"
             THEN /\ stage' = [stage EXCEPT ![b] = "open"]
                  /\ members' = [members EXCEPT
                       ![b] = [c \in Cases |->
                                 IF chosen(c) THEN RetriedCase(rows[c], c) ELSE None]]
                  /\ Goto(t, "store")
             ELSE /\ Return(t)
                  /\ UNCHANGED <<stage, members>>
        /\ UNCHANGED <<gold, pool, decision, summary, failed, crashes, rebuilds>>

\* exclusions rebuild: it reads every batch.json, and one that is torn ends it.
Rebuild(t) ==
    /\ At(t, "idle")
    /\ rebuilds < MaxRebuilds
    /\ \A b \in Batches : stage[b] # Torn
    /\ job' = [job EXCEPT ![t] = [Idle EXCEPT !.command = "rebuild",
                                              !.step = "store",
                                              !.rows = RebuiltPool]]
    /\ rebuilds' = rebuilds + 1
    /\ UNCHANGED <<gold, pool, batches, failed, crashes>>

\* The command is killed, or an exception ends it.  Files replaced by rename
\* are whole; the one write_json was writing may be cut short, and a batch
\* directory without its batch.json is in nobody's way but its own.
Crash(t) ==
    LET b == job[t].batch IN
    /\ crashes < MaxCrashes
    /\ ~ At(t, "idle")
    /\ \/ UNCHANGED <<stage, summary>>
       \/ /\ At(t, "summary") \/ At(t, "final")
          /\ summary' = [summary EXCEPT ![b] = [state |-> Torn, corpus |-> None]]
          /\ UNCHANGED stage
       \/ /\ At(t, "metadata")
          /\ stage' = [stage EXCEPT ![b] = Torn]
          /\ UNCHANGED summary
       \/ /\ At(t, "files") /\ stage[b] = "absent"
          /\ stage' = [stage EXCEPT ![b] = "partial"]
          /\ UNCHANGED summary
    /\ Return(t)
    /\ crashes' = crashes + 1
    /\ UNCHANGED <<gold, pool, members, decision, failed, rebuilds>>

Next ==
    \/ \E b \in Batches : Adjudicate(b) \/ Migrate(b)
    \/ \E t \in Terminals :
         \/ \E b \in NewBatches : Collect(t, b)
         \/ WriteBatch(t)
         \/ \E b \in Batches, command \in {"integrate", "finalize"} :
              Integrate(t, b, command)
         \/ WriteCorpus(t)
         \/ WriteSummary(t)
         \/ LoadPool(t)
         \/ WritePool(t)
         \/ WriteMetadata(t)
         \/ WriteFinalSummary(t)
         \/ \E context \in Contexts : OfferContext(t, context)
         \/ \E b \in Batches : SelectRetries(t, b)
         \/ BuildRetryBatch(t)
         \/ Rebuild(t)
         \/ Crash(t)

Spec == Init /\ [][Next]_vars

-----------------------------------------------------------------------------
(***************************************************************************)
(* TypeOK: the three stores hold what their readers expect of them.        *)
(***************************************************************************)
TypeOK ==
    /\ gold \in Corpus
    /\ pool \in Pool
    /\ stage \in [Batches -> {"absent", "partial", "empty", "open", "finalized", Torn}]
    /\ members \in [Batches -> [Cases -> Member \union {None}]]
    /\ decision \in [Batches -> [Cases -> Outcomes \union {None}]]
    /\ summary \in [Batches -> [state : {"absent", "integrated", "finalized", Torn},
                                corpus : Corpus \union {None}]]
    /\ job \in [Terminals ->
         [command : {"none", "create", "integrate", "finalize", "retry", "ready", "rebuild"},
          step : {"idle", "corpus", "summary", "load", "store", "metadata",
                  "final", "files"},
          batch : Batches \union {None},
          corpus : Corpus \union {None},
          rows : Pool \union [Cases -> Member \union {None}] \union {None}]]
    /\ failed \in [Cases -> Contexts \union {None}]
    /\ crashes \in Nat /\ rebuilds \in Nat

(***************************************************************************)
(* NoCaseLost: every case of a finalized batch has gone somewhere that     *)
(* lasts: its record is in the corpus if it was accepted, and the pool has *)
(* a row with the batch's event if it was not, whatever was killed, run    *)
(* again or rebuilt on the way.                                            *)
(***************************************************************************)
NoCaseLost ==
    \A b \in Batches : stage[b] = "finalized" =>
        \A c \in MembersOf(b) :
            IF decision[b][c] = "accept"
              THEN gold[c] # None
              ELSE /\ pool[c] # None
                   /\ \E e \in pool[c].events : e.batch = b

(***************************************************************************)
(* ResolvedIsGold: the pool never calls a case resolved before the corpus  *)
(* has a record for it, though the two are written by separate calls.      *)
(***************************************************************************)
ResolvedIsGold ==
    \A c \in Cases :
        pool[c] # None /\ pool[c].state = "resolved" => gold[c] # None

(***************************************************************************)
(* InRetryIsOwned: a row that is in a re-review batch names a batch that   *)
(* has the case and is not finalized; the row would otherwise wait for a   *)
(* batch that nobody works on.                                             *)
(***************************************************************************)
InRetryIsOwned ==
    \A c \in Cases :
        pool[c] # None /\ pool[c].state = "in_retry_batch" =>
            /\ pool[c].active # None
            /\ c \in MembersOf(pool[c].active)
            /\ stage[pool[c].active] \in {"open", Torn}

(***************************************************************************)
(* ProvenanceKept: no run of integrate or finalize, in whatever order the  *)
(* batches are collected, come or come again, drops a record or a source   *)
(* observation of one from the corpus.                                     *)
(***************************************************************************)
ProvenanceKept ==
    [][\A c \in Cases : gold[c] # None =>
         gold'[c] # None /\ gold[c].sources \subseteq gold'[c].sources]_vars

(***************************************************************************)
(* OneOpenRetry: while no command is killed, the pool is not rebuilt and   *)
(* no two new_data batches share a case, a case is in one open re-review   *)
(* batch at a time.                                                        *)
(***************************************************************************)
OneOpenRetry ==
    \A a, b \in RetryBatches :
        a # b /\ stage[a] = "open" /\ stage[b] = "open" =>
            MembersOf(a) \intersect MembersOf(b) = {}

(***************************************************************************)
(* FreshContext: a case is not put under review again with the context its *)
(* last re-review failed with.                                             *)
(***************************************************************************)
FreshContext ==
    [][\A b \in RetryBatches, c \in Cases :
         stage[b] = "absent" /\ stage'[b] = "open" /\ members'[b][c] # None =>
             members'[b][c].context # failed[c]]_vars

(***************************************************************************)
(* AttemptsDistinct: two re-reviews that left a case blocked never carry   *)
(* the same attempt number, however the batches were finalized again.      *)
(***************************************************************************)
AttemptsDistinct ==
    \A a, b \in RetryBatches : \A c \in MembersOf(a) \intersect MembersOf(b) :
        a # b /\ decision[a][c] = "retryable" /\ decision[b][c] = "retryable" =>
            members[a][c].attempt # members[b][c].attempt
=============================================================================
