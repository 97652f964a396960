# Spokenform Gold: TLA+ models, model checking and proofs

Spokenform Gold keeps a reviewed corpus of sentences with their spoken forms.
It is a command line program (`spokenform-gold`, Python): every command is a
process of its own that reads files, computes, writes files and exits. There is
no server, no database and no lock. The state of the system is therefore what
is on disk, and what makes it hard to get right is what happens between two
writes: another command, an exception, a killed process, a command that is run
again. That is what the models in this directory are about.

## Contents

| Module | Models | Code |
| --- | --- | --- |
| `AtomicCorpus` | what the corpus promises: an update takes effect whole, and stays | (abstract specification) |
| `CorpusStore` | reading and replacing `data/corpus`, rename by rename | `corpus.py` |
| `CorpusStore_proofs`, `BatchCycle_proofs`, `Corrections_proofs`, `Campaign_proofs`, `Publication_proofs`, `ReleaseWorkflow_proofs`, `Translation_proofs`, `Datasets_proofs` | theorems about these modules | |
| `RetryPool` | the rows of the retry pool and what events do to them (operators) | `rereview.py` |
| `BatchCycle` | collect, integrate, finalize, re-review, rebuild over corpus, pool and batch directories | `collection.py`, `workflow.py`, `rereview.py`, `cli.py` |
| `Corrections` | prepare-correction and apply-correction over corpus, lineage and receipts | `corrections.py`, `review_lineage.py`, `cli.py` |
| `Campaign` | create, fill, next, merge, repair and finalize over `campaign.json`, batch directories, packets, corpus and pool | `campaign.py`, `packets.py`, `workflow.py`, `cli.py` |
| `SourcePolicy` | what may be published of each source: the manifest and the decisions about it | `source_policy.py`, `source_manifest.py` |
| `Publication` | the publication plan, the preflight, and releases built into one directory while policy changes | `release.py`, `source_resolver.py`, `cli.py` |
| `ReleaseWorkflow` | plan, candidate, gate, publication and verification, and runs entered again | `scripts/`, `.github/workflows/release.yml` |
| `Translation` | two translators, an adjudicator, finalization over the files of a translation batch | `translation.py`, `cli.py` |
| `ReviewProtocol` | the first review protocol: blind rows, their comparison, application of decisions (operators) | `review.py` |
| `Promotion` | what a batch of promotion decisions is refused for, and the records it makes (operators) | `promotion.py` |
| `Datasets` | promote, split, re-review, commit and release the first data layout | `splitting.py`, `promotion.py`, `review.py`, `release.py`, `validation.py`, `gold_audit.py` |
| `MCCorpusStore`, `MCBatchCycle`, `MCCorrections`, `MCCampaign`, `MCPublication`, `MCReleaseWorkflow`, `MCTranslation`, `MCDatasets` | constants for TLC | |

`PROJECT.json` lists the components, runs, mutants, hazards, findings and
theorems, and for every definition the lines of the source it stands for.

Checking: `tlc -config <run>.cfg <MC module>`; proofs: `tlapm <module>_proofs.tla`.

## The system: inventory

Components that keep state or decide about it, with the state each keeps, its
operations, how it interacts with others, and what makes it correct.

* **Corpus store** (`corpus.py`). State: the directory `data/corpus`, one JSONL
  shard per language. Operations: `read_corpus`, `write_corpus_atomic`,
  `replace_corpus_record_atomic`, `shard_corpus`. Used by integration,
  corrections, release, export. Hard: two renames that must look like one,
  handlers and finally clauses, commands of several terminals, killed
  processes. Correct: a reader sees one version; an acknowledged update stays;
  the corpus never vanishes.
* **Batches** (`collection.py`, `workflow.py`). State: one directory per batch
  with cases, blind reviews, decisions, `batch.json`, `integration/summary.json`.
  Operations: `batch-create`, `review-packet`/`review-merge`,
  `adjudication-packet`/`adjudication-merge`, `integrate`, `batch-finalize`.
  Hard: several files written one after the other by commands that may be
  killed and are run again; batches that share cases. Correct: every case of a
  finalized batch is in the corpus or in the pool; integration only adds.
* **Retry pool** (`rereview.py`). State: `state/review-exclusions.jsonl`, a row
  per case that was not accepted. Operations: events at finalization,
  `mark_retry_ready`, `rereview batch-create`, `exclusions rebuild`. Hard: the
  pool summarises other files and is written separately from them. Correct: a
  case is in one open re-review at a time, is not reviewed again in an
  unchanged context, and is called resolved only if it is in the corpus.
* **Corrections** (`corrections.py`, `review_lineage.py`). State: the record's
  `review.correction_history` in the corpus, `data/lineage/review-evidence.jsonl`,
  `corrections/<id>/`. Operations: `prepare-correction`, `apply-correction` with
  and without `--write`. Hard: three stores and no transaction; decision files
  that are older than the record. Correct: history is append-only and
  connected, the lineage follows it, revisions identify corrections.
* **Review packets** (`packets.py`, `adjudication_quality.py`). State: packet
  files, partial reviews and decisions. Operations: packet selection, the
  merges of reviews and of decisions, repair of decisions. Hard: many workers
  with packets that overlap, results late, twice, or for another batch.
  Correct: selection covers every case within its limits; a merge neither loses
  nor replaces an answer; adjudication sees two complete, independent reviews.
* **Campaign** (`campaign.py`). State: `campaign.json`, batch directories below
  it. Operations: `campaign-create`, `-fill`, `-next`, `-merge`, `-status`,
  `-finalize`. Hard: a fill or a finalization that is killed half way and run
  again; packets routed by language. Correct: a listed batch is whole, `next`
  leads to completion (it does not always: findings).
* **Family splits** (`splitting.py`, `families.py`). State: the registry
  `splits/family_assignments.json` and the files of train, dev and test.
  Operation: `split`, which rewrites all four in place. Hard: killed between
  them, other seeds and ratios, checkouts. Correct: a released family never
  changes its split.
* **Promotion** (`promotion.py`, `merge.py`). Rows in, rows out: each candidate
  has one decision, ids and families agree with the canonical records.
* **Blind review, first protocol** (`review.py`, `adjudication.py`). State: the
  rows of two reviewers and the canonical decisions. Operations: prepare,
  validate, compare, preflight, apply. Hard: rows are keyed by normalized text,
  and the records may be edited while they are out. Correct: a record is credited
  to reviewers who saw it as it is.
* **Translation** (`translation.py`). State: tasks, blind rows, files of completed
  rows of two slots and of adjudications. Operations: prepare, packet, merge,
  check, adjudication packet and merge, finalize. Hard: late merges, packets of
  several people, files named anew by every command, checks made once and trusted
  later. Correct: two independent
  translators, one adjudicator, who saw what was accepted.
* **Source policy** (`source_policy.py`, `source_manifest.py`). State: the
  manifest of sources and the file of release decisions. Operations: decide,
  validate, apply. Hard: a decision names the edition of the manifest it is
  about, and applying another one makes a new edition. Correct: an outdated or
  incomplete decision has no effect.
* **Release** (`release.py`, `release_sources.py`). State: a release directory.
  Operations: preflight, build, verify. Hard: several inputs read at several
  moments; a directory that is cleared first and filled file by file. Correct:
  nothing is published in a form its sources do not allow; a directory that
  verifies is one build.
* **Release workflow** (`scripts/`, `.github/workflows/release.yml`). State: tags
  and published releases, and the outputs of the jobs of each run. Hard: jobs
  fail anywhere and are run again, after others. Correct: a published version is
  immutable; versions are new.
* **Importers, ingestion, validation, scoring, benchmarks, reports, site**. Pure
  functions of files, or rendering; no state shared between commands.

Behaviours that are hard to test, each at its line and with the properties that
cover it, are the `hazards` of `PROJECT.json`.

## CorpusStore

`write_corpus_atomic` builds a staging directory, moves the corpus aside, moves
the staging directory in, and removes the old one in a `finally` clause. Each
existence test, rename and shard read is an action: `Begin`, `Open`,
`ReadShard`, `Stage`, `CheckTarget`, `MoveAside`, `Install`, `Probe`, `Restore`,
`Finish`; `Raise` is a system call that fails (or Ctrl-C) and `Crash` the death
of the process. A directory is a function from languages to the updates a shard
reflects. Staging and backup directories have unique names in the code and are
therefore functions of the command. What a killed command leaves beside the
corpus is `litter`, which no command reads.

`Store`, the corpus or else the versions kept beside it, is the refinement
mapping to `AtomicCorpus`: moving aside and restoring are stuttering steps, and
installing is the one atomic change.

| Run | Checks | Bounds |
| --- | --- | --- |
| `corpus_serial` | `TypeOK`, `Recoverable`, `ImplementsAtomicCorpus` | one terminal, three updates (two additions, to two shards, and a correction), no corpus at the start, one exception, two killed processes, `FreshStart` FALSE |
| `corpus_concurrent` | `NeverVanishes`, `CorpusReturns` | two terminals, two shards, no corpus at the start, one exception |

A kill between the two renames leaves no `data/corpus`. A correction then refuses to
run; an addition takes the missing corpus for an empty one (`workflow.py:375`), and
the store is atomic no more. `FreshStart` says whether an addition may be started
there (`MayStart`). The code does not prevent it: FALSE is an assumption about whoever
runs the commands, who has to move the previous version back first.
`ImplementsAtomicCorpus` needs it and is false without it (findings, below);
`Recoverable` does not, neither in TLC nor in its theorem, and `corpus_concurrent` has
`FreshStart` TRUE, though no kills.

Two killed processes are needed for litter of both kinds to exist beside a
third attempt; two terminals are needed for every race of renames, and a third
terminal adds no new pair of steps. One exception is the bound for which
`NeverVanishes` is claimed: when the install and the restore both fail, the
`finally` clause removes the last copy.

Fairness (`corpus_concurrent`): weak fairness of the steps of each running
command. A command waits for nobody, so a process that is scheduled gets on; no
fairness is assumed of starting commands, of exceptions or of crashes.

`InGap` is the window between the first rename and the `try`: a
`KeyboardInterrupt` raised there skips the handler. The runs have it FALSE;
with `InGap = TRUE` in `corpus_serial.cfg` TLC finds `Recoverable` violated
(findings, below).

Serial and concurrent promises differ, and the code justifies no more: with two
terminals an acknowledged update can be overwritten, because both commands read
the corpus before either replaces it.

## RetryPool and BatchCycle

`RetryPool` defines a row of the pool and the functions on rows: `ApplyEvent`
with its rules for accepted, bare, legacy and classified outcomes, `Merged`,
`MarkReady`, `Selectable`. An outcome stands for a decision with its blocker.

`BatchCycle` runs the commands. `gold` is the corpus (one step per replacement,
which `CorpusStore` justifies), `pool` the pool file, and `stage`, `members`,
`decision`, `summary` are the files of each batch. A command is a record in
`job[t]` with the step it is at and what it has read; each write is an action:

* `Integrate` (read, gate, skip test), `WriteCorpus`, `WriteSummary`; for
  finalize also `LoadPool`, `WritePool`, `WriteMetadata`, `WriteFinalSummary`;
* `Collect`, `WriteBatch` for `batch-create`: what it selects is read from the
  corpus of that moment. `Prepared` are the observations the import found;
  `Candidates`, `Cluster`, `Unseen` and `Selected` are the steps of
  `select_cases`. A case has the spelling of its first observation, and one that
  is accepted in another spelling than the record on file refuses its batch;
* `SelectRetries`, `BuildRetryBatch`, `WritePool` for `rereview batch-create`; a
  case comes back with the observations of all the batches it was blocked in;
* `OfferContext`, `WritePool` for `mark_retry_ready` over the pool (the function
  is public, and no command of the program calls it: whoever maintains the pool
  does);
* `Rebuild`, `WritePool` for `exclusions rebuild`;
* `Adjudicate` for everything between the batch and its decisions, and `Migrate`
  for `batch-migrate-adjudication`: in an old batch (`OldBatches`) a decision may
  be unresolved with no blocker; the pool reads it as retryable and integration
  refuses it until the migration writes the blocker. The event of the migrated
  decision is another one;
* `Crash`: `batch.json` and `summary.json` are truncated and written in place,
  so a killed command may leave them torn; other files are replaced by rename.

Digests are compared in the code and contents in the model; the digest of the
corpus sorts its rows, so the two agree. `failed` is a history variable: the
context each case's last re-review failed with.

| Run | Checks | Bounds |
| --- | --- | --- |
| `cycle_crash` | `TypeOK`, `NoCaseLost`, `InRetryIsOwned`, `ResolvedIsGold`, `ProvenanceKept` | two cases, three observations, two of them of one sentence in two spellings, two batches collected at any time, one of them old, and one re-review, one killed command, one rebuild |
| `cycle_retry` | `OneOpenRetry`, `AttemptsDistinct`, `FreshContext` | one case, all outcomes, three re-reviews, two contexts, repeated finalizations |

Two batches make the second acceptance of a case, collected before or after the
first was integrated, and a case that one batch adds a source to; three
re-reviews make an attempt that follows two others; two contexts make a context
that returns.
Each terminal runs one command at a time and these runs have one terminal: with
two, the pool loses updates by design (load, change, write). Deadlock is checked.

`InRetryIsOwned` is checked for re-reviews that accept, block or exclude with a
complete blocker. The blocker of unclassified decisions leaves a row that has a
classified one in the finalized batch; see the hazards.

## Corrections

`Apply` reads corpus and lineage and computes the corrected record, the history
item and the new lineage; `Check`, `WriteCorpus`, `WriteLineage`, `WriteReceipt`
are the rest of `apply-correction --write`; `Preview` is the command without
`--write`. `decisions` is the set of decision files ever prepared: any of them,
however old, can be applied if the oracle hash still matches. A record's content
is what the hash covers and what it does not (`notes`), since that difference
decides which stale decisions are refused. A killed command leaves any prefix of
the lineage, or half a line.

| Run | Checks | Bounds |
| --- | --- | --- |
| `corrections_serial` | `TypeOK`, `HistoryAppends`, `ChainConnected`, `LineageIsPrefix`, `RevisionsIncrease` | two records, three decision files, two corrections of each, one preview, one killed command |

Two corrections of one record show a history with a junction; two records show
evidence of one lost or kept by the correction of the other. The runs stop when
no decision applies any more, so deadlock is not checked, nor in the corpus
runs, which stop when all updates are made.

## Campaign

Cases are numbered in the order of their ids, and a campaign's batches in the
order of their ordinals, so that "first" and "next" are the least number. A row
has a language and a size; `Offered` is what a packet is taken from: the open rows,
and where packets are routed those of the first language. A decision has no
language at its top level, so for an adjudicator all rows of that language are open
again (`campaign.py:391`). `Stops` and `Select` are the loop of
`select_packet_rows`, in which a row is refused by the count, by the bytes left,
or raises because it exceeds the budget on its own. What a reviewer or an
adjudicator writes is an author and a text.

Who does what:

* a worker draws a packet (`Draw`, `campaign-next`) from the first batch with
  work for its role, and answers all of it; the packet file is its own, so a
  second worker of the role can hold the same rows. It merges the result into
  the batch it came from (`MergeOwn`), any number of times and however late, or,
  when it leaves out `--batch-id`, into the first batch (`MergeFirst`). A merge
  that the code refuses is not a step;
* anybody saves `review-check` (`SaveCheck`), which `campaign-next` trusts, or
  repairs decisions that do not validate (`Repair`);
* one maintainer runs `Create`, `Fill`, `MakeBatch`, `WriteBatch`, `ListBatches`
  and `StartFinalize`, `Preflight`, `WriteCorpus`, `WriteSummary`, `WritePool`,
  `WriteMetadata`, `WriteFinal`: the record `job` says where its command is, and
  between two of these steps everybody else may act, or `Kill` end the command.
  `Correct` is `apply-correction` between two commands.

Each merge is one step: it reads, validates and replaces one file by rename. That
two merges into one file do not overlap is an assumption, which the code does not
enforce (see the hazards). Reviews of all
batches are in one function `complete[slot]`, since batches share no case, which
`ListedIsWritten` says.

| Run | Checks | Bounds |
| --- | --- | --- |
| `campaign_reviews` | `Independent`, `PacketsFit`, `AnswersKept` | four cases in two batches, packets routed by language, one decision to a packet, five workers: one for slot A, two identities for slot B of which one is also slot A's, two contexts of one adjudicator; two of them may leave out the batch |
| `campaign_completes` | `TypeOK`, `ListedIsWritten`, `CompleteIsIntegrated`, `Completes` | four cases in batches of three, two candidate files, two languages, one worker for each role, two decisions to a packet, one killed command, one correction |
| `campaign_correction` | `CorrectionsStay` is violated | three cases in batches of two, one correction, nothing killed |

Four cases in batches of three give a full batch and a shorter one, and so do three in
batches of two; two rows fill a packet to the byte, and with the other language in
front, routing cuts a batch in two. In `campaign_reviews` the second batch has two rows
of one language and a packet of decisions one of them. There an adjudicator never gets
past the first: `Completes` is false for such a batch (findings), and is checked for
batches of which each language fits into one packet. Two candidate files show what a
second fill does to what a killed one left. Five workers are the smallest number with a
contest for each file: two identities for a slot, and two adjudicators whose packets
overlap.

Fairness: somebody draws when there is something to draw, merges when a result
is accepted, and repairs what is broken; `campaign-finalize` is run again and
again and goes on. These are the steps that the task templates (`templates/`) ask of reviewers,
adjudicators and the maintainer; the program does not take them by itself. Nothing makes anybody create or fill, so `Completes` starts
from a filled campaign. `Completes` also takes it that workers answer every
packet they draw and that repaired decisions are valid.

Deadlock is not checked: a `campaign.json` cut short stops every command, and
`campaign_reviews` ends when everything is finalized and merged.

A batch can be cut off from completion in three more ways, which these runs do not
have and which the hazards name: a decision merged into a batch it does not
belong to; a first reviewer of a slot who stops half way (another may not go
on); a row that exceeds the byte budget.

## SourcePolicy and Publication

`SourcePolicy` has the manifest and the decisions file. An edition number stands
for the hash of the manifest, which decisions name; `Settled` is what
`source-policy-apply` writes into an entry, `Effective` what a release makes of an
entry and its decision without writing. The maintainer decides, completely or not
yet, withdraws, applies and pins new revisions.

`Publication` extends it with `release-preflight`, `build_corpus_release` and
`verify_release`. `Share` is what one observation contributes to its record,
`ModeOf` and `Plan` the choice of the record's public form, `Materialized` and
`Overlay` the record as it is published, `Enforced` the last check of the release
against the manifest it will carry. A build clears the directory (`Start`), reads
the manifest (`Read`), then the decisions with all checks (`Check`), and writes its
files; between any two steps the policy may change, and the build may be killed in
any file or while clearing. The files `out` holds are the numbers of the builds
that wrote them, and `hashes` are what the manifest of the directory says of them.

| Run | Checks | Bounds |
| --- | --- | --- |
| `publication` | `TypeOK`, `VerifiedIsOneBuild`, `ReferencesAreAuthorized`, `TextIsAuthorized`, `OmittedIsExcluded`, `PreflightPredicts` | two sources, each open or restricted at the start; a record with one of them, one with both and one with two observations of one; an allowlist or none; three changes of policy, two builds, one killed |

Two builds into one directory make the mixture of files; two sources make a record
of which one source permits what another does not, and a decision that a second
one outdates; three changes are a decision, one that outdates it and its
application. The record with one source is omitted where that source is excluded, with
the others published. The model has the manifest's policy fields only: that referenced files
exist and have their hashes, the maturity gates, and the validation of records are
taken as passed. Deadlock is not checked: builds and changes are bounded.

`PreflightPredicts` compares the two on the same inputs without an allowlist:
with one, the preflight plans with `release_sources` and the build publishes the
selected records as they are.

## ReleaseWorkflow

Each job of `release.yml` is an action of a run: `PlanJob` (with
`next_release_version` over the tags of that moment), `CandidateJob`,
`ConsumerGate`, `PublishJob` (create, or compare with what is there),
`VerifyPublished`. `Fail` ends a run's attempt in any job, in the publish job also
after the release was made; `Enter` begins a run, with the commit and the inputs it
was dispatched with (`KeepsDispatch`), or continues at the failed job with the plan
and the artifact of the run; `RerunAll` plans anew, from the tags there are then and
the commit of the dispatch. The concurrency group of the
workflow file allows one run at a time, and the model relies on it. A release is
its commit: the build is deterministic, which `compare_release_candidate.py`
checks by hashes.

| Run | Checks | Bounds |
| --- | --- | --- |
| `workflow` | `SuccessIsPublished`, `PlansAreFresh`, `FirstAttemptsAscend` | three dispatched runs, waiting or not, one of them entered again, two commits, five pairs of bump and maturity |

Three runs are one that fails, one that goes past it and one that plans after both.
The runs are interchangeable (symmetry). The workflow ends when its runs are over,
so deadlock is not checked.

## Translation

The state is the files of a batch: `tasks`, `blind`, `files` (of each slot, the files
of completed rows, by name), `decisions` (likewise), `candidates`; `handed` and
`shown` are what translators and adjudicators were given. Every command may be run
at any time, and a merge brings any rows of packets handed out, in any order and
again. `translation-prepare` may be killed between its files.

A merge reads one file and writes another, or the same: `--existing`, by default a
partial file, and `--out`. It is refused if the file it reads has another row of a
case; what the file it writes has is not looked at. `Overwrites` says whether merges
may write over rows they have not read. The check, the packets of adjudication and
finalize are assumed to be given the same file of a slot, `Complete`; of the files
of decisions, merges and finalize may take any.

| Run | Checks | Bounds |
| --- | --- | --- |
| `translation` | `Independent`, `CandidatesWereSeen`, `OneAdjudicator` | two records; two translators in either slot, two drafts, two files of a slot and no overwriting, two adjudicators and one file of decisions, packets of one case |

Two translators suffice to be one person in two slots, two adjudicators to be one
too many, two files to be the wrong one, packets of one case and two cases to be out
of order. A batch with a case that cannot be finalized stops, so deadlock is not
checked. Texts are two drafts; selection of records and prompts are left out.

## ReviewProtocol, Promotion and Datasets

The first data layout has records in train, dev and test files, and families
frozen in one of them by a registry. `Datasets` runs the commands over it:

* `Promote` (`promote-reviewed`), with `Promotion`'s rules for a batch;
* `Split` and `SplitKilled`: the registry is extended by `Resolved` and written,
  then the three files, each in place and through a buffer; killed, it leaves a torn
  registry or files of two splits and one cut short, after a line (`Cuts`) or within
  one (`broken`, which every command that reads the files refuses). `HashSplit`, the
  hash of seed, ratios and family, is a constant;
* `PrepareRereview`, `Annotate`, `Decide`, `Apply`, `Adopt`: the first review
  protocol, with `ReviewProtocol`'s comparison and checks. Rows of one slot may come
  back from several people, with an id or without: `RowsReady` wants one id among
  them all. `Respell` edits a record's text while the rows are out;
* `Commit`, `Checkout`, `CheckoutFile` and `Release`: releases are built from what is
  committed; files and a registry that cannot be read are not committed, and one
  file may be checked out alone.

Assumptions: the adjudicator decides when `review-preflight` says ready; promoted records are split with the
canonical ones while their ids are not among them yet; applied records are put in
the place of the canonical ones by hand (`Adopt`).

| Run | Checks | Bounds |
| --- | --- | --- |
| `datasets` | `SplitsStand`, `AppliedAsAnnotated`, `SplitCanBeRepeated` | one canonical record and one candidate, two families, two seeds, two ratios, two spellings of the first record, two reviewers, rows signed by either or nobody, one re-review |

A family that new records join, one that is new, two seeds and two ratios are all
the ways a split decides; one re-review of two records is enough for a record to
change between preflight and application, and for an unsigned row beside a signed
one. `Edited` bounds what maintainers respell and adjudicators take for another
family's: the canonical record, not the promoted one. The reviewers are interchangeable (symmetry). Deadlock
is checked.

## Findings

One run expects a violation and shows a disagreement between the code and what the
repository says of it:

* `campaign_correction`: `campaign-finalize` finalizes every batch again, and the
  record of an earlier batch overwrites a correction made since (`workflow.py:483`),
  although corrections are to be applied "safely" (`corrections.py:1`) and to
  "Preserve prior evidence, append a correction revision" (`templates/correction-task.md:31`).

Known divergences and gaps that no run of the list shows, and how to see each. The
formulas named here are in the modules; where the code breaks them, no run lists them.

* After a kill between the two renames of `write_corpus_atomic` (`corpus.py:346`), the
  next integration takes the missing corpus for an empty one, installs one without the
  earlier records and reports success (`workflow.py:371-377`); `data/corpus` is "The
  authoring source of truth" (DATA_MODEL.md:55). `FreshStart = TRUE` in
  `corpus_serial.cfg` violates `ImplementsAtomicCorpus`, and `CorpusIsComplete`.
* Packets of decisions are selected without knowing which rows of their language are
  decided, since decisions have no language at the top level (`campaign.py:391`): of more
  rows than a packet holds the first ones are offered for ever, where packets.py:54 says
  "Select the next stable rows" and tests/test_packets.py:101-113 expects a packet
  without the decided case. `DecisionMax = 1` in `campaign_completes.cfg` violates
  `Completes`.
* A merge of translations into a file it has not read replaces a row that was checked
  (`cli.py:1010-1017`), without the "conflicting duplicate" that
  tests/test_translation.py:82 asserts, and the batch is finalized with one translator in
  both slots, where docs/TRANSLATION.md:7 wants them independent: `Overwrites = TRUE` in
  `translation.cfg` violates `Independent` and `CandidatesWereSeen`.
* A row of the first protocol without a reviewer id passes beside one that has it, and its
  record is credited to that reviewer (`review.py:705-707,736-743`);
  schemas/completed-review-row.schema.json:6-10 requires the id in every completed row.
  `AppliedIsSigned` in `datasets.cfg` is violated.
* A record with two observations of one source is blocked, and the release with it, where
  that source is excluded by decision (`release.py:514`), although such a decision "may
  deliberately omit affected records without blocking the release"
  (docs/SOURCE_POLICY.md:5). `ExclusionsDoNotBlock` in `publication.cfg` is violated.
* Ctrl-C after the first rename of `write_corpus_atomic` and before its `try`
  deletes the corpus (`corpus.py:346-347`): `InGap = TRUE` in `corpus_serial.cfg`
  violates `Recoverable`.
* The retry pool is called rebuildable (DATA_MODEL.md:59), but a rebuild forgets
  the contexts that failed: `MaxRebuilds = 1` in `cycle_retry.cfg` violates
  `FreshContext`, and `OneOpenRetry` with it.
* Revisions of a correction are counted from the lineage alone, so a record's
  history can name one twice after a killed command (`corrections.py:57`), though
  evidence is keyed by it: `corrections_serial` reaches such histories.
* A preview fills the receipt directory; the application then reports a failure
  after it has changed corpus and lineage (`corrections.py:366`): `Check` in
  `Corrections` has both outcomes.
* With `--release-sources`, a record is released with its text as soon as all its
  sources are listed, also restricted ones in external-ref form, where
  docs/SOURCE_POLICY.md:18-19 asks for a reference: `TextIsAuthorized` is stated
  for releases without allowlist.
* A failed workflow run that is entered again publishes the version it planned,
  after others may have gone past it: `FirstAttemptsAscend` is stated for first
  attempts.
* Translation tasks are selected by license and flags, but finalization looks at
  the license alone, since tasks do not keep the flags (`translation.py:581`): a
  batch with such a record cannot be finalized (`MaySeed`, `MaySeedTask`; the runs have
  records without flags).
* Promotion counts two reviewers and does not compare them (`promotion.py:139`).
* A case collected in another spelling than its record refuses its batch at every
  integration (`workflow.py:441`), and nobody is told before.
* A re-review that ends unclassified leaves its case in the finalized batch, where
  nothing selects it again (`rereview.py:380`): `RetryOutcomes` with `"legacy"` in
  `cycle_crash.cfg` violates `InRetryIsOwned`.
* A case that is excluded is collected again, at the head of the next batch
  (`collection.py:200`): neither decisions nor the pool are asked.

## Proved

The theorems are in modules of their own, `<module>_proofs.tla`, and hold for
every value of the constants that satisfies the named assumptions. These say
which values a constant may have (`CasesAssumption`, `RowAssumption`, ...), that
the corpus and the reviewers are finite (`CorpusIsFinite`, `ReviewersAssumption`), that
the first data layout starts with no family in two splits (`CanonicalAssumption`), that an observation names a source and a
form (`ObservationAssumption`), and that `None` is none of the values it stands
beside (`NoneAssumption`, `RecordAssumption`, `SplitAssumption`, `EntryAssumption`); TLC evaluates
all of them in the runs. Where a theorem needs more, the hypothesis is part of its
statement:

| Hypothesis | Says | Why |
| --- | --- | --- |
| `Serial` (`CorpusStore_proofs`) | one command at a time, one exception at most, none in the gap | two commands overwrite each other; a second exception can hit the restore |
| `InPlace` (`Translation_proofs`) | a merge writes the file it has read, or one without rows | a merge into another file replaces what was checked or shown |
| `NoFreshStart` (`CorpusStore_proofs`) | no process is killed, or no addition is started on a corpus that a kill made go missing (`FreshStart`) | after a kill between the renames an addition would install a corpus without what was there |
| `OneTerminal` (`Corrections_proofs`, `BatchCycle_proofs`) | one command at a time | nothing is locked between reading a file and replacing it |
| `OwnBatch` (`Campaign_proofs`) | adjudicators do not leave out `--batch-id` | a result that goes to the first batch decides cases it has not got |
| `Classified` (`BatchCycle_proofs`) | no re-review ends unclassified | such an event leaves the row in its batch (rereview.py:380-386) |
| `Undisturbed` (`BatchCycle_proofs`) | one command at a time, none killed, the pool not rebuilt | a kill leaves a batch that no row names, or a failure that is in the pool and not yet in the batch; a rebuild forgets which contexts failed |
| `Apart` (`BatchCycle_proofs`) | no two new batches have a case in common | a second new batch puts a case that is under re-review back in the pool |

Each hypothesis is satisfied by the run that checks the property. With any of
these dropped the property fails in the model as it would in the code.

**CorpusStore.** `TypeCorrect`, and `CorpusNeverVanishes` for concurrent commands.
`NeverVanishes` is not inductive: it does not say which call holds the previous
version, so a call could drop it while the corpus is away. The inductive invariant
`IInv` has the type invariant; `Staged`, a call that has yet to install has a
staging directory; `HasBackup`, a call about to restore has a backup; and `Away`,
where the last version is while the corpus is away: in a killed call's litter,
with a call about to install, or, once an exception has been raised, with a call
on its way to the restore. The last two are kept apart because a second exception
could hit the restore itself. `CommittedIsRecoverable` (`Recoverable`) and
`RefinesAtomicCorpus` (`ImplementsAtomicCorpus`) are about serial commands:
`SerialInv` says what the one running call holds at each of its steps, and that
the backup it removes is never more than the corpus has by then. The refinement
adds `NewestAtHand`, the newest version is the corpus or what the call has moved
aside, and `Extends`, a staged directory is the store and the call's own change;
with these every step is a step of `AtomicCorpus` or none, `Install` being the one
that changes it. `StartsOnNothing` is what `NoFreshStart` comes to: an addition that
finds no corpus finds no previous version either.

**BatchCycle.** `TypeCorrect`, `CasesAreNotLost`, `ResolvedCasesAreGold`,
`RetriesAreOwned`, `ProvenanceStays`. None of the invariants is inductive, since
the pool is computed in one step and written in another. `Inv` has `TypeInv`;
`BatchInv`, a batch with an integration summary is decided and its accepted cases
are in the corpus; `PoolInv`, the rows are `Sound`: their events are of batches
that have the case, a resolved one has a record, one in a re-review batch is owned
by it, and the events of finalized batches are there; and `JobInv`, what a command
has computed is sound when it comes to write it. The rebuild folds the events of
all batches with a recursive function over the batches, and the provers have no
induction. That the function exists, and that its value has an event of every
batch that counts, is shown from the least batch for which it would fail
(`ReplayExists`, `ReplayedIs`). TLC checks `Inv` on both runs' constants.

Under `Undisturbed`, `RetriesAreFresh`, and where batches are `Apart` also
`RetriesDoNotOverlap` and `AttemptsAreNumbered`, from a second invariant,
`RetryInv`, on top of `Inv`, whose parts that need it are conditional on `Apart`. A
batch does not say how often its cases have failed, nor a row which batches will
report to it, so each of the three properties relates what one has forgotten to what
the other remembers. `History` reads a row off its events: it has counted the
re-reviews that failed, if apart each under a number of its own and none above the
count. `Retried` says of each case of a re-review batch that its row exists and
either has the batch's event or, if apart, has the batch as its next attempt.
`Holding` says that an open batch has not reported its cases and, if apart, holds
their rows, but between the two writes of the command that finalizes it and those of
the one that opens it, and that a row's latest context is the one last recorded.
`Carried` is what makes it inductive: the pool a command has computed is the one it
would compute now. TLC checks `RetryInv` on the constants of `cycle_retry`, with two
cases in a batch each, and with two new batches of one case.

**Corrections.** `TypeCorrect`, and for one command at a time `HistoriesAreChained`,
`LineageStaysBehind`, `CorrectionsAppend`, `RevisionsAreCounted`. `ChainInv` ties
what a command carries to what it read: until `WriteCorpus` the record in the
corpus is the one the correction was computed from, and the rows to be written
tell no more than the corpus will have then (`After`). The revisions are counted
from the lineage, so `RevisionInv` says that while nothing is killed the lineage
is as new as the corpus between commands, and one behind within one.

**Campaign.** `TypeCorrect`, `ListedBatchesAreWritten`, `ReviewsAreIndependent`,
`MergedAnswersAreKept`, `CompleteMeansIntegrated`, `DrawnPacketsFit`. `FillInv` follows a fill through
its kills; that slices of `BatchSize` share out the snapshot needs the ranks of
cases and a little arithmetic of division. `ReviewInv` says that the reviews on file
in a slot of a batch are one reviewer's (`OneReviewer`), and that a batch with
decisions was ready when they came and still is (`DecidedIsReady`): a merge compares
its rows with those on file, and only the adjudication looks at both slots.
`FinalInv` says that a batch which passed the
preflight keeps its decisions, since what is merged again is compared, and repairs
touch only what does not validate. `DrawnPacketsFit` needs that the size of a packet,
a fold over a set, loses exactly what a row weighs when the row is left out. Instead
of an induction, the lemmas `SumsExist`, `BytesOfSubset` and `BytesWithout` take a
counterexample with the fewest rows, unfold the fold once and get a smaller one;
`SelectionFits` is then about every selection, and `DrawnPacket` says of each packet
which selection of which offered rows it was.

**Publication.** `TypeCorrect`, `VerifiedReleasesAreWhole`, `PreflightAgrees`,
`ReferencesStayAuthorized`, `TextStaysAuthorized`, `OmissionsAreDecided`. The
inductive part is about the directory: what a build has written is given by its
step, since it began with an empty one, and a manifest lists the files of a build
that was not refused. The rest are facts about `Plan`: what its mode, its basis and
its observations are, for any manifest and decisions, and that `Effective` and
`Settled` grant the same.

**ReleaseWorkflow.** `SuccessStaysPublished`, `PlansAreNew`, `FirstAttemptsGoUp`.
`DispatchInv` says that a run that has begun has inputs, and its plan the commit of its
dispatch, `RunInv` follows the plan from job to job, `MaxInv` says that the maxima the script
takes exist, and the third part that while a run is under way for the first time no
other publishes.

**Translation.** `DecisionsHaveOneAuthor`, and under `InPlace`
`TranslatorsAreIndependent` and `CandidatesAreWhatWasShown`. Checks are made when
adjudication packets are, and not again. `ShownInv` says why this is enough: from then
on `Complete` has a row of every task in both slots, and a merge that reads it can
repeat a row and not change it; one that does not read it may not write it. Every file
of decisions has one adjudicator's, whatever it was merged from.

**Datasets.** `SplitsAreFinal`, `AppliedWasAnnotated`, `SplitsRepeat`. `RegistryInv`
says that a registry only grows, but where it is cut short, which stops splits and
commits until the committed one is checked out, and that what was released is frozen
in the committed one. `FileInv` gives records their fields and families. `StandInv`
says that every record is in the split its family is frozen in, also after a split
was killed, and after one file was checked out alone: the registry is written first
and keeps a family where its records are, and where the committed ones are. It holds
until re-reviewed records are put in by hand, and TLC shows that
`SplitCanBeRepeated` fails without that condition: records applied before a checkout
and a new split come back into their old split. `ReviewInv` says that decisions have
the text of the rows, and that there are none before the rows of both slots pass,
after which nobody annotates them; so the application, which compares only the record
with the decision, credits what was annotated, in rows that bear the reviewer's id or
none. TLC checks `Inv` on the runs' constants.

What the proofs changed in the models: the shares and modes of a record were chosen
by CASE expressions with overlapping guards, of which TLA+ takes any and TLC the
first; `Share` and `ModeOf` now decide in the order of the code. The observations a
release keeps are a set, so that the order in which a set is enumerated does not
matter. And trying to prove `InRetryIsOwned` without `Classified` failed for a
reason that TLC confirms (`RetryOutcomes` with `"legacy"` in `cycle_crash.cfg`).

**Only model-checked.** Liveness (`CorpusReturns`, `Completes`): fairness is out of
the provers' reach. What the run that expects a violation checks is false, and so are the
formulas of the known divergences.

## Not modelled

* In `Campaign`: retries of a case (they are in `BatchCycle`), `batch.json` and
  `summary.json` cut short (likewise), campaigns created over directories that
  exist, the repair manifest, and packets made one by one with `review-packet`
  and `adjudication-packet`, whose selection and merges are the same functions.
* Of collection: import exclusions, the counts of the accounting, and the refusal
  of two spellings that only compatibility normalization makes equal.
* Of releases: maturity, coverage and conflict gates, oracle hashes, statistics,
  checksums of single files, packaging; the source-policy review packets.
* Of the first protocol: dimensions of disagreement, evidence hashes, review of
  candidates and of source packets, recognition of old contracts; `merge.py`,
  `adjudication.py`.
* `_legacy_blocker`, `validate_adjudication_batch`, `migration.py`: one-off
  conversions and reports.
* The content of records and their validation: models take inputs that pass, but
  for what relates records to each other (ids, families).
* Parsers, importers, ranking, scoring, benchmarks, rendering: functions of files
  or output, with no state shared between commands.
* Two terminals in `BatchCycle` and `Corrections`: both modules can run them, but
  the code promises nothing then. `Campaign` has one maintainer.

## Plan

1. Done: `CorpusStore` with `AtomicCorpus`, `RetryPool` with `BatchCycle` and
   collection, `Corrections`, `Campaign` with the review packets, `SourcePolicy`
   with `Publication`, `ReleaseWorkflow`, `Translation`, `Datasets` with
   `Promotion` and `ReviewProtocol`.
2. Proofs. Done: every safety property the passing runs check.
3. Composition: `Campaign` over the batches of `BatchCycle`, with retries; and an
   abstract campaign (a case is open, answered, decided, settled) that `Campaign`
   implements.
4. The pure algorithms (deduplication, ranking, maturity gates), as functions
   checked against reference definitions over bounded inputs.
