----------------------------- MODULE RetryPool -----------------------------
(***************************************************************************)
(* spokenform_gold/rereview.py: the rows of the retry pool, the file       *)
(* <WORK>/state/review-exclusions.jsonl with one row for every case that   *)
(* some batch did not accept, and what events and new review contexts do   *)
(* to a row.  The module has no state: BatchCycle runs the commands that   *)
(* load, change and write the pool.                                        *)
(***************************************************************************)
EXTENDS Naturals, FiniteSets

CONSTANTS Cases,         \* the sentences under review
          LastBatch,     \* batches are 1..LastBatch, in the order of their names
          RetryBatches,  \* those of batch_kind "rereview"; the rest is "new_data"
          Contexts,      \* fingerprints of retry contexts
          None

Batches == 1 .. LastBatch

ASSUME LastBatchAssumption == LastBatch \in Nat
ASSUME RetryBatchesAssumption == RetryBatches \subseteq Batches
(***************************************************************************)
(* The outcome of a case: accepted, or the blocker its decision names.  A  *)
(* blocker is retryable or terminal, or the non-retryable one with code    *)
(* "legacy.unclassified"; "bare" is an exclusion without a blocker, or     *)
(* with one that lacks a required field, which _normalise_blocker drops.   *)
(* "unresolved" is a decision from before blockers were required, which is *)
(* read as a retryable one, and "migrated" the same with the blocker       *)
(* written into it: another decision, with another hash.                   *)
(***************************************************************************)
Blockers == {"retryable", "terminal", "legacy"}
Historical == {"unresolved", "migrated"}
Outcomes == Blockers \union Historical \union {"accept", "bare"}

States == {"needs_triage", "blocked", "ready", "in_retry_batch", "resolved",
           "terminal"}

Event == [batch : Batches, outcome : Outcomes, context : Contexts \union {None}]

Row == [state : States,
        blocker : Blockers \union {None},
        attempts : Nat,                       \* retry_attempts
        context : Contexts \union {None},     \* retry_context_hash
        latest : Contexts \union {None},      \* latest_retry_context_hash
        active : Batches \union {None},       \* active_retry_batch
        events : SUBSET Event]

ASSUME NoneAssumption ==
    None \notin Batches /\ None \notin Contexts /\ None \notin Outcomes /\ None \notin Row

\* event_hash is taken before the retry context is added to the event.
SameEvent(e, f) == e.batch = f.batch /\ e.outcome = f.outcome

\* normalize_decision_blocker.
BlockerOf(outcome) ==
    CASE outcome \in Blockers   -> outcome
      [] outcome \in Historical -> "retryable"
      [] OTHER                  -> None

StateOf(blocker) ==
    CASE blocker = "legacy"    -> "needs_triage"
      [] blocker = "retryable" -> "blocked"
      [] blocker = "terminal"  -> "terminal"

EmptyRow(event) ==
    [state |-> IF BlockerOf(event.outcome) = "retryable" THEN "blocked" ELSE "terminal",
     blocker |-> BlockerOf(event.outcome),
     attempts |-> 0,
     context |-> None,
     latest |-> None,
     active |-> None,
     events |-> {}]

\* The re-review batches among the events that ended with a retryable blocker.
FailedRetries(events) ==
    {e.batch : e \in {x \in events : x.batch \in RetryBatches
                                       /\ x.outcome = "retryable"}}

\* Mutants of Blocked: the outcome itself for the state; the number of failed
\* re-reviews is not counted again.
BlockedUnmapped(row, event) ==
    [row EXCEPT !.blocker = BlockerOf(event.outcome), !.state = event.outcome, !.active = None]

BlockedUncounted(row, event) ==
    [row EXCEPT !.blocker = BlockerOf(event.outcome),
                !.state = StateOf(BlockerOf(event.outcome)),
                !.active = None,
                !.latest = IF event.outcome = "retryable" /\ event.context # None
                             THEN event.context ELSE @]

Blocked(row, event) ==
    LET attempts == Cardinality(FailedRetries(row.events))
        blocker == BlockerOf(event.outcome)
        retryable == blocker = "retryable"
    IN  [row EXCEPT
           !.blocker = blocker,
           !.state = StateOf(blocker),
           !.active = None,
           !.attempts = IF retryable /\ attempts > @ THEN attempts ELSE @,
           !.latest = IF retryable /\ event.context # None THEN event.context
                                                           ELSE @]

\* A legacy exclusion does not override a blocker somebody classified.
ApplyNew(row, event) ==
    CASE event.outcome = "accept" -> [row EXCEPT !.state = "resolved",
                                                 !.active = None]
      [] event.outcome = "bare" -> [row EXCEPT !.state = "needs_triage"]
      [] event.outcome = "legacy" /\ row.blocker \in {"retryable", "terminal"}
           -> row
      [] OTHER -> Blocked(row, event)

\* _apply_event: an event that is there already changes nothing.
ApplyEvent(row, event) ==
    IF \E e \in row.events : SameEvent(e, event)
      THEN row
      ELSE ApplyNew([row EXCEPT !.events = @ \union {event}], event)

\* merge_retry_events for one event: it opens the row if the case has none.
Merged(row, event) ==
    ApplyEvent(IF row = None THEN EmptyRow(event) ELSE row, event)

MarkReady(row, context) ==
    IF row.blocker = "retryable"
      THEN [row EXCEPT !.context = context,
                       !.state = IF context # row.latest THEN "ready" ELSE @]
      ELSE row

RetryContextChanged(row) ==
    \/ row.context = None
    \/ row.latest = None
    \/ row.context # row.latest

\* Mutant of Selectable: a case can be selected for a second batch.
SelectableTwice(row) ==
    /\ row.state \in {"ready", "in_retry_batch"}
    /\ RetryContextChanged(row)
    /\ row.blocker = "retryable"

\* select_retry_cases
Selectable(row) ==
    /\ row.state = "ready"
    /\ row.active = None
    /\ RetryContextChanged(row)
    /\ row.blocker = "retryable"
=============================================================================
