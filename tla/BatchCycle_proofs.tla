------------------------- MODULE BatchCycle_proofs -------------------------
(***************************************************************************)
(* Proofs about BatchCycle, for any cases, observations, batches, contexts *)
(* and decisions, any number of killed commands and rebuilds, and one      *)
(* command at a time.                                                      *)
(***************************************************************************)
EXTENDS BatchCycle, FiniteSetTheorems, NaturalsInduction, TLAPS

OneTerminal == \A t, u \in Terminals : t = u

\* No re-review ends with the blocker of unclassified decisions: such an event
\* leaves the row as it is (rereview.py:380-386), in a batch that is done.
Classified == "legacy" \notin RetryOutcomes

-----------------------------------------------------------------------------
(***************************************************************************)
(* Rows of the pool.                                                       *)
(***************************************************************************)
LEMMA EmptyRowIs ==
    ASSUME NEW event \in Event
    PROVE  LET row == EmptyRow(event)
           IN  /\ row \in Row /\ row.events = {} /\ row.active = None
               /\ row.state \in {"blocked", "terminal"}
<1>1. BlockerOf(event.outcome) \in Blockers \union {None}
  BY DEF BlockerOf, Blockers
<1> QED
  BY <1>1 DEF EmptyRow, Row, States

\* A row has finitely many failed retries, so that they can be counted.
LEMMA FailedRetriesFinite ==
    ASSUME NEW events \in SUBSET Event
    PROVE  Cardinality(FailedRetries(events)) \in Nat
<1>1. FailedRetries(events) \subseteq 1 .. LastBatch
  BY DEF FailedRetries, Event, Batches
<1>2. IsFiniteSet(FailedRetries(events))
  <2>1. IsFiniteSet(1 .. LastBatch)
    BY FS_Interval, LastBatchAssumption
  <2> QED
    BY <1>1, <2>1, FS_Subset
<1> QED
  BY <1>2, FS_CardinalityType

\* A blocked row: its events stay, and it is in no batch.
LEMMA BlockedIs ==
    ASSUME NEW row \in Row, NEW event \in Event, event.outcome \in Blockers \union Historical
    PROVE  LET new == Blocked(row, event)
           IN  /\ new \in Row /\ new.events = row.events /\ new.active = None
               /\ new.state \notin {"resolved", "in_retry_batch"}
<1> DEFINE blocker == BlockerOf(event.outcome)
           attempts == Cardinality(FailedRetries(row.events))
           tries == IF blocker = "retryable" /\ attempts > row.attempts THEN attempts ELSE row.attempts
           latest == IF blocker = "retryable" /\ event.context # None THEN event.context ELSE row.latest
<1>1. blocker \in Blockers
  BY DEF BlockerOf, Blockers
<1>2. StateOf(blocker) \in {"needs_triage", "blocked", "terminal"}
  BY <1>1 DEF StateOf, Blockers
<1>3. tries \in Nat
  BY FailedRetriesFinite DEF Row
<1>4. latest \in Contexts \union {None}
  BY DEF Row, Event
<1>5. Blocked(row, event) =
        [row EXCEPT !.blocker = blocker, !.state = StateOf(blocker), !.active = None,
                    !.attempts = tries, !.latest = latest]
  BY DEF Blocked
<1> HIDE DEF blocker, tries, latest
<1>6. PICK new : new = [row EXCEPT !.blocker = blocker, !.state = StateOf(blocker), !.active = None,
                                   !.attempts = tries, !.latest = latest]
  OBVIOUS
<1>7. new \in Row
  BY <1>1, <1>2, <1>3, <1>4, <1>6 DEF Row, States
<1>8. new.events = row.events /\ new.active = None /\ new.state = StateOf(blocker)
  BY <1>6 DEF Row
<1> QED
  BY <1>2, <1>5, <1>6, <1>7, <1>8

\* A merged event is in the row, next to those that were there; it resolves
\* the row only by accepting, and leaves a row in its batch only if it says
\* nothing new or is the unclassified one.
LEMMA MergedIs ==
    ASSUME NEW row \in Row \union {None}, NEW event \in Event
    PROVE  LET old == IF row = None THEN EmptyRow(event) ELSE row
               new == Merged(row, event)
           IN  /\ new \in Row
               /\ old.events \subseteq new.events /\ new.events \subseteq old.events \union {event}
               /\ \E e \in new.events : e.batch = event.batch
               /\ new.active \in {None, old.active}
               /\ new.state = "resolved" => old.state = "resolved" \/ event.outcome = "accept"
               /\ new.state = "in_retry_batch" =>
                    /\ old.state = "in_retry_batch" /\ new.active = old.active
                    /\ \/ event.outcome = "legacy"
                       \/ \E e \in old.events : e.batch = event.batch
<1> DEFINE old == IF row = None THEN EmptyRow(event) ELSE row
           new == Merged(row, event)
           added == [old EXCEPT !.events = old.events \union {event}]
<1>1. old \in Row
  BY EmptyRowIs
<1>2. new = IF \E e \in old.events : SameEvent(e, event) THEN old ELSE ApplyNew(added, event)
  BY DEF Merged, ApplyEvent
<1> HIDE DEF old, new
<1>3. CASE \E e \in old.events : SameEvent(e, event)
  BY <1>1, <1>2, <1>3 DEF SameEvent, old, new
<1>4. CASE ~ \E e \in old.events : SameEvent(e, event)
  <2>1. /\ added \in Row /\ added.events = old.events \union {event}
        /\ added.active = old.active /\ added.state = old.state
    BY <1>1 DEF Row
  <2> HIDE DEF added
  <2>2. new = ApplyNew(added, event)
    BY <1>2, <1>4
  <2>3. event.outcome \in Blockers \union Historical \union {"accept", "bare"}
    BY DEF Event, Outcomes
  <2>4. CASE event.outcome = "accept"
    <3>1. new = [added EXCEPT !.state = "resolved", !.active = None]
      BY <2>2, <2>4 DEF ApplyNew
    <3>2. /\ new \in Row /\ new.events = added.events /\ new.active = None
          /\ new.state = "resolved"
      BY <2>1, <3>1 DEF Row, States
    <3> QED
      BY <1>1, <2>1, <2>4, <3>2 DEF old, new
  <2>5. CASE event.outcome = "bare"
    <3>1. new = [added EXCEPT !.state = "needs_triage"]
      BY <2>2, <2>5 DEF ApplyNew
    <3>2. /\ new \in Row /\ new.events = added.events /\ new.active = added.active
          /\ new.state = "needs_triage"
      BY <2>1, <3>1 DEF Row, States
    <3> QED
      BY <1>1, <2>1, <3>2 DEF old, new
  <2>6. CASE event.outcome = "legacy" /\ added.blocker \in {"retryable", "terminal"}
    <3>1. new = added
      BY <2>2, <2>6 DEF ApplyNew
    <3> QED
      BY <1>1, <2>1, <2>6, <3>1 DEF old, new
  <2>7. CASE /\ event.outcome \notin {"accept", "bare"}
             /\ ~ (event.outcome = "legacy" /\ added.blocker \in {"retryable", "terminal"})
    <3>1. new = Blocked(added, event)
      BY <2>2, <2>7 DEF ApplyNew
    <3>2. /\ new \in Row /\ new.events = added.events /\ new.active = None
          /\ new.state \notin {"resolved", "in_retry_batch"}
      BY <2>1, <2>3, <2>7, <3>1, BlockedIs
    <3> QED
      BY <1>1, <2>1, <3>2 DEF old, new
  <2> QED
    BY <2>4, <2>5, <2>6, <2>7
<1> QED
  BY <1>3, <1>4

-----------------------------------------------------------------------------
(***************************************************************************)
(* Replayed is a recursive function; that there is such a function, and    *)
(* what its values are, follows from the least batch where it would fail.  *)
(***************************************************************************)
LEMMA LeastNumber ==
    ASSUME NEW S \in SUBSET Nat, S # {}
    PROVE  \E m \in S : \A k \in S : m <= k
<1>1. \E m \in S : \A k \in S : <<k, m>> \notin OpToRel(<, Nat)
  BY NatLessThanWellFounded, WFMin
<1>2. PICK m \in S : \A k \in S : <<k, m>> \notin OpToRel(<, Nat)
  BY <1>1
<1>3. \A k \in S : ~(k < m)
  BY <1>2 DEF OpToRel
<1>4. ASSUME NEW k \in S PROVE m <= k
  <2>1. k \in Int /\ m \in Int /\ ~(k < m)
    BY <1>3
  <2> QED
    BY <2>1
<1> QED
  BY <1>4

\* The least of a set of numbers is one of them.
LEMMA MinIs ==
    ASSUME NEW S \in SUBSET Nat, S # {}
    PROVE  Min(S) \in S
BY LeastNumber DEF Min

\* What a batch does to the row of a case, in a rebuild.
Counts(b, c) ==
    stage[b] \in {"open", "finalized"} /\ Decided(b) /\ c \in MembersOf(b) \ Accepted(b)

Bare(b, c) == [EventOf(b, c) EXCEPT !.context = None]

Replay(c, row) ==
    [b \in 0 .. LastBatch |->
       IF b = 0 THEN None
       ELSE IF Counts(b, c) THEN Merged(row[b - 1], Bare(b, c)) ELSE row[b - 1]]

\* There is a function that replays the events of a case: a least batch at
\* which none exists would have one before it, which can be extended.
LEMMA ReplayExists ==
    ASSUME NEW c
    PROVE  \E row : row = Replay(c, row)
<1> DEFINE Upto(n, row) ==
             row = [b \in 0 .. n |->
                      IF b = 0 THEN None
                      ELSE IF Counts(b, c) THEN Merged(row[b - 1], Bare(b, c)) ELSE row[b - 1]]
           Fails == {n \in Nat : ~ \E row : Upto(n, row)}
<1>1. ASSUME Fails # {} PROVE FALSE
  <2>1. PICK n \in Fails : \A k \in Fails : n <= k
    BY <1>1, LeastNumber
  <2>2. CASE n = 0
    <3> DEFINE none == [b \in 0 .. 0 |-> None]
    <3>1. \A b \in 0 .. 0 : b = 0
      OBVIOUS
    <3>2. none = [b \in 0 .. 0 |->
                    IF b = 0 THEN None
                    ELSE IF Counts(b, c) THEN Merged(none[b - 1], Bare(b, c)) ELSE none[b - 1]]
      BY <3>1
    <3>3. Upto(0, none)
      BY <3>2
    <3> QED
      BY <2>1, <2>2, <3>3
  <2>3. CASE n # 0
    <3>1. n \in Nat /\ n - 1 \in Nat /\ n - 1 \notin Fails
      BY <2>1, <2>3
    <3>2. PICK row : Upto(n - 1, row)
      BY <3>1
    <3> DEFINE last == IF Counts(n, c) THEN Merged(row[n - 1], Bare(n, c)) ELSE row[n - 1]
               more == [b \in 0 .. n |-> IF b = n THEN last ELSE row[b]]
    <3>3. \A b \in 0 .. n - 1 : more[b] = row[b]
      BY <3>1
    <3>4. \A b \in 0 .. n : b # 0 => b - 1 \in 0 .. n - 1
      BY <3>1
    <3> HIDE DEF last
    <3>5. \A b \in 0 .. n : more[b] = IF b = 0 THEN None
                                      ELSE IF Counts(b, c) THEN Merged(more[b - 1], Bare(b, c))
                                      ELSE more[b - 1]
      <4> TAKE b \in 0 .. n
      <4>1. CASE b = n
        BY <2>3, <3>1, <3>3, <3>4, <4>1 DEF last
      <4>2. CASE b # n
        <5>1. b \in 0 .. n - 1
          BY <3>1, <4>2
        <5>2. row[b] = IF b = 0 THEN None
                       ELSE IF Counts(b, c) THEN Merged(row[b - 1], Bare(b, c)) ELSE row[b - 1]
          BY <3>2, <5>1
        <5> QED
          BY <3>3, <3>4, <5>1, <5>2
      <4> QED
        BY <4>1, <4>2
    <3>6. Upto(n, more)
      <4>1. more = [b \in 0 .. n |-> more[b]]
        OBVIOUS
      <4> HIDE DEF more
      <4> QED
        BY <3>5, <4>1
    <3> QED
      BY <2>1, <3>6
  <2> QED
    BY <2>2, <2>3
<1>2. \E row : Upto(LastBatch, row)
  BY <1>1, LastBatchAssumption
<1> QED
  BY <1>2 DEF Replay

\* The events a rebuild puts in a case's row.
Events(c) == {Bare(b, c) : b \in {x \in Batches : Counts(x, c)}}

\* The event a rebuild finds in a decided batch.
LEMMA BareIs ==
    ASSUME NEW c \in Cases, NEW b \in Batches, Counts(b, c),
           decision \in [Batches -> [Cases -> Outcomes \union {None}]],
           members \in [Batches -> [Cases -> Member \union {None}]]
    PROVE  Bare(b, c) \in Event /\ Bare(b, c).batch = b /\ Bare(b, c).outcome # "accept"
<1>1. c \in MembersOf(b) /\ c \notin Accepted(b) /\ Decided(b)
  BY DEF Counts
<1>2. decision[b][c] \in Outcomes /\ decision[b][c] # "accept"
  BY <1>1 DEF Decided, Accepted
<1>3. Bare(b, c) = [batch |-> b, outcome |-> decision[b][c], context |-> None]
  BY DEF Bare, EventOf
<1> QED
  BY <1>2, <1>3 DEF Event

\* A rebuilt row has the event of every batch that counts, and no others; it
\* is in no batch, and not resolved.
LEMMA ReplayedIs ==
    ASSUME NEW c \in Cases,
           decision \in [Batches -> [Cases -> Outcomes \union {None}]],
           members \in [Batches -> [Cases -> Member \union {None}]]
    PROVE  LET row == Replayed(c)
           IN  /\ row # None =>
                    /\ row \in Row /\ row.events # {} /\ row.active = None
                    /\ row.state \notin {"resolved", "in_retry_batch"}
                    /\ \A e \in row.events : Counts(e.batch, c)
               /\ \A b \in Batches : Counts(b, c) =>
                    row # None /\ \E e \in row.events : e.batch = b
<1> DEFINE row == CHOOSE r : r = Replay(c, r)
           Sound(r, n) ==
             /\ r # None =>
                  /\ r \in Row /\ r.events # {} /\ r.active = None
                  /\ r.state \notin {"resolved", "in_retry_batch"}
                  /\ \A e \in r.events : Counts(e.batch, c)
             /\ \A b \in 1 .. n : Counts(b, c) => r # None /\ \E e \in r.events : e.batch = b
           Fails == {n \in 0 .. LastBatch : ~ Sound(row[n], n)}
<1>1. Replayed(c) = row[LastBatch]
  BY DEF Replayed, Replay, Counts, Bare
<1>2. row = Replay(c, row)
  BY ReplayExists
<1> HIDE DEF row
<1>3. \A b \in 0 .. LastBatch :
        row[b] = IF b = 0 THEN None
                 ELSE IF Counts(b, c) THEN Merged(row[b - 1], Bare(b, c)) ELSE row[b - 1]
  <2> DEFINE new == Replay(c, row)
  <2>1. \A b \in 0 .. LastBatch :
          new[b] = IF b = 0 THEN None
                   ELSE IF Counts(b, c) THEN Merged(row[b - 1], Bare(b, c)) ELSE row[b - 1]
    BY DEF Replay
  <2> HIDE DEF new
  <2>2. row = new
    BY <1>2 DEF new
  <2> QED
    BY <2>1, <2>2
<1>4. ASSUME Fails # {} PROVE FALSE
  <2>1. PICK n \in Fails : \A k \in Fails : n <= k
    <3>1. Fails \in SUBSET Nat
      OBVIOUS
    <3> HIDE DEF Fails
    <3> QED
      BY <1>4, <3>1, LeastNumber
  <2>2. n \in 0 .. LastBatch /\ ~ Sound(row[n], n)
    OBVIOUS
  <2>3. n # 0
    <3>1. row[0] = None
      <4> HIDE DEF Fails, Sound
      <4>1. 0 \in 0 .. LastBatch
        BY LastBatchAssumption
      <4> QED
        BY <1>3, <4>1
    <3>2. Sound(None, 0)
      OBVIOUS
    <3> QED
      BY <2>2, <3>1, <3>2
  <2>4. n \in Batches /\ n - 1 \in 0 .. LastBatch /\ n - 1 \notin Fails
    BY <2>1, <2>2, <2>3, LastBatchAssumption DEF Batches
  <2>5. Sound(row[n - 1], n - 1)
    BY <2>4
  <2> DEFINE old == row[n - 1]
             new == row[n]
  <2> HIDE DEF Fails, Sound, old, new
  <2>6. new = IF Counts(n, c) THEN Merged(old, Bare(n, c)) ELSE old
    BY <1>3, <2>2, <2>3 DEF old, new
  <2>7. \A b \in 1 .. n : b = n \/ b \in 1 .. n - 1
    BY <2>4 DEF Batches
  <2>8. CASE ~ Counts(n, c)
    <3>1. Sound(old, n)
      BY <2>5, <2>7, <2>8 DEF Sound, old
    <3> QED
      BY <2>2, <2>6, <2>8, <3>1 DEF new
  <2>9. CASE Counts(n, c)
    <3> DEFINE event == Bare(n, c)
               start == IF old = None THEN EmptyRow(event) ELSE old
    <3>1. event \in Event /\ event.batch = n /\ event.outcome # "accept"
      BY <2>4, <2>9, BareIs
    <3> HIDE DEF event
    <3>2. /\ old # None =>
               /\ old \in Row /\ old.events # {} /\ old.active = None
               /\ old.state \notin {"resolved", "in_retry_batch"}
               /\ \A e \in old.events : Counts(e.batch, c)
          /\ \A b \in 1 .. n - 1 : Counts(b, c) => old # None /\ \E e \in old.events : e.batch = b
      BY <2>5 DEF Sound, old
    <3>3. /\ start.active = None /\ start.state \notin {"resolved", "in_retry_batch"}
          /\ \A e \in start.events : Counts(e.batch, c)
          /\ \A b \in 1 .. n - 1 : Counts(b, c) => \E e \in start.events : e.batch = b
      BY <3>1, <3>2, EmptyRowIs
    <3>4. /\ new \in Row
          /\ start.events \subseteq new.events /\ new.events \subseteq start.events \union {event}
          /\ \E e \in new.events : e.batch = event.batch
          /\ new.active \in {None, start.active}
          /\ new.state = "resolved" => start.state = "resolved" \/ event.outcome = "accept"
          /\ new.state = "in_retry_batch" => start.state = "in_retry_batch"
      BY <2>6, <2>9, <3>1, <3>2, MergedIs DEF event
    <3> HIDE DEF start
    <3>5. new # None
      BY <3>4, NoneAssumption
    <3>6. Sound(new, n)
      BY <2>7, <2>9, <3>1, <3>3, <3>4, <3>5 DEF Sound
    <3> QED
      BY <2>2, <3>6 DEF new
  <2> QED
    BY <2>8, <2>9
<1>5. Sound(row[LastBatch], LastBatch)
  BY <1>4, LastBatchAssumption
<1> QED
  BY <1>1, <1>5 DEF Batches

-----------------------------------------------------------------------------
(***************************************************************************)
(* The invariant.  ms, ds, st and g stand for members, decision, stage and *)
(* gold: what holds of the pool holds of the rows a command is about to    *)
(* store.                                                                  *)
(***************************************************************************)
Worked == {"open", "finalized", Torn}

\* The events of a row are of batches that have the case; a row that is in a
\* batch is in one that is there; a resolved row has a record.
Grounded(c, row, ms, st, g) ==
    /\ row.events # {}
    /\ \A e \in row.events : ms[e.batch][c] # None /\ st[e.batch] \in Worked
    /\ row.active # None => st[row.active] \in Worked
    /\ row.state = "resolved" => g[c] # None

\* A row in a re-review batch is in one that still has to report it.
Owned(c, row, ms, st) ==
    row.state = "in_retry_batch" =>
        /\ row.active \in RetryBatches
        /\ ms[row.active][c] # None
        /\ st[row.active] \in {"open", Torn}
        /\ \A e \in row.events : e.batch # row.active

\* The rows have the events of the batch.
Covered(rows, b, ms, ds) ==
    \A c \in Cases : ms[b][c] # None /\ ds[b][c] # "accept" =>
        rows[c] # None /\ \E e \in rows[c].events : e.batch = b

Sound(rows, ms, ds, st, g) ==
    /\ rows \in Pool
    /\ \A c \in Cases : rows[c] # None =>
         /\ Grounded(c, rows[c], ms, st, g)
         /\ Classified => Owned(c, rows[c], ms, st)
    /\ \A b \in Batches : st[b] = "finalized" => Covered(rows, b, ms, ds)

PoolInv == Sound(pool, members, decision, stage, gold)

\* The batch has been decided, and can be integrated.
Settled(b) == Decided(b) /\ \A c \in MembersOf(b) : decision[b][c] # "unresolved"

InGold(b) == \A c \in Accepted(b) : gold[c] # None

BatchInv ==
    /\ \A b \in Batches :
         stage[b] = "finalized" \/ summary[b].state \in {"integrated", "finalized"} =>
             stage[b] \in Worked /\ Settled(b) /\ InGold(b)
    /\ \A b \in Batches, c \in Cases : decision[b][c] # None =>
         /\ members[b][c] # None /\ stage[b] \in Worked
         /\ b \in RetryBatches => decision[b][c] \in RetryOutcomes

Commands == {"none", "create", "integrate", "finalize", "retry", "ready", "rebuild"}
Steps == {"idle", "corpus", "summary", "load", "store", "metadata", "final", "files"}
Job == [command : Commands, step : Steps, batch : Batches \union {None},
        corpus : Corpus \union {None},
        rows : Pool \union [Cases -> Member \union {None}] \union {None}]

TypeInv ==
    /\ gold \in Corpus
    /\ stage \in [Batches -> {"absent", "partial", "empty", "open", "finalized", Torn}]
    /\ members \in [Batches -> [Cases -> Member \union {None}]]
    /\ decision \in [Batches -> [Cases -> Outcomes \union {None}]]
    /\ summary \in [Batches -> [state : {"absent", "integrated", "finalized", Torn},
                                corpus : Corpus \union {None}]]
    /\ job \in [Terminals -> Job]
    /\ failed \in [Cases -> Contexts \union {None}]
    /\ crashes \in Nat /\ rebuilds \in Nat

\* The rows with the chosen ones put in batch b.
Chosen(chosen, b) ==
    [c \in Cases |-> IF c \in chosen THEN [pool[c] EXCEPT !.state = "in_retry_batch", !.active = b]
                     ELSE pool[c]]

\* The rows hold what the batch decided, and none is in it any more.
Reported(rows, b) ==
    /\ Covered(rows, b, members, decision)
    /\ Classified =>
         \A c \in Cases : rows[c] # None /\ rows[c].state = "in_retry_batch" => rows[c].active # b

(***************************************************************************)
(* What a command has read or written so far is still so: nothing else     *)
(* writes while it runs.                                                   *)
(***************************************************************************)
Underway(j) ==
    /\ j.step = "files" =>
         /\ j.batch \in Batches /\ stage[j.batch] = "absent"
         /\ \/ j.command = "create" /\ j.rows \in [Cases -> Member \union {None}]
            \/ /\ j.command = "retry" /\ j.batch \in RetryBatches
               /\ \E chosen \in SUBSET {c \in Cases : pool[c] # None} : j.rows = Chosen(chosen, j.batch)
    /\ j.step \in {"corpus", "summary", "load", "metadata", "final"} \/ (j.step = "store" /\ j.command = "finalize") =>
         /\ j.batch \in Batches /\ j.corpus \in Corpus
         /\ stage[j.batch] \in {"open", "finalized"} /\ Settled(j.batch)
         /\ j.step # "corpus" => InGold(j.batch)
    /\ j.step = "corpus" => j.corpus = Combined(j.batch)
    /\ j.step = "store" =>
         /\ Sound(j.rows, members, decision, stage, gold)
         /\ j.command = "finalize" => Reported(j.rows, j.batch)
    /\ j.step = "metadata" => Reported(pool, j.batch)

JobInv == \A t \in Terminals : Underway(job[t])

Inv == TypeInv /\ BatchInv /\ PoolInv /\ JobInv

-----------------------------------------------------------------------------
(***************************************************************************)
(* What keeps the invariant.                                               *)
(***************************************************************************)
\* Rows stay sound as long as batches only come, and records too.
LEMMA SoundStays ==
    ASSUME NEW rows, NEW ms, NEW ds, NEW st, NEW g, NEW ms2, NEW ds2, NEW st2, NEW g2,
           Sound(rows, ms, ds, st, g),
           \A b \in Batches : st[b] \in Worked => st2[b] \in Worked /\ ms2[b] = ms[b],
           \A b \in Batches : st[b] \in {"open", Torn} => st2[b] \in {"open", Torn},
           \A b \in Batches : st2[b] = "finalized" =>
             st[b] = "finalized" /\ \A c \in Cases : ds2[b][c] = "accept" <=> ds[b][c] = "accept",
           \A c \in Cases : g[c] # None => g2[c] # None
    PROVE  Sound(rows, ms2, ds2, st2, g2)
<1>1. ASSUME NEW c \in Cases, rows[c] # None
      PROVE  Grounded(c, rows[c], ms2, st2, g2) /\ (Classified => Owned(c, rows[c], ms2, st2))
  <2>1. rows[c] \in Row /\ Grounded(c, rows[c], ms, st, g) /\ (Classified => Owned(c, rows[c], ms, st))
    BY <1>1 DEF Sound, Pool
  <2> DEFINE row == rows[c]
  <2> HIDE DEF row
  <2>2. row \in Row /\ Grounded(c, row, ms, st, g) /\ (Classified => Owned(c, row, ms, st))
    BY <2>1 DEF row
  <2>3. \A e \in row.events : e.batch \in Batches
    BY <2>2 DEF Row, Event
  <2>4. row.active # None => row.active \in Batches
    BY <2>2 DEF Row
  <2>5. Grounded(c, row, ms2, st2, g2)
    BY <2>2, <2>3, <2>4 DEF Grounded
  <2>6. ASSUME Classified PROVE Owned(c, row, ms2, st2)
    <3>1. Owned(c, row, ms, st)
      BY <2>2, <2>6
    <3>2. {"open", Torn} \subseteq Worked
      BY DEF Worked
    <3> QED
      BY <3>1, <3>2, RetryBatchesAssumption DEF Owned
  <2> QED
    BY <2>5, <2>6 DEF row
<1>2. ASSUME NEW b \in Batches, st2[b] = "finalized" PROVE Covered(rows, b, ms2, ds2)
  <2>1. st[b] = "finalized" /\ st[b] \in Worked
    BY <1>2 DEF Worked
  <2>2. Covered(rows, b, ms, ds)
    BY <2>1 DEF Sound
  <2> QED
    BY <1>2, <2>1, <2>2 DEF Covered
<1> QED
  BY <1>1, <1>2 DEF Sound

\* The pool stays sound as long as batches and records only come.
LEMMA SoundNext ==
    ASSUME NEW rows, Sound(rows, members, decision, stage, gold),
           \A b \in Batches : stage[b] \in Worked => stage'[b] \in Worked /\ members'[b] = members[b],
           \A b \in Batches : stage[b] \in {"open", Torn} => stage'[b] \in {"open", Torn},
           \A b \in Batches : stage'[b] = "finalized" =>
             /\ stage[b] = "finalized"
             /\ \A c \in Cases : decision'[b][c] = "accept" <=> decision[b][c] = "accept",
           \A c \in Cases : gold[c] # None => gold'[c] # None
    PROVE  Sound(rows, members', decision', stage', gold')
<1>1. \A ms, ds, st, g, ms2, ds2, st2, g2 :
        /\ Sound(rows, ms, ds, st, g)
        /\ \A b \in Batches : st[b] \in Worked => st2[b] \in Worked /\ ms2[b] = ms[b]
        /\ \A b \in Batches : st[b] \in {"open", Torn} => st2[b] \in {"open", Torn}
        /\ \A b \in Batches : st2[b] = "finalized" =>
             st[b] = "finalized" /\ \A c \in Cases : ds2[b][c] = "accept" <=> ds[b][c] = "accept"
        /\ \A c \in Cases : g[c] # None => g2[c] # None
        => Sound(rows, ms2, ds2, st2, g2)
  BY SoundStays
<1> QED
  BY <1>1, SMTT(60)

\* While batches that are settled stay as they are and records stay, what
\* holds of batches holds on.
LEMMA SettledStays ==
    ASSUME NEW b \in Batches, Settled(b), members'[b] = members[b], decision'[b] = decision[b]
    PROVE  Settled(b)' /\ (InGold(b) /\ (\A c \in Cases : gold[c] # None => gold'[c] # None) => InGold(b)')
<1>1. MembersOf(b)' = MembersOf(b)
  BY DEF MembersOf
<1>2. Accepted(b)' = Accepted(b) /\ Accepted(b) \subseteq Cases
  BY <1>1 DEF Accepted, MembersOf
<1> QED
  BY <1>1, <1>2 DEF Settled, Decided, InGold

\* One command at a time.
LEMMA OnlyJob ==
    ASSUME OneTerminal, NEW t \in Terminals, Underway(job[t])'
    PROVE  JobInv'
BY DEF OneTerminal, JobInv

\* A command that goes to its next step keeps what it has read.
LEMMA GotoIs ==
    ASSUME job \in [Terminals -> Job], NEW t \in Terminals, NEW step \in Steps, Goto(t, step)
    PROVE  /\ job' \in [Terminals -> Job]
           /\ job'[t].step = step
           /\ job'[t].command = job[t].command /\ job'[t].batch = job[t].batch
           /\ job'[t].corpus = job[t].corpus /\ job'[t].rows = job[t].rows
<1>1. job[t] \in Job
  OBVIOUS
<1>2. job' = [job EXCEPT ![t] = [job[t] EXCEPT !.step = step]]
  BY DEF Goto
<1>3. [job[t] EXCEPT !.step = step] \in Job
  BY <1>1 DEF Job
<1> QED
  BY <1>1, <1>2, <1>3 DEF Job

\* A terminal without a command.
LEMMA IdleIs == Idle \in Job /\ Idle.step = "idle"
BY DEF Idle, Job, Commands, Steps

\* A command that returns leaves nothing underway.
LEMMA ReturnIs ==
    ASSUME job \in [Terminals -> Job], NEW t \in Terminals, Return(t)
    PROVE  job' \in [Terminals -> Job] /\ job'[t] = Idle /\ Underway(job[t])'
<1>1. job' \in [Terminals -> Job] /\ job'[t] = Idle
  BY IdleIs DEF Return
<1> QED
  BY <1>1, IdleIs DEF Underway

\* A step that changes neither batches nor stores changes only the job.
LEMMA JobStep ==
    ASSUME Inv, OneTerminal, NEW t \in Terminals, job' \in [Terminals -> Job], Underway(job[t])',
           UNCHANGED <<gold, pool, batches, failed, crashes>>, rebuilds' \in Nat
    PROVE  Inv'
<1>1. TypeInv'
  BY DEF Inv, TypeInv, batches
<1>2. BatchInv' /\ PoolInv'
  BY DEF Inv, BatchInv, PoolInv, batches, Settled, InGold, Decided, Accepted, MembersOf
<1>3. JobInv'
  BY OnlyJob
<1> QED
  BY <1>1, <1>2, <1>3 DEF Inv

-----------------------------------------------------------------------------
(***************************************************************************)
(* Reviewers and adjudicators: the decision of a batch that is not settled *)
(* may change.                                                             *)
(***************************************************************************)
LEMMA ReviewStep ==
    ASSUME Inv, NEW b \in Batches, ~Settled(b), NEW new \in [Cases -> Outcomes \union {None}],
           stage[b] \in Worked,
           \A c \in Cases : new[c] # None =>
             members[b][c] # None /\ (b \in RetryBatches => new[c] \in RetryOutcomes),
           decision' = [decision EXCEPT ![b] = new],
           UNCHANGED <<gold, pool, stage, members, summary, job, failed, crashes, rebuilds>>
    PROVE  Inv'
<1>0. decision \in [Batches -> [Cases -> Outcomes \union {None}]]
  BY DEF Inv, TypeInv
<1>1. TypeInv'
  BY <1>0 DEF Inv, TypeInv
<1>2. \A a \in Batches : a # b => decision'[a] = decision[a] /\ members'[a] = members[a]
  BY <1>0
<1>3. BatchInv'
  <2>1. ASSUME NEW a \in Batches,
               stage'[a] = "finalized" \/ summary'[a].state \in {"integrated", "finalized"}
        PROVE  stage'[a] \in Worked /\ Settled(a)' /\ InGold(a)'
    <3>1. stage[a] \in Worked /\ Settled(a) /\ InGold(a)
      BY <2>1 DEF Inv, BatchInv
    <3> QED
      BY <1>2, <3>1, SettledStays
  <2>2. \A a \in Batches, c \in Cases : decision'[a][c] # None =>
          /\ members'[a][c] # None /\ stage'[a] \in Worked
          /\ a \in RetryBatches => decision'[a][c] \in RetryOutcomes
    BY <1>0 DEF Inv, BatchInv
  <2> QED
    BY <2>1, <2>2 DEF BatchInv
<1>4. ASSUME NEW rows, Sound(rows, members, decision, stage, gold)
      PROVE  Sound(rows, members', decision', stage', gold')
  <2>1. \A a \in Batches : stage[a] = "finalized" => a # b
    BY DEF Inv, BatchInv
  <2>2. \A a \in Batches : stage'[a] = "finalized" =>
          /\ stage[a] = "finalized"
          /\ \A c \in Cases : decision'[a][c] = "accept" <=> decision[a][c] = "accept"
    BY <1>2, <2>1
  <2>3. \A a \in Batches : stage[a] \in Worked => stage'[a] \in Worked /\ members'[a] = members[a]
    OBVIOUS
  <2>4. \A a \in Batches : stage[a] \in {"open", Torn} => stage'[a] \in {"open", Torn}
    OBVIOUS
  <2>5. \A c \in Cases : gold[c] # None => gold'[c] # None
    OBVIOUS
  <2> QED
    BY <1>4, <2>2, <2>3, <2>4, <2>5, SoundNext
<1>5. PoolInv'
  BY <1>4 DEF Inv, PoolInv
<1>6. ASSUME NEW t \in Terminals PROVE Underway(job[t])'
  <2>1. PICK j : j = job[t]
    OBVIOUS
  <2>2. Underway(j) /\ job'[t] = j
    BY <2>1 DEF Inv, JobInv
  <2>3. CASE /\ j.step \notin {"corpus", "summary", "load", "metadata", "final"}
             /\ ~ (j.step = "store" /\ j.command = "finalize")
    <3>1. j.step = "store" => Sound(j.rows, members', decision', stage', gold')
      BY <1>4, <2>2 DEF Underway
    <3>2. \A chosen, a : Chosen(chosen, a)' = Chosen(chosen, a)
      BY DEF Chosen
    <3>3. Underway(j)'
      BY <2>2, <2>3, <3>1, <3>2 DEF Underway
    <3> QED
      BY <2>2, <3>3
  <2>4. CASE \/ j.step \in {"corpus", "summary", "load", "metadata", "final"}
             \/ j.step = "store" /\ j.command = "finalize"
    <3>1. PICK a : a = j.batch
      OBVIOUS
    <3>2. a \in Batches /\ Settled(a) /\ a # b
      BY <2>2, <2>4, <3>1 DEF Underway
    <3>3. decision'[a] = decision[a] /\ members'[a] = members[a]
      BY <1>2, <3>2
    <3>4. Settled(a)' /\ (InGold(a) => InGold(a)')
      BY <3>2, <3>3, SettledStays
    <3>5. Combined(a)' = Combined(a)
      BY <3>3 DEF Combined, Accepted, MembersOf, AcceptedRecord
    <3>6. \A rows : Reported(rows, a) => Reported(rows, a)'
      BY <3>3 DEF Reported, Covered
    <3>7. j.step # "files"
      BY <2>4
    <3>8. a \in Batches /\ j.corpus \in Corpus /\ stage'[a] \in {"open", "finalized"} /\ Settled(a)'
          /\ (j.step # "corpus" => InGold(a)')
      BY <2>2, <2>4, <3>1, <3>2, <3>4 DEF Underway
    <3>9. j.step = "corpus" => j.corpus = Combined(a)'
      BY <2>2, <3>1, <3>5 DEF Underway
    <3>10. j.step = "store" => Sound(j.rows, members', decision', stage', gold')
      BY <1>4, <2>2 DEF Underway
    <3>11. j.step = "store" => (j.command = "finalize" => Reported(j.rows, a)')
      BY <2>2, <3>1, <3>6 DEF Underway
    <3>12. j.step = "metadata" => Reported(pool, a)'
      BY <2>2, <3>1, <3>6 DEF Underway, Reported
    <3>13. Underway(j)'
      BY <3>1, <3>7, <3>8, <3>9, <3>10, <3>11, <3>12 DEF Underway
    <3> QED
      BY <2>2, <3>13
  <2> QED
    BY <2>3, <2>4
<1> QED
  BY <1>1, <1>3, <1>5, <1>6 DEF Inv, JobInv

\* New decisions are of an open batch, which no running command has read.
LEMMA AdjudicateStep ==
    ASSUME Inv, NEW b \in Batches, Adjudicate(b)
    PROVE  Inv'
<1>1. PICK outcome \in [MembersOf(b) ->
                          CASE b \in RetryBatches -> RetryOutcomes
                            [] b \in OldBatches -> (NewOutcomes \ Blockers) \union {"unresolved"}
                            [] OTHER -> NewOutcomes] :
        decision' = [decision EXCEPT
                       ![b] = [c \in Cases |-> IF c \in MembersOf(b) THEN outcome[c] ELSE None]]
  BY DEF Adjudicate
<1> DEFINE new == [c \in Cases |-> IF c \in MembersOf(b) THEN outcome[c] ELSE None]
<1>2. \A c \in MembersOf(b) : /\ c \in Cases /\ members[b][c] # None
                              /\ outcome[c] \in Outcomes
                              /\ b \in RetryBatches => outcome[c] \in RetryOutcomes
  <2>1. b \in OldBatches => b \notin RetryBatches
    BY OldBatchesAssumption DEF NewBatches
  <2>2. "unresolved" \in Outcomes
    BY DEF Outcomes, Historical
  <2>3. CASE b \in RetryBatches
    BY <2>1, <2>3, OutcomesAssumption DEF MembersOf
  <2>4. CASE b \in OldBatches
    BY <2>1, <2>2, <2>4, OutcomesAssumption DEF MembersOf
  <2>5. CASE b \notin RetryBatches /\ b \notin OldBatches
    BY <2>5, OutcomesAssumption DEF MembersOf
  <2> QED
    BY <2>3, <2>4, <2>5
<1>3. /\ new \in [Cases -> Outcomes \union {None}]
      /\ \A c \in Cases : new[c] # None =>
           members[b][c] # None /\ (b \in RetryBatches => new[c] \in RetryOutcomes)
  BY <1>2
<1> HIDE DEF new
<1>4. ~Settled(b) /\ stage[b] \in Worked
  BY DEF Adjudicate, Settled, Worked
<1>5. decision' = [decision EXCEPT ![b] = new]
  BY <1>1 DEF new
<1>6. UNCHANGED <<gold, pool, stage, members, summary, job, failed, crashes, rebuilds>>
  BY DEF Adjudicate
<1> QED
  BY <1>3, <1>4, <1>5, <1>6, ReviewStep

\* Migrated decisions are of a batch that is not integrated yet.
LEMMA MigrateStep ==
    ASSUME Inv, NEW b \in Batches, Migrate(b)
    PROVE  Inv'
<1> DEFINE new == [c \in Cases |-> IF decision[b][c] = "unresolved" THEN "migrated"
                                   ELSE decision[b][c]]
<1>1. decision \in [Batches -> [Cases -> Outcomes \union {None}]]
  BY DEF Inv, TypeInv
<1>2. b \notin RetryBatches
  BY OldBatchesAssumption DEF Migrate, NewBatches
<1>3. new \in [Cases -> Outcomes \union {None}]
  BY <1>1 DEF Outcomes, Historical
<1>4. PICK c \in MembersOf(b) : decision[b][c] = "unresolved"
  BY DEF Migrate
<1>5. decision[b][c] # None /\ c \in Cases
  BY <1>4, NoneAssumption DEF Outcomes, Historical, MembersOf
<1>6. stage[b] \in Worked /\ ~Settled(b)
  BY <1>4, <1>5 DEF Inv, BatchInv, Settled
<1>7. \A x \in Cases : new[x] # None =>
        members[b][x] # None /\ (b \in RetryBatches => new[x] \in RetryOutcomes)
  <2> SUFFICES ASSUME NEW x \in Cases, new[x] # None PROVE members[b][x] # None
    BY <1>2
  <2>1. decision[b][x] # None
    BY <1>1, NoneAssumption DEF Outcomes, Historical
  <2> QED
    BY <2>1 DEF Inv, BatchInv
<1>8. decision' = [decision EXCEPT ![b] = new]
  BY <1>1 DEF Migrate
<1>9. UNCHANGED <<gold, pool, stage, members, summary, job, failed, crashes, rebuilds>>
  BY DEF Migrate
<1> HIDE DEF new
<1> QED
  BY <1>3, <1>6, <1>7, <1>8, <1>9, ReviewStep

-----------------------------------------------------------------------------
(***************************************************************************)
(* batch-create.                                                           *)
(***************************************************************************)
LEMMA CollectedIs ==
    ASSUME NEW b \in NewBatches, NEW c \in Selected(b)
    PROVE  CollectedCase(Cluster(b, c)) \in Member
<1> DEFINE observations == Cluster(b, c)
<1>1. observations # {} /\ observations \subseteq Sources
  BY PreparedAssumption DEF Selected, Unseen, Cluster, Candidates
<1> HIDE DEF observations
<1>2. Min(observations) \in Sources
  BY <1>1, MinIs, OrderAssumption
<1>3. Text[Min(observations)] \in Texts
  BY <1>2 DEF Texts
<1> QED
  BY <1>1, <1>3 DEF CollectedCase, Member, observations

\* A new batch is prepared for a directory that is not there.
LEMMA CollectStep ==
    ASSUME Inv, OneTerminal, NEW t \in Terminals, NEW b \in NewBatches, Collect(t, b)
    PROVE  Inv'
<1> DEFINE rows == [c \in Cases |-> IF c \in Selected(b) THEN CollectedCase(Cluster(b, c)) ELSE None]
           new == [Idle EXCEPT !.command = "create", !.step = "files", !.batch = b, !.rows = rows]
<1>1. rows \in [Cases -> Member \union {None}]
  BY CollectedIs
<1>2. stage[b] = "absent" /\ b \in Batches /\ job' = [job EXCEPT ![t] = new]
      /\ UNCHANGED <<gold, pool, batches, failed, crashes, rebuilds>>
  BY DEF Collect, NewBatches
<1> HIDE DEF rows
<1>3. new \in Job /\ new.step = "files" /\ new.command = "create" /\ new.batch = b /\ new.rows = rows
  BY <1>1, <1>2 DEF Job, Idle, Commands, Steps
<1> HIDE DEF new
<1>4. job' \in [Terminals -> Job] /\ job'[t] = new
  BY <1>2, <1>3 DEF Inv, TypeInv
<1>5. Underway(job[t])'
  BY <1>1, <1>2, <1>3, <1>4 DEF Underway, batches
<1>6. rebuilds' \in Nat
  BY <1>2 DEF Inv, TypeInv
<1> QED
  BY <1>2, <1>4, <1>5, <1>6, JobStep

\* A new batch is in nobody's row.
LEMMA WriteBatchStep ==
    ASSUME Inv, OneTerminal, NEW t \in Terminals, WriteBatch(t)
    PROVE  Inv'
<1>1. PICK b : b = job[t].batch
  OBVIOUS
<1>2. PICK new : new = job[t].rows
  OBVIOUS
<1>3. PICK state : state = IF \A c \in Cases : new[c] = None THEN "empty" ELSE "open"
  OBVIOUS
<1>4. /\ members' = [members EXCEPT ![b] = new] /\ stage' = [stage EXCEPT ![b] = state]
      /\ Return(t) /\ UNCHANGED <<gold, pool, decision, summary, failed, crashes, rebuilds>>
  BY <1>1, <1>2, <1>3 DEF WriteBatch
<1>5. b \in Batches /\ stage[b] = "absent" /\ new \in [Cases -> Member \union {None}]
  <2>1. Underway(job[t]) /\ job[t].step = "files" /\ job[t].command = "create"
    BY DEF Inv, JobInv, WriteBatch, At
  <2> QED
    BY <1>1, <1>2, <2>1 DEF Underway
<1>6. state \in {"empty", "open"}
  BY <1>3
<1>7. stage \in [Batches -> {"absent", "partial", "empty", "open", "finalized", Torn}]
      /\ members \in [Batches -> [Cases -> Member \union {None}]]
  BY DEF Inv, TypeInv
<1>8. \A a \in Batches : a # b => stage'[a] = stage[a] /\ members'[a] = members[a]
  BY <1>4, <1>7
<1>9. stage[b] \notin Worked /\ stage[b] \notin {"open", Torn} /\ stage'[b] # "finalized"
  BY <1>4, <1>5, <1>6, <1>7 DEF Worked, Torn
<1>10. TypeInv'
  <2>1. job' \in [Terminals -> Job]
    BY <1>4, ReturnIs DEF Inv, TypeInv
  <2>2. stage' \in [Batches -> {"absent", "partial", "empty", "open", "finalized", Torn}]
        /\ members' \in [Batches -> [Cases -> Member \union {None}]]
    BY <1>4, <1>5, <1>6, <1>7
  <2> QED
    BY <1>4, <2>1, <2>2 DEF Inv, TypeInv
<1>11. BatchInv'
  <2>1. ASSUME NEW a \in Batches,
               stage'[a] = "finalized" \/ summary'[a].state \in {"integrated", "finalized"}
        PROVE  stage'[a] \in Worked /\ Settled(a)' /\ InGold(a)'
    <3>1. a # b
      BY <1>4, <1>5, <1>9, <2>1 DEF Inv, BatchInv
    <3>2. stage[a] \in Worked /\ Settled(a) /\ InGold(a)
      BY <1>4, <1>8, <2>1, <3>1 DEF Inv, BatchInv
    <3> QED
      BY <1>4, <1>8, <3>1, <3>2, SettledStays
  <2>2. \A a \in Batches, c \in Cases : decision'[a][c] # None =>
          /\ members'[a][c] # None /\ stage'[a] \in Worked
          /\ a \in RetryBatches => decision'[a][c] \in RetryOutcomes
    BY <1>4, <1>8, <1>9 DEF Inv, BatchInv
  <2> QED
    BY <2>1, <2>2 DEF BatchInv
<1>12. PoolInv'
  <2>1. Sound(pool, members', decision', stage', gold')
    <3>1. Sound(pool, members, decision, stage, gold)
      BY DEF Inv, PoolInv
    <3>2. \A a \in Batches : stage[a] \in Worked => stage'[a] \in Worked /\ members'[a] = members[a]
      BY <1>8, <1>9
    <3>3. \A a \in Batches : stage[a] \in {"open", Torn} => stage'[a] \in {"open", Torn}
      BY <1>8, <1>9
    <3>4. \A a \in Batches : stage'[a] = "finalized" =>
            /\ stage[a] = "finalized"
            /\ \A c \in Cases : decision'[a][c] = "accept" <=> decision[a][c] = "accept"
      BY <1>4, <1>8, <1>9
    <3>5. \A c \in Cases : gold[c] # None => gold'[c] # None
      BY <1>4
    <3> QED
      BY <3>1, <3>2, <3>3, <3>4, <3>5, SoundNext
  <2> QED
    BY <1>4, <2>1 DEF PoolInv
<1> QED
  BY <1>4, <1>10, <1>11, <1>12, ReturnIs, OnlyJob DEF Inv, TypeInv

-----------------------------------------------------------------------------
(***************************************************************************)
(* integrate and batch-finalize.                                           *)
(***************************************************************************)
\* No record, and no observation of one, is dropped.
GoldKept ==
    \A c \in Cases : gold[c] # None => gold'[c] # None /\ gold[c].sources \subseteq gold'[c].sources

\* The combined corpus has all records on file and those of the batch.
LEMMA CombinedIs ==
    ASSUME TypeInv, NEW b \in Batches
    PROVE  /\ Combined(b) \in Corpus
           /\ \A c \in Cases : gold[c] # None =>
                Combined(b)[c] # None /\ gold[c].sources \subseteq Combined(b)[c].sources
           /\ \A c \in Accepted(b) : c \in Cases /\ Combined(b)[c] # None
<1>1. ASSUME NEW c \in Accepted(b)
      PROVE  /\ c \in Cases
             /\ AcceptedRecord(b, c, gold[c]) \in Record
             /\ gold[c] # None => gold[c].sources \subseteq AcceptedRecord(b, c, gold[c]).sources
  <2>1. c \in Cases /\ members[b][c] \in Member /\ gold[c] \in Record \union {None}
    BY DEF Accepted, MembersOf, TypeInv, Corpus
  <2>2. members[b][c].text \in Texts /\ members[b][c].sources \subseteq Sources
    BY <2>1 DEF Member
  <2>3. gold[c] # None => gold[c].sources \subseteq Sources
    BY <2>1 DEF Record
  <2> QED
    BY <2>1, <2>2, <2>3 DEF AcceptedRecord, Record
<1>2. Accepted(b) \subseteq Cases /\ gold \in [Cases -> Record \union {None}]
  BY DEF Accepted, MembersOf, TypeInv, Corpus
<1> QED
  BY <1>1, <1>2, RecordAssumption DEF Combined, Corpus

\* An integration begins with a decided batch, and skips only one that is in
\* the corpus.
LEMMA IntegrateStep ==
    ASSUME Inv, OneTerminal, NEW t \in Terminals, NEW b \in Batches,
           NEW command \in {"integrate", "finalize"}, Integrate(t, b, command)
    PROVE  Inv'
<1>1. PICK done : done = (/\ summary[b].state \in {"integrated", "finalized"}
                          /\ summary[b].corpus = Combined(b))
  OBVIOUS
<1>2. PICK next : next = IF ~ done THEN "corpus"
                         ELSE IF command = "finalize" THEN "load" ELSE "idle"
  OBVIOUS
<1>3. PICK new : new = IF next = "idle" THEN Idle
                       ELSE [command |-> command, step |-> next, batch |-> b,
                             corpus |-> Combined(b), rows |-> None]
  OBVIOUS
<1>4. /\ stage[b] \in {"open", "finalized"} /\ Settled(b)
      /\ job' = [job EXCEPT ![t] = new]
      /\ UNCHANGED <<gold, pool, batches, failed, crashes, rebuilds>>
  BY <1>1, <1>2, <1>3 DEF Integrate, Settled
<1>5. next \in {"corpus", "load", "idle"}
  BY <1>2
<1>6. Combined(b) \in Corpus
  BY CombinedIs DEF Inv
<1>7. new \in Job
  BY <1>3, <1>5, <1>6, IdleIs DEF Job, Commands, Steps
<1>8. job' \in [Terminals -> Job] /\ job'[t] = new
  BY <1>4, <1>7 DEF Inv, TypeInv
<1>9. next = "load" => InGold(b)
  BY <1>1, <1>2 DEF Inv, BatchInv
<1>10. Underway(job[t])'
  <2>1. CASE next = "idle"
    BY <1>3, <1>8, <2>1, IdleIs DEF Underway
  <2>2. CASE next # "idle"
    <3>1. /\ new.step = next /\ new.batch = b /\ new.corpus = Combined(b)
      BY <1>3, <2>2
    <3>2. Settled(b)' /\ InGold(b)' = InGold(b) /\ Combined(b)' = Combined(b)
      BY <1>4 DEF batches, Settled, Decided, InGold, Accepted, MembersOf, Combined, AcceptedRecord
    <3>3. Underway(new)'
      BY <1>4, <1>5, <1>6, <1>9, <2>2, <3>1, <3>2 DEF Underway, batches
    <3> QED
      BY <1>8, <3>3
  <2> QED
    BY <2>1, <2>2
<1>11. rebuilds' \in Nat
  BY <1>4 DEF Inv, TypeInv
<1> QED
  BY <1>4, <1>8, <1>10, <1>11, JobStep

\* Replacing the corpus adds the accepted records of the batch and removes
\* none.
LEMMA WriteCorpusStep ==
    ASSUME Inv, OneTerminal, NEW t \in Terminals, WriteCorpus(t)
    PROVE  Inv' /\ GoldKept
<1>1. PICK b : b = job[t].batch
  OBVIOUS
<1>2. /\ Underway(job[t]) /\ job[t].step = "corpus" /\ gold' = job[t].corpus
      /\ Goto(t, "summary") /\ UNCHANGED <<pool, batches, failed, crashes, rebuilds>>
  BY DEF WriteCorpus, At, Inv, JobInv
<1>3. /\ b \in Batches /\ gold' = Combined(b) /\ job[t].corpus \in Corpus
      /\ stage[b] \in {"open", "finalized"} /\ Settled(b)
  BY <1>1, <1>2 DEF Underway
<1>4. gold' \in Corpus /\ GoldKept /\ \A c \in Accepted(b) : gold'[c] # None
  BY <1>3, CombinedIs DEF GoldKept, Inv
<1>5. \A c \in Cases : gold[c] # None => gold'[c] # None
  BY <1>4 DEF GoldKept
<1>6. /\ job' \in [Terminals -> Job] /\ job'[t].step = "summary" /\ job'[t].batch = b
      /\ job'[t].corpus = job[t].corpus
  BY <1>1, <1>2, GotoIs DEF Inv, TypeInv, Steps
<1>7. TypeInv'
  BY <1>2, <1>4, <1>6 DEF Inv, TypeInv, batches
<1>8. BatchInv'
  <2>1. ASSUME NEW a \in Batches,
               stage'[a] = "finalized" \/ summary'[a].state \in {"integrated", "finalized"}
        PROVE  stage'[a] \in Worked /\ Settled(a)' /\ InGold(a)'
    <3>1. stage[a] \in Worked /\ Settled(a) /\ InGold(a)
      BY <1>2, <2>1 DEF Inv, BatchInv, batches
    <3> QED
      BY <1>2, <1>5, <3>1, SettledStays DEF batches
  <2> QED
    BY <1>2, <2>1 DEF BatchInv, Inv, batches
<1>9. PoolInv'
  <2>1. Sound(pool, members, decision, stage, gold)
    BY DEF Inv, PoolInv
  <2>2. members' = members /\ decision' = decision /\ stage' = stage /\ pool' = pool
    BY <1>2 DEF batches
  <2>3. Sound(pool, members', decision', stage', gold')
    BY <1>5, <2>1, <2>2, SoundNext
  <2> QED
    BY <2>2, <2>3 DEF PoolInv
<1>10. Underway(job[t])'
  <2>1. Settled(b)' /\ InGold(b)'
    BY <1>2, <1>3, <1>4, SettledStays DEF batches, InGold, Accepted, MembersOf
  <2> QED
    BY <1>2, <1>3, <1>6, <2>1 DEF Underway, batches
<1> QED
  BY <1>4, <1>7, <1>8, <1>9, <1>10, OnlyJob DEF Inv

\* integrated, or finalized, in the batch's summary.
LEMMA SummaryStep ==
    ASSUME Inv, OneTerminal, NEW t \in Terminals, NEW state \in {"integrated", "finalized"},
           job[t].step \in {"summary", "final"},
           summary' = [summary EXCEPT ![job[t].batch] = SummaryOf(t, state)],
           Goto(t, "load") \/ Return(t),
           UNCHANGED <<gold, pool, stage, members, decision, failed, crashes, rebuilds>>
    PROVE  Inv'
<1>1. PICK b : b = job[t].batch
  OBVIOUS
<1>2. Underway(job[t])
  BY DEF Inv, JobInv
<1>3. /\ b \in Batches /\ job[t].corpus \in Corpus
      /\ stage[b] \in {"open", "finalized"} /\ Settled(b) /\ InGold(b)
  BY <1>1, <1>2 DEF Underway
<1>4. summary' = [summary EXCEPT ![b] = [state |-> state, corpus |-> job[t].corpus]]
  BY <1>1 DEF SummaryOf
<1>5. \A a \in Batches : a # b => summary'[a] = summary[a]
  BY <1>4 DEF Inv, TypeInv
<1>6. job' \in [Terminals -> Job]
  BY GotoIs, ReturnIs DEF Inv, TypeInv, Steps
<1>7. TypeInv'
  <2>1. [state |-> state, corpus |-> job[t].corpus] \in
          [state : {"absent", "integrated", "finalized", Torn}, corpus : Corpus \union {None}]
    BY <1>3
  <2>2. summary' \in [Batches -> [state : {"absent", "integrated", "finalized", Torn},
                                  corpus : Corpus \union {None}]]
    BY <1>4, <2>1 DEF Inv, TypeInv
  <2> QED
    BY <1>6, <2>2 DEF Inv, TypeInv
<1>8. BatchInv'
  <2>1. ASSUME NEW a \in Batches,
               stage'[a] = "finalized" \/ summary'[a].state \in {"integrated", "finalized"}
        PROVE  stage'[a] \in Worked /\ Settled(a)' /\ InGold(a)'
    <3>1. stage[a] \in Worked /\ Settled(a) /\ InGold(a)
      BY <1>3, <1>5, <2>1 DEF Inv, BatchInv, Worked
    <3> QED
      BY <3>1, SettledStays
  <2> QED
    BY <2>1 DEF BatchInv, Inv
<1>9. PoolInv'
  BY DEF Inv, PoolInv
<1>10. Underway(job[t])'
  <2>1. CASE Return(t)
    BY <2>1, ReturnIs DEF Inv, TypeInv
  <2>2. CASE Goto(t, "load")
    <3>1. job'[t].step = "load" /\ job'[t].batch = b /\ job'[t].corpus = job[t].corpus
      BY <1>1, <2>2, GotoIs DEF Inv, TypeInv, Steps
    <3>2. Settled(b)' /\ InGold(b)'
      BY <1>3, SettledStays
    <3> QED
      BY <1>3, <3>1, <3>2 DEF Underway
  <2> QED
    BY <2>1, <2>2
<1> QED
  BY <1>7, <1>8, <1>9, <1>10, OnlyJob DEF Inv

\* The pool with a batch's events in it.
LEMMA PoolWithIs ==
    ASSUME Inv, NEW b \in Batches, stage[b] \in {"open", "finalized"}, Settled(b), InGold(b)
    PROVE  /\ Sound(PoolWith(b), members, decision, stage, gold)
           /\ Reported(PoolWith(b), b)
<1> DEFINE rows == PoolWith(b)
           Merges(c) == c \in MembersOf(b) /\ (decision[b][c] # "accept" \/ pool[c] # None)
<1>1. /\ \A c \in Cases : rows[c] = IF Merges(c) THEN Merged(pool[c], EventOf(b, c)) ELSE pool[c]
      /\ rows = [c \in Cases |-> rows[c]]
  BY DEF PoolWith
<1>2. pool \in [Cases -> Row \union {None}]
  BY DEF Inv, PoolInv, Sound, Pool
<1>3. \A c \in Cases : pool[c] # None =>
        /\ Grounded(c, pool[c], members, stage, gold)
        /\ Classified => Owned(c, pool[c], members, stage)
  BY DEF Inv, PoolInv, Sound
<1> HIDE DEF rows
<1>4. ASSUME NEW c \in Cases, Merges(c)
      PROVE  /\ rows[c] \in Row
             /\ Grounded(c, rows[c], members, stage, gold)
             /\ Classified => Owned(c, rows[c], members, stage)
             /\ \E e \in rows[c].events : e.batch = b
             /\ pool[c] # None => pool[c].events \subseteq rows[c].events
             /\ Classified /\ rows[c].state = "in_retry_batch" => rows[c].active # b
  <2> DEFINE event == EventOf(b, c)
             old == IF pool[c] = None THEN EmptyRow(event) ELSE pool[c]
             new == rows[c]
  <2>1. /\ c \in MembersOf(b) /\ members[b][c] \in Member /\ members[b][c] # None
        /\ decision[b][c] \in Outcomes
    BY <1>4 DEF Inv, TypeInv, MembersOf, Settled, Decided
  <2>2. /\ event \in Event /\ event.batch = b /\ event.outcome = decision[b][c]
    BY <2>1 DEF EventOf, Event, Member
  <2>3. new = Merged(pool[c], event)
    BY <1>1, <1>4
  <2> HIDE DEF event, new
  <2>4. /\ new \in Row
        /\ old.events \subseteq new.events /\ new.events \subseteq old.events \union {event}
        /\ \E e \in new.events : e.batch = event.batch
        /\ new.active \in {None, old.active}
        /\ new.state = "resolved" => old.state = "resolved" \/ event.outcome = "accept"
        /\ new.state = "in_retry_batch" =>
             /\ old.state = "in_retry_batch" /\ new.active = old.active
             /\ \/ event.outcome = "legacy"
                \/ \E e \in old.events : e.batch = event.batch
    BY <1>2, <2>2, <2>3, MergedIs
  <2>5. /\ \A e \in old.events : members[e.batch][c] # None /\ stage[e.batch] \in Worked
        /\ old.active # None => stage[old.active] \in Worked
        /\ old.state = "resolved" => gold[c] # None
        /\ Classified => Owned(c, old, members, stage)
    <3>1. CASE pool[c] = None
      BY <2>2, <3>1, EmptyRowIs DEF Owned
    <3>2. CASE pool[c] # None
      BY <1>3, <3>2 DEF Grounded
    <3> QED
      BY <3>1, <3>2
  <2>6. pool[c] # None => old = pool[c]
    OBVIOUS
  <2> HIDE DEF old
  <2>7. event.outcome = "accept" => gold[c] # None
    BY <2>1, <2>2 DEF InGold, Accepted
  <2>8. Grounded(c, new, members, stage, gold)
    BY <2>1, <2>2, <2>4, <2>5, <2>7 DEF Grounded, Worked
  <2>9. ASSUME Classified, new.state = "in_retry_batch" PROVE new.active # b
    <3>1. SUFFICES ASSUME new.active = b PROVE FALSE
      OBVIOUS
    <3>2. /\ old.active = b /\ b \in RetryBatches /\ \A e \in old.events : e.batch # b
      BY <2>4, <2>5, <2>9, <3>1 DEF Owned
    <3>3. decision[b][c] # "legacy"
      BY <2>1, <2>9, <3>2, NoneAssumption DEF Inv, BatchInv, Classified
    <3> QED
      BY <2>2, <2>4, <2>9, <3>2, <3>3
  <2>10. ASSUME Classified PROVE Owned(c, new, members, stage)
    <3> SUFFICES ASSUME new.state = "in_retry_batch"
                 PROVE  /\ new.active \in RetryBatches
                        /\ members[new.active][c] # None
                        /\ stage[new.active] \in {"open", Torn}
                        /\ \A e \in new.events : e.batch # new.active
      BY DEF Owned
    <3>1. new.active = old.active /\ old.state = "in_retry_batch"
      BY <2>4
    <3>2. Owned(c, old, members, stage)
      BY <2>5, <2>10
    <3> QED
      BY <2>2, <2>4, <2>9, <2>10, <3>1, <3>2 DEF Owned
  <2> QED
    BY <2>2, <2>4, <2>6, <2>8, <2>9, <2>10 DEF new
<1> HIDE DEF Merges
<1>5. rows \in Pool
  BY <1>1, <1>2, <1>4 DEF Pool
<1>6. \A c \in Cases : rows[c] # None =>
        /\ Grounded(c, rows[c], members, stage, gold)
        /\ Classified => Owned(c, rows[c], members, stage)
  BY <1>1, <1>3, <1>4
<1>7. ASSUME NEW a \in Batches, stage[a] = "finalized" PROVE Covered(rows, a, members, decision)
  <2>1. Covered(pool, a, members, decision)
    BY <1>7 DEF Inv, PoolInv, Sound
  <2> QED
    BY <1>1, <1>4, <2>1, NoneAssumption DEF Covered
<1>8. Covered(rows, b, members, decision)
  <2>1. \A c \in Cases : members[b][c] # None /\ decision[b][c] # "accept" => Merges(c)
    BY DEF Merges, MembersOf
  <2> QED
    BY <1>4, <2>1, NoneAssumption DEF Covered
<1>9. ASSUME Classified, NEW c \in Cases, rows[c] # None, rows[c].state = "in_retry_batch"
      PROVE  rows[c].active # b
  <2>1. CASE Merges(c)
    BY <1>4, <1>9, <2>1
  <2>2. CASE ~Merges(c)
    <3>1. rows[c] = pool[c] /\ c \notin MembersOf(b)
      BY <1>1, <1>9, <2>2 DEF Merges
    <3>2. Owned(c, pool[c], members, stage)
      BY <1>3, <1>9, <3>1
    <3> QED
      BY <1>9, <3>1, <3>2 DEF Owned, MembersOf
  <2> QED
    BY <2>1, <2>2
<1> QED
  BY <1>5, <1>6, <1>7, <1>8, <1>9 DEF Sound, Reported, rows

\* What finalize makes of the pool is sound and covers its batch.
LEMMA LoadPoolStep ==
    ASSUME Inv, OneTerminal, NEW t \in Terminals, LoadPool(t)
    PROVE  Inv'
<1>1. PICK b : b = job[t].batch
  OBVIOUS
<1>2. PICK rows : rows = PoolWith(b)
  OBVIOUS
<1>3. /\ Underway(job[t]) /\ job[t].step = "load"
      /\ job' = [job EXCEPT ![t].rows = rows, ![t].step = "store"]
      /\ UNCHANGED <<gold, pool, batches, failed, crashes, rebuilds>>
  BY <1>1, <1>2 DEF LoadPool, At, Inv, JobInv
<1>4. /\ b \in Batches /\ job[t].corpus \in Corpus
      /\ stage[b] \in {"open", "finalized"} /\ Settled(b) /\ InGold(b)
  BY <1>1, <1>3 DEF Underway
<1>5. Sound(rows, members, decision, stage, gold) /\ Reported(rows, b)
  BY <1>2, <1>4, PoolWithIs
<1>6. job[t] \in Job /\ job \in [Terminals -> Job] /\ rows \in Pool
  BY <1>5 DEF Inv, TypeInv, Sound
<1>7. job' = [job EXCEPT ![t] = [job[t] EXCEPT !.rows = rows, !.step = "store"]]
  BY <1>3, <1>6
<1>8. /\ job' \in [Terminals -> Job] /\ job'[t].step = "store" /\ job'[t].rows = rows
      /\ job'[t].batch = b /\ job'[t].corpus = job[t].corpus
  <2>1. PICK new : new = [job[t] EXCEPT !.rows = rows, !.step = "store"]
    OBVIOUS
  <2>2. /\ new \in Job /\ new.step = "store" /\ new.rows = rows
        /\ new.batch = b /\ new.corpus = job[t].corpus
    BY <1>1, <1>6, <2>1 DEF Job, Steps
  <2> QED
    BY <1>6, <1>7, <2>1, <2>2
<1>9. Underway(job[t])'
  <2>1. Settled(b)' /\ InGold(b)'
    BY <1>3, <1>4 DEF batches, Settled, Decided, InGold, Accepted, MembersOf
  <2>2. Sound(rows, members', decision', stage', gold') /\ Reported(rows, b)'
    BY <1>3, <1>5 DEF batches, Reported
  <2> QED
    BY <1>3, <1>4, <1>8, <2>1, <2>2 DEF Underway, batches
<1>10. rebuilds' \in Nat
  BY <1>3 DEF Inv, TypeInv
<1> QED
  BY <1>3, <1>8, <1>9, <1>10, JobStep

\* The pool is replaced by a sound one.
LEMMA WritePoolStep ==
    ASSUME Inv, OneTerminal, NEW t \in Terminals, WritePool(t)
    PROVE  Inv'
<1>1. PICK b : b = job[t].batch
  OBVIOUS
<1>2. /\ Underway(job[t]) /\ job[t].step = "store" /\ pool' = job[t].rows
      /\ IF job[t].command = "finalize" THEN Goto(t, "metadata") ELSE Return(t)
      /\ UNCHANGED <<gold, batches, failed, crashes, rebuilds>>
  BY DEF WritePool, At, Inv, JobInv
<1>3. Sound(pool', members, decision, stage, gold)
  BY <1>2 DEF Underway
<1>4. job' \in [Terminals -> Job]
  BY <1>2, GotoIs, ReturnIs DEF Inv, TypeInv, Steps
<1>5. TypeInv'
  BY <1>2, <1>4 DEF Inv, TypeInv, batches
<1>6. BatchInv'
  BY <1>2 DEF Inv, BatchInv, batches, Settled, Decided, InGold, Accepted, MembersOf
<1>7. PoolInv'
  BY <1>2, <1>3 DEF PoolInv, batches
<1>8. Underway(job[t])'
  <2>1. CASE job[t].command # "finalize"
    BY <1>2, <2>1, ReturnIs DEF Inv, TypeInv
  <2>2. CASE job[t].command = "finalize"
    <3>1. /\ b \in Batches /\ job[t].corpus \in Corpus
          /\ stage[b] \in {"open", "finalized"} /\ Settled(b) /\ InGold(b)
          /\ Reported(pool', b)
      BY <1>1, <1>2, <2>2 DEF Underway
    <3>2. /\ job'[t].step = "metadata" /\ job'[t].batch = b /\ job'[t].corpus = job[t].corpus
      BY <1>1, <1>2, <2>2, GotoIs DEF Inv, TypeInv, Steps
    <3>3. Settled(b)' /\ InGold(b)'
      BY <1>2, <3>1 DEF batches, Settled, Decided, InGold, Accepted, MembersOf
    <3>4. Reported(pool, b)'
      BY <1>2, <3>1 DEF batches, Reported
    <3> QED
      BY <1>2, <3>1, <3>2, <3>3, <3>4 DEF Underway, batches
  <2> QED
    BY <2>1, <2>2
<1> QED
  BY <1>5, <1>6, <1>7, <1>8, OnlyJob DEF Inv

\* A batch is finalized once the pool has its events.
LEMMA WriteMetadataStep ==
    ASSUME Inv, OneTerminal, NEW t \in Terminals, WriteMetadata(t)
    PROVE  Inv'
<1>1. PICK b : b = job[t].batch
  OBVIOUS
<1>2. /\ Underway(job[t]) /\ job[t].step = "metadata"
      /\ stage' = [stage EXCEPT ![b] = "finalized"]
      /\ failed' = [c \in Cases |-> IF b \in RetryBatches /\ stage[b] = "open" /\ decision[b][c] = "retryable"
                                      THEN members[b][c].context ELSE failed[c]]
      /\ Goto(t, "final") /\ UNCHANGED <<gold, pool, members, decision, summary, crashes, rebuilds>>
  BY <1>1 DEF WriteMetadata, At, Inv, JobInv
<1>3. /\ b \in Batches /\ job[t].corpus \in Corpus
      /\ stage[b] \in {"open", "finalized"} /\ Settled(b) /\ InGold(b)
      /\ Reported(pool, b)
  BY <1>1, <1>2 DEF Underway
<1>4. /\ job' \in [Terminals -> Job] /\ job'[t].step = "final" /\ job'[t].batch = b
      /\ job'[t].corpus = job[t].corpus
  BY <1>1, <1>2, GotoIs DEF Inv, TypeInv, Steps
<1>5. /\ stage \in [Batches -> {"absent", "partial", "empty", "open", "finalized", Torn}]
      /\ stage' \in [Batches -> {"absent", "partial", "empty", "open", "finalized", Torn}]
      /\ stage'[b] = "finalized" /\ \A a \in Batches : a # b => stage'[a] = stage[a]
  BY <1>2, <1>3 DEF Inv, TypeInv
<1>6. failed' \in [Cases -> Contexts \union {None}]
  <2>1. ASSUME NEW c \in Cases, decision[b][c] = "retryable"
        PROVE  members[b][c].context \in Contexts \union {None}
    <3>1. decision[b][c] # None
      BY <2>1, NoneAssumption DEF Outcomes, Blockers
    <3>2. members[b][c] \in Member
      BY <1>3, <3>1 DEF Inv, TypeInv, BatchInv
    <3> QED
      BY <3>2 DEF Member
  <2>2. failed \in [Cases -> Contexts \union {None}]
    BY DEF Inv, TypeInv
  <2> QED
    BY <1>2, <2>1, <2>2
<1>7. TypeInv'
  BY <1>2, <1>4, <1>5, <1>6 DEF Inv, TypeInv
<1>8. \A a \in Batches : stage[a] \in Worked => stage'[a] \in Worked
  BY <1>5 DEF Worked
<1>9. BatchInv'
  <2>1. ASSUME NEW a \in Batches,
               stage'[a] = "finalized" \/ summary'[a].state \in {"integrated", "finalized"}
        PROVE  stage'[a] \in Worked /\ Settled(a)' /\ InGold(a)'
    <3>1. stage[a] \in Worked /\ Settled(a) /\ InGold(a)
      BY <1>2, <1>3, <1>5, <2>1 DEF Inv, BatchInv, Worked
    <3> QED
      BY <1>2, <1>8, <3>1, SettledStays
  <2> QED
    BY <1>2, <1>8, <2>1 DEF BatchInv, Inv
<1>10. PoolInv'
  <2>1. Sound(pool, members, decision, stage, gold)
    BY DEF Inv, PoolInv
  <2>2. ASSUME NEW c \in Cases, pool[c] # None
        PROVE  Grounded(c, pool[c], members, stage', gold) /\ (Classified => Owned(c, pool[c], members, stage'))
    <3>1. PICK row : row = pool[c]
      OBVIOUS
    <3>2. row \in Row /\ Grounded(c, row, members, stage, gold) /\ (Classified => Owned(c, row, members, stage))
      BY <2>1, <2>2, <3>1 DEF Sound, Pool
    <3>3. (\A e \in row.events : e.batch \in Batches) /\ (row.active # None => row.active \in Batches)
      BY <3>2 DEF Row, Event
    <3>4. Grounded(c, row, members, stage', gold)
      BY <1>8, <3>2, <3>3 DEF Grounded
    <3>5. Classified /\ row.state = "in_retry_batch" => row.active # b
      BY <1>3, <2>2, <3>1 DEF Reported
    <3>6. Classified => Owned(c, row, members, stage')
      BY <1>5, <3>2, <3>5, RetryBatchesAssumption DEF Owned
    <3> QED
      BY <3>1, <3>4, <3>6
  <2>3. \A a \in Batches : stage'[a] = "finalized" => Covered(pool, a, members, decision)
    BY <1>3, <1>5, <2>1 DEF Sound, Reported
  <2>4. Sound(pool, members, decision, stage', gold)
    BY <2>1, <2>2, <2>3 DEF Sound
  <2> QED
    BY <1>2, <2>4 DEF PoolInv
<1>11. Underway(job[t])'
  <2>1. Settled(b)' /\ InGold(b)'
    BY <1>2, <1>3, SettledStays
  <2> QED
    BY <1>3, <1>4, <1>5, <2>1 DEF Underway
<1> QED
  BY <1>7, <1>9, <1>10, <1>11, OnlyJob DEF Inv

-----------------------------------------------------------------------------
(***************************************************************************)
(* The retry pool's own commands.                                          *)
(***************************************************************************)
\* A command that has read the pool and will store these rows.
LEMMA StoreNext ==
    ASSUME Inv, OneTerminal, NEW t \in Terminals, NEW command \in {"ready", "rebuild"}, NEW rows,
           Sound(rows, members, decision, stage, gold),
           job' = [job EXCEPT ![t] = [Idle EXCEPT !.command = command, !.step = "store", !.rows = rows]],
           UNCHANGED <<gold, pool, batches, failed, crashes>>, rebuilds' \in Nat
    PROVE  Inv'
<1>1. PICK new : new = [Idle EXCEPT !.command = command, !.step = "store", !.rows = rows]
  OBVIOUS
<1>2. rows \in Pool
  BY DEF Sound
<1>3. /\ new \in Job /\ new.step = "store" /\ new.rows = rows /\ new.command # "finalize"
  BY <1>1, <1>2 DEF Idle, Job, Commands, Steps
<1>4. job' \in [Terminals -> Job] /\ job'[t] = new
  BY <1>1, <1>3 DEF Inv, TypeInv
<1>5. Sound(rows, members', decision', stage', gold')
  BY DEF batches
<1>6. Underway(job[t])'
  BY <1>3, <1>4, <1>5 DEF Underway
<1> QED
  BY <1>4, <1>6, JobStep

\* Rows that are marked ready stay sound.
LEMMA OfferContextStep ==
    ASSUME Inv, OneTerminal, NEW t \in Terminals, NEW context \in Contexts, OfferContext(t, context)
    PROVE  Inv'
<1>1. PICK rows : rows = [c \in Cases |-> IF pool[c] = None THEN None ELSE MarkReady(pool[c], context)]
  OBVIOUS
<1>2. Sound(pool, members, decision, stage, gold)
  BY DEF Inv, PoolInv
<1>3. ASSUME NEW row \in Row
      PROVE  LET new == MarkReady(row, context)
             IN  /\ new \in Row /\ new.events = row.events /\ new.active = row.active
                 /\ new.state \in {row.state, "ready"}
  <2>1. CASE row.blocker = "retryable"
    <3>1. MarkReady(row, context) =
            [row EXCEPT !.context = context, !.state = IF context # row.latest THEN "ready" ELSE row.state]
      BY <2>1 DEF MarkReady
    <3> QED
      BY <3>1 DEF Row, States
  <2>2. CASE row.blocker # "retryable"
    BY <2>2 DEF MarkReady
  <2> QED
    BY <2>1, <2>2
<1>4. ASSUME NEW c \in Cases, pool[c] # None
      PROVE  /\ rows[c] \in Row /\ rows[c] # None /\ rows[c].events = pool[c].events
             /\ Grounded(c, rows[c], members, stage, gold)
             /\ Classified => Owned(c, rows[c], members, stage)
  <2>1. PICK row : row = pool[c]
    OBVIOUS
  <2>2. PICK new : new = MarkReady(row, context)
    OBVIOUS
  <2>3. row \in Row /\ Grounded(c, row, members, stage, gold) /\ (Classified => Owned(c, row, members, stage))
    BY <1>2, <1>4, <2>1 DEF Sound, Pool
  <2>4. rows[c] = new
    BY <1>1, <1>4, <2>1, <2>2
  <2>5. /\ new \in Row /\ new.events = row.events /\ new.active = row.active
        /\ new.state \in {row.state, "ready"}
    BY <1>3, <2>2, <2>3
  <2>6. Grounded(c, new, members, stage, gold)
    BY <2>3, <2>5 DEF Grounded
  <2>7. Classified => Owned(c, new, members, stage)
    BY <2>3, <2>5 DEF Owned
  <2> QED
    BY <2>1, <2>4, <2>5, <2>6, <2>7, NoneAssumption
<1>5. rows \in Pool /\ \A c \in Cases : rows[c] # None => pool[c] # None
  BY <1>1, <1>4 DEF Pool
<1>6. \A b \in Batches : stage[b] = "finalized" => Covered(rows, b, members, decision)
  BY <1>2, <1>4 DEF Sound, Covered
<1>7. Sound(rows, members, decision, stage, gold)
  BY <1>4, <1>5, <1>6 DEF Sound
<1>8. /\ job' = [job EXCEPT ![t] = [Idle EXCEPT !.command = "ready", !.step = "store", !.rows = rows]]
      /\ UNCHANGED <<gold, pool, batches, failed, crashes>> /\ rebuilds' \in Nat
  BY <1>1 DEF OfferContext, Inv, TypeInv
<1> QED
  BY <1>7, <1>8, StoreNext

\* The rebuilt pool has every event of every finalized batch.
LEMMA RebuildStep ==
    ASSUME Inv, OneTerminal, NEW t \in Terminals, Rebuild(t)
    PROVE  Inv'
<1>1. PICK rows : rows = RebuiltPool
  OBVIOUS
<1>2. ASSUME NEW c \in Cases
      PROVE  /\ rows[c] \in Row \union {None}
             /\ rows[c] # None => /\ Grounded(c, rows[c], members, stage, gold)
                                  /\ Owned(c, rows[c], members, stage)
             /\ \A b \in Batches : Counts(b, c) =>
                  rows[c] # None /\ \E e \in rows[c].events : e.batch = b
  <2>1. PICK row : row = Replayed(c)
    OBVIOUS
  <2>2. PICK new : new = rows[c]
    OBVIOUS
  <2>3. new = IF row # None /\ gold[c] # None THEN [row EXCEPT !.state = "resolved", !.active = None]
              ELSE row
    BY <1>1, <2>1, <2>2 DEF RebuiltPool
  <2>4. /\ row # None =>
             /\ row \in Row /\ row.events # {} /\ row.active = None
             /\ row.state \notin {"resolved", "in_retry_batch"}
             /\ \A e \in row.events : Counts(e.batch, c)
        /\ \A b \in Batches : Counts(b, c) => row # None /\ \E e \in row.events : e.batch = b
    BY <2>1, ReplayedIs DEF Inv, TypeInv
  <2>5. \A b : Counts(b, c) => members[b][c] # None /\ stage[b] \in Worked
    BY DEF Counts, MembersOf, Worked
  <2>6. row # None => /\ new \in Row /\ new.events = row.events /\ new.active = None
                      /\ new.state # "in_retry_batch"
                      /\ new.state = "resolved" => gold[c] # None
    BY <2>3, <2>4 DEF Row, States
  <2>7. row = None => new = None
    BY <2>3
  <2>8. new # None => /\ Grounded(c, new, members, stage, gold)
                      /\ Owned(c, new, members, stage)
    BY <2>4, <2>5, <2>6, <2>7 DEF Grounded, Owned
  <2>9. new \in Row \union {None} /\ (row # None => new # None)
    BY <2>6, <2>7, NoneAssumption
  <2>10. \A b \in Batches : Counts(b, c) => new # None /\ \E e \in new.events : e.batch = b
    BY <2>4, <2>6, <2>9
  <2> QED
    BY <2>2, <2>8, <2>9, <2>10
<1>3. rows \in Pool
  BY <1>1, <1>2 DEF RebuiltPool, Pool
<1>4. ASSUME NEW b \in Batches, stage[b] = "finalized" PROVE Covered(rows, b, members, decision)
  <2>1. \A c \in Cases : members[b][c] # None /\ decision[b][c] # "accept" => Counts(b, c)
    BY <1>4 DEF Counts, Accepted, MembersOf, Inv, BatchInv, Settled
  <2> QED
    BY <1>2, <2>1 DEF Covered
<1>5. Sound(rows, members, decision, stage, gold)
  BY <1>2, <1>3, <1>4 DEF Sound
<1>6. /\ job' = [job EXCEPT ![t] = [Idle EXCEPT !.command = "rebuild", !.step = "store", !.rows = rows]]
      /\ UNCHANGED <<gold, pool, batches, failed, crashes>> /\ rebuilds' \in Nat
  BY <1>1 DEF Rebuild, Inv, TypeInv
<1> QED
  BY <1>5, <1>6, StoreNext

\* The rows selected are those of the pool, put in the new batch.
LEMMA SelectRetriesStep ==
    ASSUME Inv, OneTerminal, NEW t \in Terminals, NEW b \in Batches, SelectRetries(t, b)
    PROVE  Inv'
<1>1. PICK chosen \in SUBSET {c \in Cases : pool[c] # None /\ Selectable(pool[c])} :
        job' = [job EXCEPT ![t] = [Idle EXCEPT !.command = "retry", !.step = "files", !.batch = b,
                                               !.rows = Chosen(chosen, b)]]
  BY DEF SelectRetries, Chosen
<1>2. b \in RetryBatches /\ stage[b] = "absent"
      /\ UNCHANGED <<gold, pool, batches, failed, crashes, rebuilds>>
  BY DEF SelectRetries
<1>3. PICK rows : rows = Chosen(chosen, b)
  OBVIOUS
<1>4. rows \in Pool
  <2>1. \A c \in Cases : pool[c] \in Row \union {None}
    BY DEF Inv, PoolInv, Sound, Pool
  <2>2. \A c \in chosen : pool[c] \in Row
    BY <2>1
  <2>3. \A c \in chosen : [pool[c] EXCEPT !.state = "in_retry_batch", !.active = b] \in Row
    BY <2>2 DEF Row, States
  <2> QED
    BY <1>3, <2>1, <2>3 DEF Chosen, Pool
<1>5. PICK new : new = [Idle EXCEPT !.command = "retry", !.step = "files", !.batch = b, !.rows = rows]
  OBVIOUS
<1>6. new \in Job /\ new.command = "retry" /\ new.step = "files" /\ new.batch = b /\ new.rows = rows
  BY <1>4, <1>5 DEF Idle, Job, Commands, Steps
<1>7. job' \in [Terminals -> Job] /\ job'[t] = new
  BY <1>1, <1>3, <1>5, <1>6 DEF Inv, TypeInv
<1>8. chosen \in SUBSET {c \in Cases : pool'[c] # None} /\ rows = Chosen(chosen, b)'
  BY <1>2, <1>3 DEF Chosen
<1>9. Underway(job[t])'
  BY <1>2, <1>6, <1>7, <1>8 DEF Underway, batches
<1>10. rebuilds' \in Nat
  BY <1>2 DEF Inv, TypeInv
<1> QED
  BY <1>2, <1>7, <1>9, <1>10, JobStep

\* A case comes back with what its row's events have seen of it.
LEMMA RetriedIs ==
    ASSUME TypeInv, NEW c \in Cases, NEW row \in Row, Grounded(c, row, members, stage, gold)
    PROVE  RetriedCase(row, c) \in Member
<1> DEFINE origins == {e.batch : e \in row.events}
<1>1. origins # {} /\ origins \subseteq Batches /\ \A b \in origins : members[b][c] \in Member
  BY DEF Grounded, TypeInv, Row, Event
<1> HIDE DEF origins
<1>2. Min(origins) \in origins
  BY <1>1, MinIs DEF Batches
<1>3. members[Min(origins)][c].text \in Texts
  BY <1>1, <1>2 DEF Member
<1>4. UNION {members[b][c].sources : b \in origins} \in SUBSET Sources
  BY <1>1 DEF Member
<1>5. row.context \in Contexts \union {None} /\ row.attempts + 1 \in Nat
  BY DEF Row
<1>6. RetriedCase(row, c) =
        [context |-> row.context, attempt |-> row.attempts + 1,
         text |-> members[Min(origins)][c].text,
         sources |-> UNION {members[b][c].sources : b \in origins}]
  BY DEF RetriedCase, origins
<1> QED
  BY <1>3, <1>4, <1>5, <1>6 DEF Member

\* A new re-review batch has the cases whose rows will name it.
LEMMA BuildRetryBatchStep ==
    ASSUME Inv, OneTerminal, NEW t \in Terminals, BuildRetryBatch(t)
    PROVE  Inv'
<1>1. PICK b : b = job[t].batch
  OBVIOUS
<1>2. PICK rows : rows = job[t].rows
  OBVIOUS
<1>3. Underway(job[t]) /\ job[t].step = "files" /\ job[t].command = "retry"
  BY DEF BuildRetryBatch, At, Inv, JobInv
<1>4. /\ b \in RetryBatches /\ b \in Batches /\ stage[b] = "absent"
      /\ \E chosen \in SUBSET {c \in Cases : pool[c] # None} : rows = Chosen(chosen, b)
  BY <1>1, <1>2, <1>3 DEF Underway
<1>5. PICK chosen \in SUBSET {c \in Cases : pool[c] # None} : rows = Chosen(chosen, b)
  BY <1>4
<1>6. TypeInv /\ Sound(pool, members, decision, stage, gold)
      /\ stage \in [Batches -> {"absent", "partial", "empty", "open", "finalized", Torn}]
      /\ members \in [Batches -> [Cases -> Member \union {None}]]
  BY DEF Inv, PoolInv, TypeInv
<1>7. b # None /\ stage[b] \notin Worked
  BY <1>4, NoneAssumption DEF Worked, Torn
<1>8. ASSUME NEW c \in Cases, pool[c] # None
      PROVE  /\ pool[c] \in Row /\ Grounded(c, pool[c], members, stage, gold)
             /\ pool[c].active # b /\ \A e \in pool[c].events : e.batch # b
  <2>1. pool[c] \in Row /\ Grounded(c, pool[c], members, stage, gold)
    BY <1>6, <1>8 DEF Sound, Pool
  <2> QED
    BY <1>7, <2>1 DEF Grounded
<1>9. ASSUME NEW c \in chosen
      PROVE  /\ c \in Cases /\ rows[c] \in Row /\ rows[c] # None
             /\ rows[c].state = "in_retry_batch" /\ rows[c].active = b
             /\ rows[c].events = pool[c].events
             /\ RetriedCase(rows[c], c) \in Member
  <2>1. PICK row : row = pool[c]
    OBVIOUS
  <2>2. c \in Cases /\ row \in Row /\ Grounded(c, row, members, stage, gold)
    BY <1>8, <2>1
  <2>3. PICK new : new = [row EXCEPT !.state = "in_retry_batch", !.active = b]
    OBVIOUS
  <2>4. new \in Row /\ new.events = row.events /\ new.state = "in_retry_batch" /\ new.active = b
    BY <1>4, <2>2, <2>3 DEF Row, States
  <2>5. rows[c] = new
    BY <1>5, <2>1, <2>2, <2>3 DEF Chosen
  <2>6. RetriedCase(new, c) \in Member
    <3>1. PICK grounded : grounded = [new EXCEPT !.state = "blocked", !.active = None]
      OBVIOUS
    <3>2. /\ grounded \in Row /\ grounded.events = new.events
          /\ grounded.context = new.context /\ grounded.attempts = new.attempts
          /\ grounded.state = "blocked" /\ grounded.active = None
      BY <2>4, <3>1 DEF Row, States
    <3>3. Grounded(c, grounded, members, stage, gold)
      BY <2>2, <2>4, <3>2 DEF Grounded
    <3>4. RetriedCase(grounded, c) = RetriedCase(new, c)
      BY <3>2 DEF RetriedCase
    <3> QED
      BY <1>6, <2>2, <3>2, <3>3, <3>4, RetriedIs
  <2> QED
    BY <2>1, <2>2, <2>4, <2>5, <2>6, NoneAssumption
<1>10. \A c \in Cases \ chosen : rows[c] = pool[c]
  BY <1>5 DEF Chosen
<1>11. \A c \in Cases : (rows[c] # None /\ rows[c].active = b) <=> c \in chosen
  BY <1>8, <1>9, <1>10
<1>12. PICK new : new = [c \in Cases |-> IF c \in chosen THEN RetriedCase(rows[c], c) ELSE None]
  OBVIOUS
<1>13. new \in [Cases -> Member \union {None}] /\ \A c \in chosen : new[c] # None
  BY <1>9, <1>12, RecordAssumption
<1>14. /\ stage' = [stage EXCEPT ![b] = "open"] /\ members' = [members EXCEPT ![b] = new]
       /\ Goto(t, "store") /\ UNCHANGED <<gold, pool, decision, summary, failed, crashes, rebuilds>>
  BY <1>1, <1>2, <1>4, <1>11, <1>12 DEF BuildRetryBatch
<1>15. /\ \A a \in Batches : a # b => stage'[a] = stage[a] /\ members'[a] = members[a]
       /\ stage'[b] = "open" /\ members'[b] = new
  BY <1>4, <1>6, <1>14
<1>16. /\ job' \in [Terminals -> Job] /\ job'[t].step = "store" /\ job'[t].command = "retry"
       /\ job'[t].rows = rows
  BY <1>2, <1>3, <1>14, GotoIs DEF Inv, TypeInv, Steps
<1>17. TypeInv'
  <2>1. stage' \in [Batches -> {"absent", "partial", "empty", "open", "finalized", Torn}]
        /\ members' \in [Batches -> [Cases -> Member \union {None}]]
    BY <1>4, <1>6, <1>13, <1>14
  <2> QED
    BY <1>14, <1>16, <2>1 DEF Inv, TypeInv
<1>18. BatchInv'
  <2>1. ASSUME NEW a \in Batches,
               stage'[a] = "finalized" \/ summary'[a].state \in {"integrated", "finalized"}
        PROVE  stage'[a] \in Worked /\ Settled(a)' /\ InGold(a)'
    <3>1. a # b
      BY <1>7, <1>14, <1>15, <2>1 DEF Inv, BatchInv
    <3>2. stage[a] \in Worked /\ Settled(a) /\ InGold(a)
      BY <1>14, <1>15, <2>1, <3>1 DEF Inv, BatchInv
    <3> QED
      BY <1>14, <1>15, <3>1, <3>2, SettledStays
  <2>2. \A a \in Batches, c \in Cases : decision'[a][c] # None =>
          /\ members'[a][c] # None /\ stage'[a] \in Worked
          /\ a \in RetryBatches => decision'[a][c] \in RetryOutcomes
    BY <1>7, <1>14, <1>15 DEF Inv, BatchInv
  <2> QED
    BY <2>1, <2>2 DEF BatchInv
<1>19. Sound(pool, members', decision', stage', gold')
  <2>1. \A a \in Batches : stage[a] \in Worked => stage'[a] \in Worked /\ members'[a] = members[a]
    BY <1>7, <1>15
  <2>2. \A a \in Batches : stage[a] \in {"open", Torn} => stage'[a] \in {"open", Torn}
    BY <1>15
  <2>3. \A a \in Batches : stage'[a] = "finalized" =>
          /\ stage[a] = "finalized"
          /\ \A c \in Cases : decision'[a][c] = "accept" <=> decision[a][c] = "accept"
    BY <1>14, <1>15
  <2>4. \A c \in Cases : gold[c] # None => gold'[c] # None
    BY <1>14
  <2> QED
    BY <1>6, <2>1, <2>2, <2>3, <2>4, SoundNext
<1>20. Sound(rows, members', decision', stage', gold')
  <2>1. rows \in Pool
    BY <1>6, <1>9, <1>10, <1>5 DEF Sound, Pool, Chosen
  <2>2. ASSUME NEW c \in chosen
        PROVE  Grounded(c, rows[c], members', stage', gold') /\ Owned(c, rows[c], members', stage')
    <3>1. PICK row : row = rows[c]
      OBVIOUS
    <3>2. /\ c \in Cases /\ pool[c] # None /\ row.state = "in_retry_batch" /\ row.active = b
          /\ row.events = pool[c].events
      BY <1>9, <3>1
    <3>3. Grounded(c, pool[c], members', stage', gold')
      BY <1>19, <3>2 DEF Sound
    <3>4. stage'[b] = "open" /\ stage'[b] \in Worked /\ members'[b][c] # None
      BY <1>13, <1>15 DEF Worked
    <3>5. Grounded(c, row, members', stage', gold')
      BY <3>2, <3>3, <3>4 DEF Grounded
    <3>6. \A e \in row.events : e.batch # b
      BY <1>8, <3>2
    <3>7. Owned(c, row, members', stage')
      BY <1>4, <3>2, <3>4, <3>6 DEF Owned
    <3> QED
      BY <3>1, <3>5, <3>7
  <2>3. ASSUME NEW c \in Cases, rows[c] # None
        PROVE  /\ Grounded(c, rows[c], members', stage', gold')
               /\ Classified => Owned(c, rows[c], members', stage')
    BY <1>10, <1>19, <2>2, <2>3 DEF Sound
  <2>4. ASSUME NEW a \in Batches, stage'[a] = "finalized" PROVE Covered(rows, a, members', decision')
    <3>1. Covered(pool, a, members', decision')
      BY <1>19, <2>4 DEF Sound
    <3> QED
      BY <1>9, <1>10, <3>1 DEF Covered
  <2> QED
    BY <2>1, <2>3, <2>4 DEF Sound
<1>21. Underway(job[t])'
  BY <1>16, <1>20 DEF Underway
<1>22. PoolInv'
  BY <1>14, <1>19 DEF PoolInv
<1> QED
  BY <1>17, <1>18, <1>21, <1>22, OnlyJob DEF Inv

-----------------------------------------------------------------------------
(***************************************************************************)
(* A command is killed: the JSON file it was writing may be torn, and a    *)
(* directory without its batch.json may be left.                           *)
(***************************************************************************)
LEMMA CrashStep ==
    ASSUME Inv, OneTerminal, NEW t \in Terminals, Crash(t)
    PROVE  Inv'
<1>1. PICK b : b = job[t].batch
  OBVIOUS
<1>2. /\ Return(t) /\ crashes' = crashes + 1
      /\ UNCHANGED <<gold, pool, members, decision, failed, rebuilds>>
      /\ Underway(job[t])
  BY DEF Crash, Inv, JobInv
<1>3. \/ UNCHANGED <<stage, summary>>
      \/ /\ b \in Batches /\ stage' = stage
         /\ summary' = [summary EXCEPT ![b] = [state |-> Torn, corpus |-> None]]
      \/ /\ b \in Batches /\ stage[b] \in {"open", "finalized"} /\ summary' = summary
         /\ stage' = [stage EXCEPT ![b] = Torn]
      \/ /\ b \in Batches /\ stage[b] = "absent" /\ summary' = summary
         /\ stage' = [stage EXCEPT ![b] = "partial"]
  BY <1>1, <1>2 DEF Crash, At, Underway
<1>4. /\ stage \in [Batches -> {"absent", "partial", "empty", "open", "finalized", Torn}]
      /\ summary \in [Batches -> [state : {"absent", "integrated", "finalized", Torn},
                                  corpus : Corpus \union {None}]]
  BY DEF Inv, TypeInv
<1>5. /\ stage' \in [Batches -> {"absent", "partial", "empty", "open", "finalized", Torn}]
      /\ summary' \in [Batches -> [state : {"absent", "integrated", "finalized", Torn},
                                   corpus : Corpus \union {None}]]
  <2>1. [state |-> Torn, corpus |-> None] \in
          [state : {"absent", "integrated", "finalized", Torn}, corpus : Corpus \union {None}]
    OBVIOUS
  <2> QED
    BY <1>3, <1>4, <2>1
<1>6. ASSUME NEW a \in Batches
      PROVE  /\ stage[a] \in Worked => stage'[a] \in Worked
             /\ stage[a] \in {"open", Torn} => stage'[a] \in {"open", Torn}
             /\ stage'[a] = "finalized" => stage[a] = "finalized"
             /\ summary'[a].state \in {"integrated", "finalized"} => summary'[a] = summary[a]
  <2>1. CASE UNCHANGED <<stage, summary>>
    BY <2>1
  <2>2. CASE /\ b \in Batches /\ stage' = stage
             /\ summary' = [summary EXCEPT ![b] = [state |-> Torn, corpus |-> None]]
    BY <1>4, <2>2 DEF Torn
  <2>3. CASE /\ b \in Batches /\ stage[b] \in {"open", "finalized"} /\ summary' = summary
             /\ stage' = [stage EXCEPT ![b] = Torn]
    BY <1>4, <2>3 DEF Torn, Worked
  <2>4. CASE /\ b \in Batches /\ stage[b] = "absent" /\ summary' = summary
             /\ stage' = [stage EXCEPT ![b] = "partial"]
    BY <1>4, <2>4 DEF Torn, Worked
  <2> QED
    BY <1>3, <2>1, <2>2, <2>3, <2>4
<1>7. job' \in [Terminals -> Job] /\ Underway(job[t])'
  BY <1>2, ReturnIs DEF Inv, TypeInv
<1>8. TypeInv'
  BY <1>2, <1>5, <1>7 DEF Inv, TypeInv
<1>9. BatchInv'
  <2>1. ASSUME NEW a \in Batches,
               stage'[a] = "finalized" \/ summary'[a].state \in {"integrated", "finalized"}
        PROVE  stage'[a] \in Worked /\ Settled(a)' /\ InGold(a)'
    <3>1. stage[a] \in Worked /\ Settled(a) /\ InGold(a)
      BY <1>6, <2>1 DEF Inv, BatchInv
    <3> QED
      BY <1>2, <1>6, <3>1, SettledStays
  <2> QED
    BY <1>2, <1>6, <2>1 DEF BatchInv, Inv
<1>10. PoolInv'
  <2>1. Sound(pool, members, decision, stage, gold)
    BY DEF Inv, PoolInv
  <2>2. Sound(pool, members', decision', stage', gold')
    BY <1>2, <1>6, <2>1, SoundNext
  <2> QED
    BY <1>2, <2>2 DEF PoolInv
<1> QED
  BY <1>7, <1>8, <1>9, <1>10, OnlyJob DEF Inv

-----------------------------------------------------------------------------
\* There are no batches and no rows to begin with.
LEMMA InitInv == Init => Inv
<1> SUFFICES ASSUME Init PROVE Inv
  OBVIOUS
<1>1. \A t \in Terminals : job[t] = Idle
  BY DEF Init
<1>2. TypeInv
  <2>1. Absent \in [state : {"absent", "integrated", "finalized", Torn}, corpus : Corpus \union {None}]
    BY DEF Absent
  <2> QED
    BY <2>1, IdleIs DEF Init, TypeInv, Corpus
<1>3. BatchInv
  BY DEF Init, BatchInv, Absent
<1>4. PoolInv
  BY DEF Init, PoolInv, Sound, Pool
<1>5. JobInv
  BY <1>1, IdleIs DEF JobInv, Underway
<1> QED
  BY <1>2, <1>3, <1>4, <1>5 DEF Inv

\* A step that does not write the corpus keeps its records.
LEMMA GoldStays ==
    ASSUME gold' = gold
    PROVE  GoldKept
BY DEF GoldKept

\* Nothing happens.
LEMMA IdleStep ==
    ASSUME Inv, UNCHANGED vars
    PROVE  Inv'
<1>1. /\ gold' = gold /\ pool' = pool /\ stage' = stage /\ members' = members
      /\ decision' = decision /\ summary' = summary /\ job' = job /\ failed' = failed
      /\ crashes' = crashes /\ rebuilds' = rebuilds
  BY DEF vars, batches
<1>2. TypeInv'
  BY <1>1 DEF Inv, TypeInv
<1>3. \A b : MembersOf(b)' = MembersOf(b) /\ Accepted(b)' = Accepted(b)
  BY <1>1 DEF MembersOf, Accepted
<1>4. \A b : (Settled(b)' <=> Settled(b)) /\ (InGold(b)' <=> InGold(b))
  BY <1>1, <1>3 DEF Settled, Decided, InGold
<1>5. BatchInv'
  <2>1. BatchInv
    BY DEF Inv
  <2> QED
    BY <1>1, <1>4, <2>1 DEF BatchInv
<1>6. PoolInv'
  BY <1>1 DEF Inv, PoolInv
<1>7. ASSUME NEW t \in Terminals PROVE Underway(job[t])'
  <2>1. \A b : Combined(b)' = Combined(b)
    BY <1>1, <1>3 DEF Combined, AcceptedRecord
  <2>2. \A chosen, b : Chosen(chosen, b)' = Chosen(chosen, b)
    BY <1>1 DEF Chosen
  <2>3. \A rows, b : Reported(rows, b)' <=> Reported(rows, b)
    BY <1>1 DEF Reported
  <2>4. PICK j : j = job[t]
    OBVIOUS
  <2>5. Underway(j) /\ job'[t] = j
    BY <1>1, <2>4 DEF Inv, JobInv
  <2> QED
    BY <1>1, <1>4, <2>1, <2>2, <2>3, <2>5 DEF Underway
<1> QED
  BY <1>2, <1>5, <1>6, <1>7 DEF Inv, JobInv

\* Every step keeps the invariant, and every record.
LEMMA NextInv ==
    ASSUME OneTerminal
    PROVE  Inv /\ [Next]_vars => Inv' /\ GoldKept
<1> SUFFICES ASSUME Inv, [Next]_vars PROVE Inv' /\ GoldKept
  OBVIOUS
<1>1. CASE UNCHANGED vars
  <2>1. Inv'
    BY <1>1, IdleStep
  <2> QED
    BY <1>1, <2>1, GoldStays DEF vars
<1>2. ASSUME NEW b \in Batches, Adjudicate(b) \/ Migrate(b) PROVE Inv' /\ GoldKept
  BY <1>2, AdjudicateStep, MigrateStep, GoldStays DEF Adjudicate, Migrate
<1>3. ASSUME NEW t \in Terminals, NEW b \in NewBatches, Collect(t, b) PROVE Inv' /\ GoldKept
  BY <1>3, CollectStep, GoldStays DEF Collect
<1>4. ASSUME NEW t \in Terminals, WriteBatch(t) PROVE Inv' /\ GoldKept
  BY <1>4, WriteBatchStep, GoldStays DEF WriteBatch
<1>5. ASSUME NEW t \in Terminals, NEW b \in Batches, NEW command \in {"integrate", "finalize"},
             Integrate(t, b, command)
      PROVE  Inv' /\ GoldKept
  BY <1>5, IntegrateStep, GoldStays DEF Integrate
<1>6. ASSUME NEW t \in Terminals, WriteCorpus(t) PROVE Inv' /\ GoldKept
  BY <1>6, WriteCorpusStep
<1>7. ASSUME NEW t \in Terminals, WriteSummary(t) PROVE Inv' /\ GoldKept
  BY <1>7, SummaryStep, GoldStays DEF WriteSummary, At
<1>8. ASSUME NEW t \in Terminals, LoadPool(t) PROVE Inv' /\ GoldKept
  BY <1>8, LoadPoolStep, GoldStays DEF LoadPool
<1>9. ASSUME NEW t \in Terminals, WritePool(t) PROVE Inv' /\ GoldKept
  BY <1>9, WritePoolStep, GoldStays DEF WritePool
<1>10. ASSUME NEW t \in Terminals, WriteMetadata(t) PROVE Inv' /\ GoldKept
  BY <1>10, WriteMetadataStep, GoldStays DEF WriteMetadata
<1>11. ASSUME NEW t \in Terminals, WriteFinalSummary(t) PROVE Inv' /\ GoldKept
  BY <1>11, SummaryStep, GoldStays DEF WriteFinalSummary, At
<1>12. ASSUME NEW t \in Terminals, NEW context \in Contexts, OfferContext(t, context)
       PROVE  Inv' /\ GoldKept
  BY <1>12, OfferContextStep, GoldStays DEF OfferContext
<1>13. ASSUME NEW t \in Terminals, NEW b \in Batches, SelectRetries(t, b) PROVE Inv' /\ GoldKept
  BY <1>13, SelectRetriesStep, GoldStays DEF SelectRetries
<1>14. ASSUME NEW t \in Terminals, BuildRetryBatch(t) PROVE Inv' /\ GoldKept
  BY <1>14, BuildRetryBatchStep, GoldStays DEF BuildRetryBatch
<1>15. ASSUME NEW t \in Terminals, Rebuild(t) PROVE Inv' /\ GoldKept
  BY <1>15, RebuildStep, GoldStays DEF Rebuild
<1>16. ASSUME NEW t \in Terminals, Crash(t) PROVE Inv' /\ GoldKept
  BY <1>16, CrashStep, GoldStays DEF Crash
<1> QED
  BY <1>1, <1>2, <1>3, <1>4, <1>5, <1>6, <1>7, <1>8, <1>9, <1>10, <1>11, <1>12, <1>13, <1>14, <1>15,
     <1>16 DEF Next

\* The invariant holds whenever commands run one after the other.
THEOREM Invariance == OneTerminal => (Spec => []Inv)
<1> SUFFICES ASSUME OneTerminal PROVE Spec => []Inv
  OBVIOUS
<1>1. Init => Inv
  BY InitInv
<1>2. Inv /\ [Next]_vars => Inv'
  BY NextInv
<1> QED
  BY <1>1, <1>2, PTL DEF Spec

(***************************************************************************)
(* TypeOK: the three stores hold what their readers expect of them.        *)
(***************************************************************************)
THEOREM TypeCorrect == OneTerminal => (Spec => []TypeOK)
<1> SUFFICES ASSUME OneTerminal PROVE Spec => []TypeOK
  OBVIOUS
<1>1. Inv => TypeOK
  BY DEF Inv, TypeInv, PoolInv, Sound, TypeOK, Job, Commands, Steps
<1> QED
  BY <1>1, Invariance, PTL

(***************************************************************************)
(* NoCaseLost: whatever is killed, run again or rebuilt.                   *)
(***************************************************************************)
THEOREM CasesAreNotLost == OneTerminal => (Spec => []NoCaseLost)
<1> SUFFICES ASSUME OneTerminal PROVE Spec => []NoCaseLost
  OBVIOUS
<1>1. Inv => NoCaseLost
  <2> SUFFICES ASSUME Inv, NEW b \in Batches, stage[b] = "finalized", NEW c \in MembersOf(b)
               PROVE  IF decision[b][c] = "accept" THEN gold[c] # None
                      ELSE pool[c] # None /\ \E e \in pool[c].events : e.batch = b
    BY DEF NoCaseLost
  <2>1. InGold(b) /\ Covered(pool, b, members, decision)
    BY DEF Inv, BatchInv, PoolInv, Sound
  <2> QED
    BY <2>1 DEF InGold, Accepted, Covered, MembersOf
<1> QED
  BY <1>1, Invariance, PTL

(***************************************************************************)
(* ResolvedIsGold: a row is resolved by what the corpus has.               *)
(***************************************************************************)
THEOREM ResolvedCasesAreGold == OneTerminal => (Spec => []ResolvedIsGold)
<1> SUFFICES ASSUME OneTerminal PROVE Spec => []ResolvedIsGold
  OBVIOUS
<1>1. Inv => ResolvedIsGold
  BY DEF Inv, PoolInv, Sound, Grounded, ResolvedIsGold
<1> QED
  BY <1>1, Invariance, PTL

(***************************************************************************)
(* InRetryIsOwned: where re-reviews end with classified blockers.          *)
(***************************************************************************)
THEOREM RetriesAreOwned == OneTerminal /\ Classified => (Spec => []InRetryIsOwned)
<1> SUFFICES ASSUME OneTerminal, Classified PROVE Spec => []InRetryIsOwned
  OBVIOUS
<1>1. Inv => InRetryIsOwned
  <2> SUFFICES ASSUME Inv, NEW c \in Cases, pool[c] # None, pool[c].state = "in_retry_batch"
               PROVE  /\ pool[c].active # None
                      /\ c \in MembersOf(pool[c].active)
                      /\ stage[pool[c].active] \in {"open", Torn}
    BY DEF InRetryIsOwned
  <2>1. Owned(c, pool[c], members, stage)
    BY DEF Inv, PoolInv, Sound
  <2> QED
    BY <2>1, RetryBatchesAssumption, NoneAssumption DEF Owned, MembersOf
<1> QED
  BY <1>1, Invariance, PTL

(***************************************************************************)
(* ProvenanceKept: integrations only add to the corpus.                    *)
(***************************************************************************)
THEOREM ProvenanceStays == OneTerminal => (Spec => ProvenanceKept)
<1> SUFFICES ASSUME OneTerminal PROVE Spec => ProvenanceKept
  OBVIOUS
<1>1. ASSUME Inv, [Next]_vars
      PROVE  [\A c \in Cases : gold[c] # None =>
                gold'[c] # None /\ gold[c].sources \subseteq gold'[c].sources]_vars
  BY <1>1, NextInv DEF GoldKept
<1> QED
  BY InitInv, NextInv, <1>1, PTL DEF Spec, ProvenanceKept

-----------------------------------------------------------------------------
(***************************************************************************)
(* What re-reviews have done to a row.  This is about commands that are    *)
(* not killed and a pool that is not rebuilt, which could forget what      *)
(* failed.  Where new batches share a case, the second one can put it      *)
(* under review twice, and attempts lose their numbers; the context a row  *)
(* last failed with is the right one even then.                            *)
(***************************************************************************)
Subjects(b) == {About[s] : s \in Prepared[b]}

\* No two new batches have a case in common.
Apart == \A a, b \in NewBatches : a # b => Subjects(a) \intersect Subjects(b) = {}

Undisturbed ==
    /\ OneTerminal
    /\ MaxCrashes = 0 /\ MaxRebuilds = 0

ReportedIn(row, b) == \E e \in row.events : e.batch = b

\* A row is opened by a new batch, its events tell what was decided for good,
\* and it has counted the re-reviews that failed; if new batches are apart, each
\* has its own number.
History(c, row, ms, ds) ==
    /\ \E e \in row.events : e.batch \in NewBatches
    /\ \A e \in row.events :
         /\ e.outcome = ds[e.batch][c]
         /\ \A d \in Cases : ms[e.batch][d] # None => ds[e.batch][d] \notin {None, "unresolved"}
    /\ row.attempts = Cardinality(FailedRetries(row.events))
    /\ Apart =>
         /\ \A a \in FailedRetries(row.events) : ms[a][c].attempt <= row.attempts
         /\ \A a, b \in FailedRetries(row.events) : a # b => ms[a][c].attempt # ms[b][c].attempt
    /\ row.state = "ready" => row.context # None

\* A case of a re-review batch has a row, which has the batch's event once the
\* batch is finalized; until it has, the batch is the next attempt, if apart.
Retried(b, c, row) ==
    /\ stage[b] \in {"open", "finalized"}
    /\ members[b][c].context # None
    /\ row # None
    /\ stage[b] = "finalized" => ReportedIn(row, b)
    /\ Apart /\ ~ReportedIn(row, b) => members[b][c].attempt = row.attempts + 1

PastInv ==
    /\ \A c \in Cases : IF pool[c] = None THEN failed[c] = None
                        ELSE History(c, pool[c], members, decision)
    /\ \A b \in NewBatches, c \in Cases :
         members[b][c] # None => c \in Subjects(b) /\ members[b][c].context = None
    /\ \A b \in RetryBatches, c \in Cases : members[b][c] # None => Retried(b, c, pool[c])
    /\ Apart => OneOpenRetry

\* What a re-review of the case is about to fail with.
Fails(b, c) == b \in RetryBatches /\ stage[b] = "open" /\ decision[b][c] = "retryable"

\* An open batch has not reported its cases, but between the two writes of the
\* command that finalizes it, and if apart it holds their rows, but between those
\* of the one that opens it; the last context a row has failed with is the one
\* last recorded.
Holding(j) ==
    /\ \A b \in RetryBatches, c \in Cases : members[b][c] # None /\ stage[b] = "open" =>
         IF ReportedIn(pool[c], b) THEN j.step = "metadata" /\ j.batch = b
         ELSE Apart => \/ pool[c].active = b
                       \/ j.step = "store" /\ j.command = "retry" /\ j.batch = b
    /\ \A c \in Cases : pool[c] # None =>
         pool[c].latest = IF j.step = "metadata" /\ Fails(j.batch, c)
                            THEN members[j.batch][c].context ELSE failed[c]

\* What a command is about to write is made of what is still there.
Carried(j) ==
    /\ j.step = "files" /\ j.command = "create" =>
         /\ j.batch \in NewBatches
         /\ \A c \in Cases : j.rows[c] # None => c \in Subjects(j.batch) /\ j.rows[c].context = None
    /\ j.step = "files" /\ j.command = "retry" =>
         \E chosen \in SUBSET {c \in Cases : pool[c] # None /\ Selectable(pool[c])} :
           j.rows = Chosen(chosen, j.batch)
    /\ j.step = "load" => j.command = "finalize"
    /\ j.step = "store" =>
         \/ j.command = "finalize" /\ j.rows = PoolWith(j.batch)
         \/ /\ j.command = "ready"
            /\ \E context \in Contexts :
                 j.rows = [c \in Cases |-> IF pool[c] = None THEN None ELSE MarkReady(pool[c], context)]
         \/ /\ j.command = "retry" /\ j.batch \in RetryBatches
            /\ \A c \in MembersOf(j.batch) : pool[c] # None /\ pool[c].active = None
            /\ j.rows = Chosen(MembersOf(j.batch), j.batch)
    /\ j.step = "metadata" /\ j.batch \in RetryBatches =>
         \A c \in MembersOf(j.batch) : ReportedIn(pool[c], j.batch)

RetryInv == PastInv /\ \A t \in Terminals : Holding(job[t]) /\ Carried(job[t])

-----------------------------------------------------------------------------
\* A row's history is told by the batches of its events.
LEMMA HistoryStays ==
    ASSUME NEW c \in Cases, NEW row \in Row, NEW ms, NEW ds, NEW ms2, NEW ds2,
           History(c, row, ms, ds),
           \A e \in row.events : ms2[e.batch] = ms[e.batch] /\ ds2[e.batch] = ds[e.batch]
    PROVE  History(c, row, ms2, ds2)
<1>1. \A a \in FailedRetries(row.events) : \E e \in row.events : e.batch = a
  BY DEF FailedRetries
<1>2. \A a \in FailedRetries(row.events) : ms2[a] = ms[a]
  BY <1>1
<1> QED
  BY <1>2 DEF History

\* What a new event makes of the count of failed re-reviews.
LEMMA OneMoreFailed ==
    ASSUME NEW events \in SUBSET Event, NEW event \in Event, \A e \in events : e.batch # event.batch
    PROVE  IF event.batch \in RetryBatches /\ event.outcome = "retryable"
             THEN /\ FailedRetries(events \union {event}) = FailedRetries(events) \union {event.batch}
                  /\ event.batch \notin FailedRetries(events)
                  /\ Cardinality(FailedRetries(events \union {event}))
                       = Cardinality(FailedRetries(events)) + 1
             ELSE FailedRetries(events \union {event}) = FailedRetries(events)
<1>1. CASE event.batch \in RetryBatches /\ event.outcome = "retryable"
  <2>1. FailedRetries(events \union {event}) = FailedRetries(events) \union {event.batch}
    BY <1>1 DEF FailedRetries
  <2>2. event.batch \notin FailedRetries(events)
    BY DEF FailedRetries
  <2>3. IsFiniteSet(FailedRetries(events))
    <3>1. FailedRetries(events) \subseteq 1 .. LastBatch
      BY DEF FailedRetries, Event, Batches
    <3>2. IsFiniteSet(1 .. LastBatch)
      BY FS_Interval, LastBatchAssumption
    <3> QED
      BY <3>1, <3>2, FS_Subset
  <2> QED
    BY <1>1, <2>1, <2>2, <2>3, FS_AddElement
<1>2. CASE ~(event.batch \in RetryBatches /\ event.outcome = "retryable")
  BY <1>2 DEF FailedRetries
<1> QED
  BY <1>1, <1>2

\* What a blocker does to a row's counters.
LEMMA BlockedCounts ==
    ASSUME NEW row \in Row, NEW event \in Event, event.outcome \in Blockers \union Historical
    PROVE  LET new == Blocked(row, event)
               failures == Cardinality(FailedRetries(row.events))
               retryable == event.outcome \in {"retryable"} \union Historical
           IN  /\ new.events = row.events /\ new.context = row.context /\ new.state # "ready"
               /\ new.attempts = IF retryable /\ failures > row.attempts THEN failures ELSE row.attempts
               /\ new.latest = IF retryable /\ event.context # None THEN event.context ELSE row.latest
<1> DEFINE blocker == BlockerOf(event.outcome)
           failures == Cardinality(FailedRetries(row.events))
           tries == IF blocker = "retryable" /\ failures > row.attempts THEN failures ELSE row.attempts
           latest == IF blocker = "retryable" /\ event.context # None THEN event.context ELSE row.latest
<1>1. /\ blocker \in Blockers
      /\ blocker = "retryable" <=> event.outcome \in {"retryable"} \union Historical
  BY DEF BlockerOf, Blockers, Historical
<1>2. StateOf(blocker) # "ready"
  BY <1>1 DEF StateOf, Blockers
<1>3. Blocked(row, event) =
        [row EXCEPT !.blocker = blocker, !.state = StateOf(blocker), !.active = None,
                    !.attempts = tries, !.latest = latest]
  BY DEF Blocked
<1>4. PICK new : new = Blocked(row, event)
  OBVIOUS
<1>5. /\ new.events = row.events /\ new.context = row.context /\ new.state = StateOf(blocker)
      /\ new.attempts = tries /\ new.latest = latest
  <2> HIDE DEF blocker, tries, latest
  <2> QED
    BY <1>3, <1>4 DEF Row
<1> QED
  BY <1>1, <1>2, <1>4, <1>5

\* What an event does to them.
LEMMA AppliedCounts ==
    ASSUME NEW row \in Row, NEW event \in Event
    PROVE  LET new == ApplyNew(row, event)
               failures == Cardinality(FailedRetries(row.events))
               retryable == event.outcome \in {"retryable"} \union Historical
           IN  /\ new.events = row.events /\ new.context = row.context
               /\ new.state = "ready" => row.state = "ready"
               /\ new.attempts = IF retryable /\ failures > row.attempts THEN failures ELSE row.attempts
               /\ new.latest = IF retryable /\ event.context # None THEN event.context ELSE row.latest
<1>1. event.outcome \in Blockers \union Historical \union {"accept", "bare"}
  BY DEF Event, Outcomes
<1>2. CASE event.outcome = "accept"
  <2>1. ApplyNew(row, event) = [row EXCEPT !.state = "resolved", !.active = None]
    BY <1>2 DEF ApplyNew
  <2>2. PICK new : new = ApplyNew(row, event)
    OBVIOUS
  <2>3. /\ new.events = row.events /\ new.context = row.context /\ new.state = "resolved"
        /\ new.attempts = row.attempts /\ new.latest = row.latest
    BY <2>1, <2>2 DEF Row
  <2> QED
    BY <1>2, <2>2, <2>3 DEF Historical
<1>3. CASE event.outcome = "bare"
  <2>1. ApplyNew(row, event) = [row EXCEPT !.state = "needs_triage"]
    BY <1>3 DEF ApplyNew
  <2>2. PICK new : new = ApplyNew(row, event)
    OBVIOUS
  <2>3. /\ new.events = row.events /\ new.context = row.context /\ new.state = "needs_triage"
        /\ new.attempts = row.attempts /\ new.latest = row.latest
    BY <2>1, <2>2 DEF Row
  <2> QED
    BY <1>3, <2>2, <2>3 DEF Historical
<1>4. CASE event.outcome = "legacy" /\ row.blocker \in {"retryable", "terminal"}
  <2>1. ApplyNew(row, event) = row
    BY <1>4 DEF ApplyNew
  <2> QED
    BY <1>4, <2>1 DEF Historical
<1>5. CASE /\ event.outcome \in Blockers \union Historical
           /\ ~ (event.outcome = "legacy" /\ row.blocker \in {"retryable", "terminal"})
  <2>1. ApplyNew(row, event) = Blocked(row, event)
    BY <1>5 DEF ApplyNew, Blockers, Historical
  <2>2. PICK new : new = Blocked(row, event)
    OBVIOUS
  <2>3. LET failures == Cardinality(FailedRetries(row.events))
            retryable == event.outcome \in {"retryable"} \union Historical
        IN  /\ new.events = row.events /\ new.context = row.context /\ new.state # "ready"
            /\ new.attempts = IF retryable /\ failures > row.attempts THEN failures ELSE row.attempts
            /\ new.latest = IF retryable /\ event.context # None THEN event.context ELSE row.latest
    BY <1>5, <2>2, BlockedCounts
  <2> QED
    BY <2>1, <2>2, <2>3
<1> QED
  BY <1>1, <1>2, <1>3, <1>4, <1>5

\* The event of a batch that is decided for good goes down in the row's history,
\* once; the attempt it was is then the last one.
LEMMA MergedHistory ==
    ASSUME TypeInv, NEW c \in Cases, NEW b \in Batches, Settled(b), c \in MembersOf(b),
           NEW row \in Row \union {None},
           row # None =>
             History(c, row, members, decision) /\ Grounded(c, row, members, stage, gold),
           row = None => b \in NewBatches,
           b \in RetryBatches => decision[b][c] \notin Historical,
           Apart /\ b \in RetryBatches /\ row # None /\ ~ReportedIn(row, b) =>
             members[b][c].attempt = row.attempts + 1,
           b \in NewBatches => members[b][c].context = None
    PROVE  LET new == Merged(row, EventOf(b, c))
           IN  /\ History(c, new, members, decision)
               /\ row # None /\ ReportedIn(row, b) => new = row
               /\ row = None => new.latest = None
               /\ row # None /\ ~ReportedIn(row, b) =>
                    new.latest = IF /\ b \in RetryBatches /\ decision[b][c] = "retryable"
                                    /\ members[b][c].context # None
                                   THEN members[b][c].context ELSE row.latest
<1> DEFINE event == EventOf(b, c)
           old == IF row = None THEN EmptyRow(event) ELSE row
           added == [old EXCEPT !.events = old.events \union {event}]
           new == Merged(row, event)
           retryable == event.outcome \in {"retryable"} \union Historical
<1>1. /\ event \in Event /\ event.batch = b /\ event.outcome = decision[b][c]
      /\ event.context = members[b][c].context
  <2>1. members[b][c] \in Member /\ decision[b][c] \in Outcomes
    BY DEF TypeInv, MembersOf, Settled, Decided
  <2> QED
    BY <2>1 DEF EventOf, Event, Member
<1>2. /\ old \in Row
      /\ row = None => old.events = {} /\ old.attempts = 0 /\ old.latest = None /\ old.state # "ready"
  <2>1. EmptyRow(event) \in Row
    BY <1>1, EmptyRowIs
  <2> QED
    BY <2>1 DEF EmptyRow
<1>3. new = IF \E e \in old.events : SameEvent(e, event) THEN old ELSE ApplyNew(added, event)
  BY DEF Merged, ApplyEvent
<1>4. /\ old.attempts = Cardinality(FailedRetries(old.events))
      /\ \A e \in old.events :
           /\ e.outcome = decision[e.batch][c]
           /\ \A d \in Cases : members[e.batch][d] # None =>
                decision[e.batch][d] \notin {None, "unresolved"}
      /\ Apart =>
           /\ \A a \in FailedRetries(old.events) : members[a][c].attempt <= old.attempts
           /\ \A a, d \in FailedRetries(old.events) : a # d => members[a][c].attempt # members[d][c].attempt
      /\ row # None => \E e \in old.events : e.batch \in NewBatches
      /\ old.state = "ready" => old.context # None
  <2>1. CASE row = None
    <3>1. FailedRetries(old.events) = {}
      BY <1>2, <2>1 DEF FailedRetries
    <3> QED
      BY <1>2, <2>1, <3>1, FS_EmptySet
  <2>2. CASE row # None
    BY <2>2 DEF History
  <2> QED
    BY <2>1, <2>2
<1>5. /\ added \in Row /\ added.events = old.events \union {event} /\ added.context = old.context
      /\ added.state = old.state /\ added.attempts = old.attempts /\ added.latest = old.latest
  <2> HIDE DEF old, event
  <2> QED
    BY <1>1, <1>2 DEF Row
<1>6. (\E e \in old.events : SameEvent(e, event)) <=> ReportedIn(old, b)
  BY <1>1, <1>4 DEF SameEvent, ReportedIn
<1>7. row # None => old = row
  OBVIOUS
<1>8. row = None => ~ReportedIn(old, b)
  BY <1>2 DEF ReportedIn
<1> HIDE DEF event, old, added, new
<1>9. CASE ReportedIn(old, b)
  <2>1. row # None /\ new = row
    BY <1>3, <1>6, <1>7, <1>8, <1>9
  <2> QED
    BY <1>7, <1>9, <2>1 DEF new, event
<1>10. CASE ~ReportedIn(old, b)
  <2> DEFINE failures == Cardinality(FailedRetries(added.events))
  <2>1. new = ApplyNew(added, event)
    BY <1>3, <1>6, <1>10
  <2>2. /\ new.events = added.events /\ new.context = added.context
        /\ new.state = "ready" => added.state = "ready"
        /\ new.attempts = IF retryable /\ failures > added.attempts THEN failures ELSE added.attempts
        /\ new.latest = IF retryable /\ event.context # None THEN event.context ELSE added.latest
    BY <1>1, <1>5, <2>1, AppliedCounts
  <2>3. old.events \in SUBSET Event /\ old.attempts \in Nat
    BY <1>2 DEF Row
  <2>4. \A e \in old.events : e.batch # event.batch
    BY <1>1, <1>10 DEF ReportedIn
  <2>5. IF b \in RetryBatches /\ event.outcome = "retryable"
          THEN /\ FailedRetries(added.events) = FailedRetries(old.events) \union {b}
               /\ b \notin FailedRetries(old.events)
               /\ failures = old.attempts + 1
          ELSE FailedRetries(added.events) = FailedRetries(old.events)
    BY <1>1, <1>4, <1>5, <2>3, <2>4, OneMoreFailed
  <2>6. b \in RetryBatches => event.outcome \notin Historical
    BY <1>1
  <2>7. \A e \in new.events :
          /\ e.outcome = decision[e.batch][c]
          /\ \A d \in Cases : members[e.batch][d] # None => decision[e.batch][d] \notin {None, "unresolved"}
    BY <1>1, <1>4, <1>5, <2>2 DEF Settled, Decided, MembersOf
  <2>8. \E e \in new.events : e.batch \in NewBatches
    BY <1>1, <1>4, <1>5, <2>2
  <2>9. new.state = "ready" => new.context # None
    BY <1>4, <1>5, <2>2
  <2>10. /\ new.attempts = Cardinality(FailedRetries(new.events))
         /\ Apart =>
              /\ \A a \in FailedRetries(new.events) : members[a][c].attempt <= new.attempts
              /\ \A a, d \in FailedRetries(new.events) : a # d => members[a][c].attempt # members[d][c].attempt
    <3>1. CASE b \in RetryBatches /\ event.outcome = "retryable"
      <4>1. row # None
        BY <3>1 DEF NewBatches
      <4>2. Apart => members[b][c].attempt = old.attempts + 1
        BY <1>7, <1>10, <3>1, <4>1
      <4>3. new.attempts = old.attempts + 1 /\ new.attempts = failures
        BY <1>5, <2>2, <2>3, <2>5, <3>1
      <4>4. \A a \in FailedRetries(old.events) : members[a][c].attempt \in Nat
        <5>1. \A e \in old.events : e.batch \in Batches /\ members[e.batch][c] # None
          BY <1>2, <1>7, <4>1 DEF Grounded, Row, Event
        <5>2. \A e \in old.events : members[e.batch][c] \in Member
          BY <5>1 DEF TypeInv
        <5> QED
          BY <5>2 DEF FailedRetries, Member
      <4>5. FailedRetries(new.events) = FailedRetries(old.events) \union {b}
        BY <2>2, <2>5, <3>1
      <4>6. new.attempts = Cardinality(FailedRetries(new.events))
        BY <2>2, <4>3
      <4>7. ASSUME Apart
            PROVE  /\ \A a \in FailedRetries(new.events) : members[a][c].attempt <= new.attempts
                   /\ \A a, d \in FailedRetries(new.events) :
                        a # d => members[a][c].attempt # members[d][c].attempt
        <5>1. /\ \A a \in FailedRetries(old.events) : members[a][c].attempt <= old.attempts
              /\ \A a, d \in FailedRetries(old.events) :
                   a # d => members[a][c].attempt # members[d][c].attempt
          BY <1>4, <4>7
        <5>2. members[b][c].attempt = old.attempts + 1 /\ new.attempts = old.attempts + 1
          BY <4>2, <4>3, <4>7
        <5>3. \A a \in FailedRetries(old.events) : members[a][c].attempt < members[b][c].attempt
          BY <2>3, <4>4, <5>1, <5>2
        <5> QED
          BY <2>3, <4>4, <4>5, <5>1, <5>2, <5>3
      <4> QED
        BY <4>6, <4>7
    <3>2. CASE ~(b \in RetryBatches /\ event.outcome = "retryable")
      <4>1. failures = old.attempts
        BY <1>4, <2>5, <3>2
      <4>2. new.attempts = old.attempts
        BY <1>5, <2>2, <2>3, <4>1
      <4>3. FailedRetries(new.events) = FailedRetries(old.events)
        BY <2>2, <2>5, <3>2
      <4> QED
        BY <1>4, <4>2, <4>3
    <3> QED
      BY <3>1, <3>2
  <2>11. History(c, new, members, decision)
    BY <2>7, <2>8, <2>9, <2>10 DEF History
  <2>12. row = None => new.latest = None
    BY <1>1, <1>2, <1>5, <2>2
  <2>13. row # None =>
           new.latest = IF b \in RetryBatches /\ decision[b][c] = "retryable" /\ members[b][c].context # None
                          THEN members[b][c].context ELSE row.latest
    <3>1. b \in NewBatches \/ b \in RetryBatches
      BY DEF NewBatches
    <3> QED
      BY <1>1, <1>5, <1>7, <2>2, <2>6, <3>1
  <2> QED
    BY <1>7, <1>10, <2>11, <2>12, <2>13 DEF new, event
<1> QED
  BY <1>9, <1>10

-----------------------------------------------------------------------------
(***************************************************************************)
(* Commands that only read, or write neither pool nor batches.             *)
(***************************************************************************)
\* A command that is neither between the writes that open a batch nor between
\* those that finalize one.
Aside(j) == j.step # "metadata" /\ ~(j.step = "store" /\ j.command = "retry")

\* A step that changes neither the batches nor the pool keeps PastInv.
LEMMA PastStays ==
    ASSUME PastInv, UNCHANGED <<pool, members, decision, stage, failed>>
    PROVE  PastInv'
BY DEF PastInv, Retried, OneOpenRetry, MembersOf

\* The one command goes on, and nothing else does.
LEMMA ReadingStep ==
    ASSUME OneTerminal, RetryInv, NEW t \in Terminals,
           UNCHANGED <<pool, members, decision, stage, failed>>,
           Aside(job[t]), job'[t].step # "metadata", Carried(job[t])'
    PROVE  RetryInv'
<1>1. PastInv'
  BY PastStays DEF RetryInv
<1>2. PICK j : j = job[t]
  OBVIOUS
<1>3. PICK k : k = job'[t]
  OBVIOUS
<1>4. Holding(j) /\ Aside(j) /\ k.step # "metadata"
  BY <1>2, <1>3 DEF RetryInv
<1>5. Holding(k)
  BY <1>4 DEF Holding, Aside
<1>6. Holding(k)'
  BY <1>5 DEF Holding, Fails
<1>7. Holding(job[t])'
  BY <1>3, <1>6
<1> QED
  BY <1>1, <1>7 DEF RetryInv, OneTerminal

\* A command that returns carries nothing.
LEMMA ReturningStep ==
    ASSUME Inv, OneTerminal, RetryInv, NEW t \in Terminals, Aside(job[t]), Return(t),
           UNCHANGED <<pool, members, decision, stage, failed>>
    PROVE  RetryInv'
<1>1. job'[t] = Idle /\ Idle.step = "idle"
  BY IdleIs DEF Inv, TypeInv, Return
<1>2. Carried(job[t])'
  BY <1>1 DEF Carried
<1> QED
  BY <1>1, <1>2, ReadingStep

\* Collecting takes only cases of the batch it is for.
LEMMA CollectHistory ==
    ASSUME Inv, OneTerminal, RetryInv, NEW t \in Terminals, NEW b \in NewBatches, Collect(t, b)
    PROVE  RetryInv'
<1> DEFINE rows == [c \in Cases |-> IF c \in Selected(b) THEN CollectedCase(Cluster(b, c)) ELSE None]
           new == [Idle EXCEPT !.command = "create", !.step = "files", !.batch = b, !.rows = rows]
<1>1. ASSUME NEW c \in Cases, rows[c] # None
      PROVE  c \in Subjects(b) /\ rows[c].context = None
  <2>1. c \in Selected(b) /\ rows[c] = CollectedCase(Cluster(b, c))
    BY <1>1
  <2>2. PICK s \in Cluster(b, c) : TRUE
    BY <2>1 DEF Selected, Unseen
  <2>3. s \in Prepared[b] /\ About[s] = c
    BY <2>2 DEF Cluster, Candidates
  <2> QED
    BY <2>1, <2>3 DEF Subjects, CollectedCase
<1>2. At(t, "idle") /\ job' = [job EXCEPT ![t] = new]
      /\ UNCHANGED <<pool, members, decision, stage, failed>>
  BY DEF Collect, batches
<1> HIDE DEF rows
<1>3. new.step = "files" /\ new.command = "create" /\ new.batch = b /\ new.rows = rows
  BY DEF Idle
<1> HIDE DEF new
<1>4. job'[t] = new
  BY <1>2 DEF Inv, TypeInv
<1>5. Carried(job[t])'
  BY <1>1, <1>3, <1>4 DEF Carried
<1> QED
  BY <1>2, <1>3, <1>4, <1>5, ReadingStep DEF Aside, At

\* integrate_batch looks up the batch and has nothing of the pool in hand yet.
LEMMA IntegrateHistory ==
    ASSUME Inv, OneTerminal, RetryInv, NEW t \in Terminals, NEW b \in Batches,
           NEW command \in {"integrate", "finalize"}, Integrate(t, b, command)
    PROVE  RetryInv'
<1>1. PICK done : done = (/\ summary[b].state \in {"integrated", "finalized"}
                          /\ summary[b].corpus = Combined(b))
  OBVIOUS
<1>2. PICK next : next = IF ~ done THEN "corpus"
                         ELSE IF command = "finalize" THEN "load" ELSE "idle"
  OBVIOUS
<1>3. PICK new : new = IF next = "idle" THEN Idle
                       ELSE [command |-> command, step |-> next, batch |-> b,
                             corpus |-> Combined(b), rows |-> None]
  OBVIOUS
<1>4. /\ At(t, "idle") /\ job' = [job EXCEPT ![t] = new]
      /\ UNCHANGED <<pool, members, decision, stage, failed>>
  BY <1>1, <1>2, <1>3 DEF Integrate, batches
<1>5. new.step \in {"corpus", "load", "idle"} /\ (new.step = "load" => new.command = "finalize")
  BY <1>2, <1>3, IdleIs
<1>6. job'[t] = new
  BY <1>4 DEF Inv, TypeInv
<1>7. Carried(job[t])'
  BY <1>5, <1>6 DEF Carried
<1> QED
  BY <1>4, <1>5, <1>6, <1>7, ReadingStep DEF Aside, At

\* The corpus and the summaries are of no concern to the pool.
LEMMA WritingHistory ==
    ASSUME Inv, OneTerminal, RetryInv, NEW t \in Terminals,
           WriteCorpus(t) \/ WriteSummary(t) \/ WriteFinalSummary(t)
    PROVE  RetryInv'
<1>1. /\ UNCHANGED <<pool, members, decision, stage, failed>> /\ Aside(job[t])
      /\ \/ Return(t)
         \/ Goto(t, "summary")
         \/ Goto(t, "load") /\ job[t].command = "finalize"
  BY DEF WriteCorpus, WriteSummary, WriteFinalSummary, batches, Aside, At
<1>2. CASE Return(t)
  BY <1>1, <1>2, ReturningStep
<1>3. ASSUME NEW step \in {"load", "summary"}, Goto(t, step), step = "load" => job[t].command = "finalize"
      PROVE  RetryInv'
  <2>1. job'[t].step = step /\ job'[t].command = job[t].command
    BY <1>3, GotoIs DEF Inv, TypeInv, Steps
  <2>2. Carried(job[t])'
    BY <1>3, <2>1 DEF Carried
  <2> QED
    BY <1>1, <2>1, <2>2, ReadingStep
<1> QED
  BY <1>1, <1>2, <1>3

\* What batch-finalize is about to write follows from the pool it has read.
LEMMA LoadPoolHistory ==
    ASSUME Inv, OneTerminal, RetryInv, NEW t \in Terminals, LoadPool(t)
    PROVE  RetryInv'
<1>1. PICK j : j = job[t]
  OBVIOUS
<1>2. PICK rows : rows = PoolWith(j.batch)
  OBVIOUS
<1>3. PICK new : new = [j EXCEPT !.rows = rows, !.step = "store"]
  OBVIOUS
<1>4. /\ j.step = "load" /\ j \in Job
      /\ UNCHANGED <<pool, members, decision, stage, failed>>
  BY <1>1 DEF LoadPool, At, batches, Inv, TypeInv
<1>5. job' = [job EXCEPT ![t] = new]
  BY <1>1, <1>2, <1>3, <1>4 DEF LoadPool
<1>6. job'[t] = new /\ new.step = "store" /\ new.rows = rows /\ new.batch = j.batch
      /\ new.command = j.command
  BY <1>1, <1>3, <1>4, <1>5 DEF Inv, TypeInv, Job
<1>7. new.command = "finalize"
  BY <1>1, <1>4, <1>6 DEF RetryInv, Carried
<1>8. PoolWith(j.batch)' = rows
  <2>1. \A b : MembersOf(b)' = MembersOf(b)
    BY <1>4 DEF MembersOf
  <2> QED
    BY <1>2, <1>4, <2>1 DEF PoolWith, EventOf
<1>9. Carried(job[t])'
  BY <1>6, <1>7, <1>8 DEF Carried
<1> QED
  BY <1>1, <1>4, <1>6, <1>9, ReadingStep DEF Aside

\* So it does for the command that marks rows ready.
LEMMA OfferContextHistory ==
    ASSUME Inv, OneTerminal, RetryInv, NEW t \in Terminals, NEW context \in Contexts,
           OfferContext(t, context)
    PROVE  RetryInv'
<1>1. PICK rows : rows = [c \in Cases |-> IF pool[c] = None THEN None ELSE MarkReady(pool[c], context)]
  OBVIOUS
<1>2. PICK new : new = [Idle EXCEPT !.command = "ready", !.step = "store", !.rows = rows]
  OBVIOUS
<1>3. /\ At(t, "idle") /\ job' = [job EXCEPT ![t] = new]
      /\ UNCHANGED <<pool, members, decision, stage, failed>>
  BY <1>1, <1>2 DEF OfferContext, batches
<1>4. new.command = "ready" /\ new.step = "store" /\ new.rows = rows
  BY <1>2 DEF Idle
<1>5. job'[t] = new
  BY <1>3 DEF Inv, TypeInv
<1>6. Carried(job[t])'
  BY <1>1, <1>3, <1>4, <1>5 DEF Carried
<1> QED
  BY <1>3, <1>4, <1>5, <1>6, ReadingStep DEF Aside, At

\* A retry batch is made of rows that have just been selected.
LEMMA SelectRetriesHistory ==
    ASSUME Inv, OneTerminal, RetryInv, NEW t \in Terminals, NEW b \in Batches, SelectRetries(t, b)
    PROVE  RetryInv'
<1>1. PICK chosen \in SUBSET {c \in Cases : pool[c] # None /\ Selectable(pool[c])} :
        job' = [job EXCEPT ![t] = [Idle EXCEPT !.command = "retry", !.step = "files", !.batch = b,
                                               !.rows = Chosen(chosen, b)]]
  BY DEF SelectRetries, Chosen
<1>2. PICK rows : rows = Chosen(chosen, b)
  OBVIOUS
<1>3. PICK new : new = [Idle EXCEPT !.command = "retry", !.step = "files", !.batch = b, !.rows = rows]
  OBVIOUS
<1>4. At(t, "idle") /\ UNCHANGED <<pool, members, decision, stage, failed>>
  BY DEF SelectRetries, batches
<1>5. new.command = "retry" /\ new.step = "files" /\ new.batch = b /\ new.rows = rows
  BY <1>3 DEF Idle
<1>6. job'[t] = new
  BY <1>1, <1>2, <1>3 DEF Inv, TypeInv
<1>7. Chosen(chosen, b)' = rows
  BY <1>2, <1>4 DEF Chosen
<1>8. Carried(job[t])'
  BY <1>4, <1>5, <1>6, <1>7 DEF Carried
<1> QED
  BY <1>4, <1>5, <1>6, <1>8, ReadingStep DEF Aside, At

\* Decisions that may change are in no row yet.
LEMMA ReviewHistory ==
    ASSUME Inv, RetryInv, NEW b \in Batches, ~Settled(b),
           \A a \in Batches : a # b => decision'[a] = decision[a],
           UNCHANGED <<pool, stage, members, job, failed>>
    PROVE  RetryInv'
<1>1. ASSUME NEW c \in Cases, pool[c] # None
      PROVE  History(c, pool[c], members', decision')
  <2>1. pool[c] \in Row /\ History(c, pool[c], members, decision)
    BY <1>1 DEF Inv, PoolInv, Sound, Pool, RetryInv, PastInv
  <2>2. \A e \in pool[c].events : e.batch \in Batches /\ e.batch # b
    BY <2>1 DEF Row, Event, History, Settled, Decided, MembersOf
  <2> QED
    BY <2>1, <2>2, HistoryStays
<1>2. PastInv'
  BY <1>1 DEF RetryInv, PastInv, Retried, OneOpenRetry, MembersOf
<1>3. ASSUME NEW t \in Terminals
      PROVE  Holding(job[t])' /\ Carried(job[t])'
  <2>1. PICK j : j = job[t]
    OBVIOUS
  <2>2. Holding(j) /\ Carried(j) /\ Underway(j)
    BY <2>1 DEF RetryInv, Inv, JobInv
  <2>3. j.step = "metadata" \/ (j.step = "store" /\ j.command = "finalize") =>
          j.batch \in Batches /\ j.batch # b
    BY <2>2 DEF Underway
  <2>4. Holding(j)'
    BY <2>2, <2>3 DEF Holding, Fails
  <2>5. ASSUME NEW a \in Batches, a # b PROVE PoolWith(a)' = PoolWith(a)
    <3>1. MembersOf(a)' = MembersOf(a) /\ decision'[a] = decision[a]
      BY <2>5 DEF MembersOf
    <3> QED
      BY <3>1 DEF PoolWith, EventOf
  <2>6. Carried(j)'
    <3>1. \A a : MembersOf(a)' = MembersOf(a)
      BY DEF MembersOf
    <3>2. \A chosen, a : Chosen(chosen, a)' = Chosen(chosen, a)
      BY DEF Chosen
    <3> QED
      BY <2>2, <2>3, <2>5, <3>1, <3>2 DEF Carried
  <2> QED
    BY <2>1, <2>4, <2>6
<1> QED
  BY <1>2, <1>3 DEF RetryInv

\* A decision is taken in an open batch, by a review.
LEMMA DecideHistory ==
    ASSUME Inv, RetryInv, NEW b \in Batches, Adjudicate(b) \/ Migrate(b)
    PROVE  RetryInv'
<1>1. decision \in [Batches -> [Cases -> Outcomes \union {None}]]
  BY DEF Inv, TypeInv
<1>2. ~Settled(b)
  BY DEF Adjudicate, Migrate, Settled
<1>3. \A a \in Batches : a # b => decision'[a] = decision[a]
  BY <1>1 DEF Adjudicate, Migrate
<1> QED
  BY <1>2, <1>3, ReviewHistory DEF Adjudicate, Migrate

-----------------------------------------------------------------------------
(***************************************************************************)
(* Batches that are opened.                                                *)
(***************************************************************************)
\* A batch that is not there yet is in no row.
LEMMA AbsentIs ==
    ASSUME Inv, RetryInv, NEW b \in Batches, stage[b] = "absent", NEW c \in Cases, pool[c] # None
    PROVE  /\ pool[c] \in Row /\ Grounded(c, pool[c], members, stage, gold)
           /\ History(c, pool[c], members, decision)
           /\ pool[c].active # b /\ \A e \in pool[c].events : e.batch \in Batches /\ e.batch # b
<1>1. pool[c] \in Row /\ Grounded(c, pool[c], members, stage, gold)
  BY DEF Inv, PoolInv, Sound, Pool
<1>2. stage[b] \notin Worked /\ b # None
  BY NoneAssumption DEF Worked, Torn
<1>3. \A e \in pool[c].events : e.batch \in Batches
  BY <1>1 DEF Row, Event
<1> QED
  BY <1>1, <1>2, <1>3 DEF Grounded, RetryInv, PastInv

\* A new batch has the cases that were collected for it.
LEMMA WriteBatchHistory ==
    ASSUME Inv, OneTerminal, RetryInv, NEW t \in Terminals, WriteBatch(t)
    PROVE  RetryInv'
<1>1. PICK j : j = job[t]
  OBVIOUS
<1>2. PICK b : b = j.batch
  OBVIOUS
<1>3. PICK state : state = IF \A c \in Cases : j.rows[c] = None THEN "empty" ELSE "open"
  OBVIOUS
<1>4. /\ j.step = "files" /\ j.command = "create"
      /\ members' = [members EXCEPT ![b] = j.rows] /\ stage' = [stage EXCEPT ![b] = state]
      /\ Return(t) /\ UNCHANGED <<pool, decision, failed>>
  BY <1>1, <1>2, <1>3 DEF WriteBatch, At
<1>5. Underway(j) /\ Holding(j) /\ Carried(j)
  BY <1>1 DEF Inv, JobInv, RetryInv
<1>6. /\ b \in NewBatches /\ b \in Batches /\ stage[b] = "absent"
      /\ \A c \in Cases : j.rows[c] # None => c \in Subjects(b) /\ j.rows[c].context = None
  BY <1>2, <1>4, <1>5 DEF Underway, Carried
<1>7. /\ \A a \in Batches : a # b => stage'[a] = stage[a] /\ members'[a] = members[a]
      /\ members'[b] = j.rows
  BY <1>4, <1>6 DEF Inv, TypeInv
<1>8. ASSUME NEW c \in Cases, pool[c] # None
      PROVE  History(c, pool[c], members', decision')
  <2>1. /\ pool[c] \in Row /\ History(c, pool[c], members, decision)
        /\ \A e \in pool[c].events : e.batch \in Batches /\ e.batch # b
    BY <1>6, <1>8, AbsentIs
  <2>2. \A e \in pool[c].events :
          members'[e.batch] = members[e.batch] /\ decision'[e.batch] = decision[e.batch]
    BY <1>4, <1>7, <2>1
  <2> QED
    BY <2>1, <2>2, HistoryStays
<1>9. \A a \in RetryBatches : a \in Batches /\ a # b
  BY <1>6, RetryBatchesAssumption DEF NewBatches
<1>10. PastInv'
  <2>1. \A c \in Cases : IF pool'[c] = None THEN failed'[c] = None
                         ELSE History(c, pool'[c], members', decision')
    BY <1>4, <1>8 DEF RetryInv, PastInv
  <2>2. \A a \in NewBatches, c \in Cases :
          members'[a][c] # None => c \in Subjects(a) /\ members'[a][c].context = None
    BY <1>6, <1>7 DEF RetryInv, PastInv, NewBatches
  <2>3. \A a \in RetryBatches, c \in Cases : members'[a][c] # None => Retried(a, c, pool[c])'
    BY <1>4, <1>7, <1>9 DEF RetryInv, PastInv, Retried
  <2>4. \A a \in RetryBatches : MembersOf(a)' = MembersOf(a)
    BY <1>7, <1>9 DEF MembersOf
  <2>5. Apart => OneOpenRetry'
    BY <1>7, <1>9, <2>4 DEF RetryInv, PastInv, OneOpenRetry
  <2> QED
    BY <2>1, <2>2, <2>3, <2>5 DEF PastInv
<1>11. job'[t] = Idle /\ Idle.step = "idle"
  BY <1>4, IdleIs DEF Return, Inv, TypeInv
<1>12. Holding(job[t])'
  BY <1>4, <1>5, <1>7, <1>9, <1>11 DEF Holding, Fails
<1>13. Carried(job[t])'
  BY <1>11 DEF Carried
<1> QED
  BY <1>10, <1>12, <1>13 DEF RetryInv, OneTerminal

\* What BuildRetryBatch does to the batches.
LEMMA Built ==
    ASSUME Inv, RetryInv, NEW t \in Terminals, BuildRetryBatch(t)
    PROVE  LET b == job[t].batch
           IN  /\ b \in RetryBatches /\ b \in Batches /\ stage[b] = "absent"
               /\ job[t].step = "files" /\ job[t].command = "retry"
               /\ stage' = [stage EXCEPT ![b] = "open"] /\ Goto(t, "store")
               /\ \E chosen \in SUBSET {c \in Cases : pool[c] # None /\ Selectable(pool[c])} :
                    /\ job[t].rows = Chosen(chosen, b)
                    /\ members' = [members EXCEPT ![b] =
                         [c \in Cases |-> IF c \in chosen THEN RetriedCase(job[t].rows[c], c) ELSE None]]
               /\ UNCHANGED <<pool, decision, failed>>
<1>1. PICK b : b = job[t].batch
  OBVIOUS
<1>2. PICK rows : rows = job[t].rows
  OBVIOUS
<1>3. /\ job[t].step = "files" /\ job[t].command = "retry" /\ Underway(job[t]) /\ Carried(job[t])
  BY DEF BuildRetryBatch, At, Inv, JobInv, RetryInv
<1>4. b \in RetryBatches /\ b \in Batches /\ stage[b] = "absent"
  BY <1>1, <1>3 DEF Underway
<1>5. PICK chosen \in SUBSET {c \in Cases : pool[c] # None /\ Selectable(pool[c])} :
        rows = Chosen(chosen, b)
  BY <1>1, <1>2, <1>3 DEF Carried
<1>6. ASSUME NEW c \in Cases
      PROVE  rows[c] # None /\ rows[c].active = b <=> c \in chosen
  <2>1. CASE c \in chosen
    <3>1. pool[c] \in Row
      BY <1>4, <2>1, AbsentIs
    <3>2. rows[c] = [pool[c] EXCEPT !.state = "in_retry_batch", !.active = b]
      BY <1>5, <2>1 DEF Chosen
    <3>3. rows[c] \in Row /\ rows[c].active = b
      BY <1>4, <3>1, <3>2 DEF Row, States
    <3> QED
      BY <2>1, <3>3, NoneAssumption
  <2>2. CASE c \notin chosen
    <3>1. rows[c] = pool[c]
      BY <1>5, <2>2 DEF Chosen
    <3> QED
      BY <1>4, <2>2, <3>1, AbsentIs
  <2> QED
    BY <2>1, <2>2
<1>7. /\ stage' = [stage EXCEPT ![b] = "open"] /\ Goto(t, "store")
      /\ members' = [members EXCEPT ![b] =
           [c \in Cases |-> IF rows[c] # None /\ rows[c].active = b THEN RetriedCase(rows[c], c) ELSE None]]
      /\ UNCHANGED <<pool, decision, failed>>
  BY <1>1, <1>2, <1>4 DEF BuildRetryBatch
<1>8. [c \in Cases |-> IF rows[c] # None /\ rows[c].active = b THEN RetriedCase(rows[c], c) ELSE None]
        = [c \in Cases |-> IF c \in chosen THEN RetriedCase(rows[c], c) ELSE None]
  BY <1>6
<1> QED
  BY <1>1, <1>2, <1>3, <1>4, <1>5, <1>7, <1>8

\* A case is selected with a context, and not the one it failed with last.
LEMMA SelectableIs ==
    ASSUME Inv, RetryInv, NEW t \in Terminals, Aside(job[t]),
           NEW c \in Cases, pool[c] # None, Selectable(pool[c])
    PROVE  /\ pool[c].context # None /\ pool[c].active = None
           /\ pool[c].context # failed[c]
<1>1. PICK j : j = job[t]
  OBVIOUS
<1>2. Holding(j) /\ Aside(j) /\ History(c, pool[c], members, decision)
  BY <1>1 DEF RetryInv, PastInv
<1>3. pool[c].latest = failed[c]
  BY <1>2 DEF Holding, Aside
<1>4. pool[c].context # None /\ pool[c].active = None
  BY <1>2 DEF History, Selectable
<1> QED
  BY <1>3, <1>4 DEF Selectable, RetryContextChanged

\* A case has its row's next attempt in the batch that is opened for it, and is
\* in no other that is open.
LEMMA BuildHistory ==
    ASSUME Inv, OneTerminal, RetryInv, NEW t \in Terminals, BuildRetryBatch(t)
    PROVE  RetryInv'
<1>1. PICK j : j = job[t]
  OBVIOUS
<1>2. PICK b : b = j.batch
  OBVIOUS
<1>3. /\ b \in RetryBatches /\ b \in Batches /\ stage[b] = "absent"
      /\ j.step = "files" /\ j.command = "retry"
      /\ stage' = [stage EXCEPT ![b] = "open"] /\ Goto(t, "store")
      /\ UNCHANGED <<pool, decision, failed>>
  BY <1>1, <1>2, Built
<1>4. PICK chosen \in SUBSET {c \in Cases : pool[c] # None /\ Selectable(pool[c])} :
        /\ j.rows = Chosen(chosen, b)
        /\ members' = [members EXCEPT ![b] =
             [c \in Cases |-> IF c \in chosen THEN RetriedCase(j.rows[c], c) ELSE None]]
  <2>1. \E chosen \in SUBSET {c \in Cases : pool[c] # None /\ Selectable(pool[c])} :
          /\ job[t].rows = Chosen(chosen, job[t].batch)
          /\ members' = [members EXCEPT ![job[t].batch] =
               [c \in Cases |-> IF c \in chosen THEN RetriedCase(job[t].rows[c], c) ELSE None]]
    BY Built
  <2> QED
    BY <1>1, <1>2, <2>1
<1>5. Holding(j) /\ Aside(j)
  BY <1>1, <1>3 DEF RetryInv, Aside
<1>6. /\ \A a \in Batches : a # b => stage'[a] = stage[a] /\ members'[a] = members[a]
      /\ stage'[b] = "open"
      /\ \A c \in Cases : members'[b][c] = IF c \in chosen THEN RetriedCase(j.rows[c], c) ELSE None
  BY <1>3, <1>4 DEF Inv, TypeInv
<1>7. ASSUME NEW c \in chosen
      PROVE  /\ c \in Cases /\ pool[c] # None /\ pool[c] \in Row
             /\ pool[c].context # None /\ pool[c].active = None
             /\ members'[b][c].context = pool[c].context
             /\ members'[b][c].attempt = pool[c].attempts + 1
             /\ members'[b][c] # None
             /\ \A e \in pool[c].events : e.batch # b
  <2>1. c \in Cases /\ pool[c] # None /\ Selectable(pool[c])
    OBVIOUS
  <2>2. /\ pool[c] \in Row /\ Grounded(c, pool[c], members, stage, gold)
        /\ \A e \in pool[c].events : e.batch # b
    BY <1>3, <2>1, AbsentIs
  <2>3. pool[c].context # None /\ pool[c].active = None
    BY <1>1, <1>5, <2>1, SelectableIs
  <2>4. /\ j.rows[c].context = pool[c].context /\ j.rows[c].attempts = pool[c].attempts
        /\ j.rows[c].events = pool[c].events
    <3>1. j.rows[c] = [pool[c] EXCEPT !.state = "in_retry_batch", !.active = b]
      BY <1>4, <2>1 DEF Chosen
    <3> QED
      BY <2>2, <3>1 DEF Row
  <2>5. members'[b][c] = RetriedCase(pool[c], c)
    BY <1>6, <2>1, <2>4 DEF RetriedCase
  <2>6. members'[b][c] # None
    BY <2>1, <2>2, <2>5, RetriedIs, RecordAssumption DEF Inv
  <2>7. /\ members'[b][c].context = pool[c].context
        /\ members'[b][c].attempt = pool[c].attempts + 1
    BY <2>5 DEF RetriedCase
  <2> QED
    BY <2>1, <2>2, <2>3, <2>6, <2>7
<1>8. ASSUME NEW c \in Cases, pool[c] # None
      PROVE  History(c, pool[c], members', decision')
  <2>1. /\ pool[c] \in Row /\ History(c, pool[c], members, decision)
        /\ \A e \in pool[c].events : e.batch \in Batches /\ e.batch # b
    BY <1>3, <1>8, AbsentIs
  <2>2. \A e \in pool[c].events :
          members'[e.batch] = members[e.batch] /\ decision'[e.batch] = decision[e.batch]
    BY <1>3, <1>6, <2>1
  <2> QED
    BY <2>1, <2>2, HistoryStays
<1>9. /\ \A a \in RetryBatches : a \in Batches
      /\ \A a \in NewBatches : a \in Batches /\ a # b
  BY <1>3, RetryBatchesAssumption DEF NewBatches
<1>10. \A c \in Cases : members'[b][c] # None <=> c \in chosen
  BY <1>6, <1>7
<1>11. ASSUME Apart, NEW a \in RetryBatches, stage[a] = "open", NEW c \in MembersOf(a)
       PROVE  pool[c].active = a /\ c \notin chosen
  <2>1. members[a][c] # None /\ c \in Cases
    BY DEF MembersOf
  <2>2. pool[c].active = a
    BY <1>3, <1>5, <1>11, <2>1 DEF Holding
  <2>3. a # None
    BY <1>9, NoneAssumption
  <2> QED
    BY <1>7, <2>2, <2>3
<1>12. PastInv'
  <2>1. \A c \in Cases : IF pool'[c] = None THEN failed'[c] = None
                         ELSE History(c, pool'[c], members', decision')
    BY <1>3, <1>8 DEF RetryInv, PastInv
  <2>2. \A a \in NewBatches, c \in Cases :
          members'[a][c] # None => c \in Subjects(a) /\ members'[a][c].context = None
    BY <1>6, <1>9 DEF RetryInv, PastInv
  <2>3. ASSUME NEW a \in RetryBatches, NEW c \in Cases, members'[a][c] # None
        PROVE  Retried(a, c, pool[c])'
    <3>1. CASE a # b
      BY <1>3, <1>6, <1>9, <2>3, <3>1 DEF RetryInv, PastInv, Retried
    <3>2. CASE a = b
      BY <1>3, <1>6, <1>7, <1>10, <2>3, <3>2 DEF Retried
    <3> QED
      BY <3>1, <3>2
  <2>4. MembersOf(b)' = chosen
    BY <1>10 DEF MembersOf
  <2>5. \A a \in RetryBatches : a # b => MembersOf(a)' = MembersOf(a)
    BY <1>6, <1>9 DEF MembersOf
  <2>6. Apart => OneOpenRetry'
    <3> SUFFICES ASSUME Apart, NEW a \in RetryBatches, NEW d \in RetryBatches, a # d,
                        stage'[a] = "open", stage'[d] = "open"
                 PROVE  MembersOf(a)' \intersect MembersOf(d)' = {}
      BY DEF OneOpenRetry
    <3>1. CASE a # b /\ d # b
      BY <1>6, <1>9, <2>5, <3>1 DEF RetryInv, PastInv, OneOpenRetry
    <3>2. CASE a = b
      BY <1>6, <1>9, <1>11, <2>4, <2>5, <3>2
    <3>3. CASE d = b
      BY <1>6, <1>9, <1>11, <2>4, <2>5, <3>3
    <3> QED
      BY <3>1, <3>2, <3>3
  <2> QED
    BY <2>1, <2>2, <2>3, <2>6 DEF PastInv
<1>13. PICK k : k = job'[t]
  OBVIOUS
<1>14. k.step = "store" /\ k.command = "retry" /\ k.batch = b /\ k.rows = j.rows
  BY <1>1, <1>2, <1>3, <1>13, GotoIs DEF Inv, TypeInv, Steps
<1>15. Holding(job[t])'
  <2>1. ASSUME NEW a \in RetryBatches, NEW c \in Cases, members'[a][c] # None, stage'[a] = "open"
        PROVE  ~ReportedIn(pool[c], a) /\ (Apart => pool[c].active = a \/ k.batch = a)
    <3>1. CASE a = b
      BY <1>7, <1>10, <1>14, <2>1, <3>1 DEF ReportedIn
    <3>2. CASE a # b
      BY <1>3, <1>5, <1>6, <1>9, <2>1, <3>2 DEF Holding
    <3> QED
      BY <3>1, <3>2
  <2>2. \A c \in Cases : pool[c] # None => pool[c].latest = failed[c]
    BY <1>3, <1>5 DEF Holding
  <2> QED
    BY <1>3, <1>13, <1>14, <2>1, <2>2 DEF Holding
<1>16. Carried(job[t])'
  <2>1. MembersOf(b)' = chosen
    BY <1>10 DEF MembersOf
  <2>2. Chosen(chosen, b)' = j.rows
    BY <1>3, <1>4 DEF Chosen
  <2>3. \A c \in chosen : pool'[c] # None /\ pool'[c].active = None
    BY <1>3, <1>7
  <2> QED
    BY <1>3, <1>13, <1>14, <2>1, <2>2, <2>3 DEF Carried
<1> QED
  BY <1>12, <1>15, <1>16 DEF RetryInv, OneTerminal

-----------------------------------------------------------------------------
(***************************************************************************)
(* Rows that are replaced.                                                 *)
(***************************************************************************)
\* Rows that are marked ready or put in a batch keep their history.
LEMMA MarkedHistory ==
    ASSUME Inv, OneTerminal, RetryInv, NEW t \in Terminals, job[t].step = "store", Return(t),
           UNCHANGED <<members, decision, stage, failed>>,
           \A c \in Cases : pool[c] = None => pool'[c] = None,
           \A c \in Cases : pool[c] # None =>
             /\ pool'[c] # None
             /\ pool'[c].events = pool[c].events /\ pool'[c].attempts = pool[c].attempts
             /\ pool'[c].latest = pool[c].latest
             /\ pool'[c].state = "ready" => pool'[c].context # None,
           Apart => \A a \in RetryBatches, c \in Cases :
                      members[a][c] # None /\ stage[a] = "open" => pool'[c].active = a
    PROVE  RetryInv'
<1>1. job'[t] = Idle /\ Idle.step = "idle"
  BY IdleIs DEF Return, Inv, TypeInv
<1>2. Holding(job[t])
  BY DEF RetryInv
<1>3. PastInv'
  <2>1. ASSUME NEW c \in Cases
        PROVE  IF pool'[c] = None THEN failed'[c] = None
               ELSE History(c, pool'[c], members', decision')
    BY DEF RetryInv, PastInv, History
  <2>2. ASSUME NEW a \in RetryBatches, NEW c \in Cases, members'[a][c] # None
        PROVE  Retried(a, c, pool[c])'
    <3>1. Retried(a, c, pool[c])
      BY <2>2 DEF RetryInv, PastInv
    <3>2. ReportedIn(pool'[c], a) <=> ReportedIn(pool[c], a)
      BY <3>1 DEF Retried, ReportedIn
    <3> QED
      BY <3>1, <3>2 DEF Retried
  <2> QED
    BY <2>1, <2>2 DEF RetryInv, PastInv, OneOpenRetry, MembersOf
<1>4. Holding(job[t])'
  <2>1. ASSUME NEW a \in RetryBatches, NEW c \in Cases, members[a][c] # None, stage[a] = "open"
        PROVE  ~ReportedIn(pool'[c], a) /\ (Apart => pool'[c].active = a)
    <3>1. pool[c] # None /\ ~ReportedIn(pool[c], a)
      BY <1>2, <2>1 DEF Holding, RetryInv, PastInv, Retried
    <3> QED
      BY <2>1, <3>1 DEF ReportedIn
  <2>2. \A c \in Cases : pool'[c] # None => pool'[c].latest = failed[c]
    BY <1>2 DEF Holding
  <2> QED
    BY <1>1, <2>1, <2>2 DEF Holding
<1>5. Carried(job[t])'
  BY <1>1 DEF Carried
<1> QED
  BY <1>3, <1>4, <1>5 DEF RetryInv, OneTerminal

\* Rows marked ready are still in the batches they were in.
LEMMA ReadyHistory ==
    ASSUME Inv, OneTerminal, RetryInv, NEW t \in Terminals, job[t].step = "store", Return(t),
           UNCHANGED <<members, decision, stage, failed>>,
           job[t].command = "ready", NEW context \in Contexts,
           pool' = [c \in Cases |-> IF pool[c] = None THEN None ELSE MarkReady(pool[c], context)]
    PROVE  RetryInv'
<1>1. ASSUME NEW c \in Cases, pool[c] # None
      PROVE  /\ pool'[c] \in Row
             /\ pool'[c].events = pool[c].events /\ pool'[c].attempts = pool[c].attempts
             /\ pool'[c].latest = pool[c].latest /\ pool'[c].active = pool[c].active
             /\ pool'[c].state = "ready" => pool'[c].context # None
  <2>1. pool[c] \in Row
    BY <1>1 DEF Inv, PoolInv, Sound, Pool
  <2>2. pool[c].state = "ready" => pool[c].context # None
    BY <1>1 DEF RetryInv, PastInv, History
  <2>3. pool'[c] = MarkReady(pool[c], context)
    BY <1>1
  <2>4. CASE pool[c].blocker = "retryable"
    <3>1. PICK state : state = IF context # pool[c].latest THEN "ready" ELSE pool[c].state
      OBVIOUS
    <3>2. pool'[c] = [pool[c] EXCEPT !.context = context, !.state = state]
      BY <2>3, <2>4, <3>1 DEF MarkReady
    <3>3. state \in States
      BY <2>1, <3>1 DEF Row, States
    <3>4. pool'[c].context = context
      BY <2>1, <3>2 DEF Row
    <3>5. pool'[c] \in Row
      BY <2>1, <3>2, <3>3 DEF Row
    <3>6. /\ pool'[c].events = pool[c].events /\ pool'[c].attempts = pool[c].attempts
          /\ pool'[c].latest = pool[c].latest /\ pool'[c].active = pool[c].active
      BY <2>1, <3>2 DEF Row
    <3> QED
      BY <3>4, <3>5, <3>6, NoneAssumption
  <2>5. CASE pool[c].blocker # "retryable"
    BY <2>1, <2>2, <2>3, <2>5 DEF MarkReady
  <2> QED
    BY <2>4, <2>5
<1>2. \A c \in Cases : pool[c] = None => pool'[c] = None
  OBVIOUS
<1>3. \A c \in Cases : pool[c] # None => pool'[c] # None
  BY <1>1, NoneAssumption
<1>4. ASSUME Apart, NEW a \in RetryBatches, NEW c \in Cases, members[a][c] # None, stage[a] = "open"
      PROVE  pool'[c].active = a
  BY <1>1, <1>4 DEF RetryInv, Holding, PastInv, Retried
<1> QED
  BY <1>1, <1>2, <1>3, <1>4, MarkedHistory

\* Rows put in a batch were in none.
LEMMA ChosenHistory ==
    ASSUME Inv, OneTerminal, RetryInv, NEW t \in Terminals, job[t].step = "store", Return(t),
           UNCHANGED <<members, decision, stage, failed>>,
           job[t].command = "retry", NEW b \in RetryBatches, job[t].batch = b,
           \A c \in MembersOf(b) : pool[c] # None /\ pool[c].active = None,
           pool' = Chosen(MembersOf(b), b)
    PROVE  RetryInv'
<1>1. ASSUME NEW c \in Cases, pool[c] # None
      PROVE  /\ pool'[c] \in Row
             /\ pool'[c].events = pool[c].events /\ pool'[c].attempts = pool[c].attempts
             /\ pool'[c].latest = pool[c].latest
             /\ pool'[c].active = IF c \in MembersOf(b) THEN b ELSE pool[c].active
             /\ pool'[c].state = "ready" => pool'[c].context # None
  <2>1. pool[c] \in Row
    BY <1>1 DEF Inv, PoolInv, Sound, Pool
  <2>2. pool[c].state = "ready" => pool[c].context # None
    BY <1>1 DEF RetryInv, PastInv, History
  <2>3. CASE c \in MembersOf(b)
    <3>1. pool'[c] = [pool[c] EXCEPT !.state = "in_retry_batch", !.active = b]
      BY <2>3 DEF Chosen
    <3> QED
      BY <2>1, <2>3, <3>1, RetryBatchesAssumption DEF Row, States
  <2>4. CASE c \notin MembersOf(b)
    BY <2>1, <2>2, <2>4 DEF Chosen
  <2> QED
    BY <2>3, <2>4
<1>2. \A c \in Cases : pool[c] = None => pool'[c] = None
  BY DEF Chosen
<1>3. \A c \in Cases : pool[c] # None => pool'[c] # None
  BY <1>1, NoneAssumption
<1>4. ASSUME Apart, NEW a \in RetryBatches, NEW c \in Cases, members[a][c] # None, stage[a] = "open"
      PROVE  pool'[c].active = a
  <2>1. pool[c] # None /\ (pool[c].active = a \/ a = b)
    BY <1>4 DEF RetryInv, Holding, PastInv, Retried
  <2>2. a # None
    BY RetryBatchesAssumption, NoneAssumption
  <2>3. a = b => c \in MembersOf(b)
    BY <1>4 DEF MembersOf
  <2> QED
    BY <1>1, <2>1, <2>2, <2>3
<1> QED
  BY <1>1, <1>2, <1>3, <1>4, MarkedHistory

\* What the events of a finalized batch do to a row: one that has the event
\* stays as it is, and one that gets it is in no other open batch.
LEMMA ReportedHistory ==
    ASSUME Inv, RetryInv, NEW t \in Terminals, job[t].step = "store",
           NEW b \in Batches, stage[b] \in {"open", "finalized"}, Settled(b),
           NEW c \in Cases
    PROVE  LET row == PoolWith(b)[c]
           IN  /\ pool[c] # None => row # None
               /\ row # None => row \in Row /\ History(c, row, members, decision)
               /\ pool[c] # None =>
                    \A a \in Batches : ReportedIn(row, a) <=>
                      ReportedIn(pool[c], a) \/ (a = b /\ c \in MembersOf(b))
               /\ Apart => \A a \in RetryBatches :
                    members[a][c] # None /\ ~ReportedIn(row, a) /\ stage[a] = "open" => row = pool[c]
               /\ row # None =>
                    row.latest = IF Fails(b, c) THEN members[b][c].context ELSE failed[c]
<1> DEFINE event == EventOf(b, c)
           row == PoolWith(b)[c]
           old == IF pool[c] = None THEN EmptyRow(event) ELSE pool[c]
<1>1. row = IF c \in MembersOf(b) /\ (decision[b][c] # "accept" \/ pool[c] # None)
              THEN Merged(pool[c], event) ELSE pool[c]
  BY DEF PoolWith
<1>2. /\ pool[c] \in Row \union {None}
      /\ pool[c] # None => /\ History(c, pool[c], members, decision)
                           /\ Grounded(c, pool[c], members, stage, gold)
                           /\ pool[c].latest = failed[c]
      /\ pool[c] = None => failed[c] = None
  <2>1. pool[c] # None => pool[c].latest = failed[c]
    BY DEF RetryInv, Holding
  <2> QED
    BY <2>1 DEF Inv, PoolInv, Sound, Pool, RetryInv, PastInv
<1>3. /\ \A a \in RetryBatches : members[a][c] # None => Retried(a, c, pool[c])
      /\ \A a \in NewBatches : members[a][c] # None => c \in Subjects(a) /\ members[a][c].context = None
      /\ \A a \in RetryBatches : members[a][c] # None /\ stage[a] = "open" => ~ReportedIn(pool[c], a)
  BY DEF RetryInv, PastInv, Holding
<1>4. b \in RetryBatches \/ b \in NewBatches
  BY DEF NewBatches
<1>5. CASE c \notin MembersOf(b)
  <2>1. row = pool[c] /\ members[b][c] = None
    BY <1>1, <1>5 DEF MembersOf
  <2>2. decision[b][c] = None
    BY <2>1 DEF Inv, BatchInv
  <2>3. ~Fails(b, c)
    BY <2>2, NoneAssumption DEF Fails, Outcomes, Blockers
  <2> HIDE DEF row
  <2> QED
    BY <1>2, <1>5, <2>1, <2>3 DEF row
<1>6. CASE c \in MembersOf(b) /\ ~(decision[b][c] # "accept" \/ pool[c] # None)
  <2>1. row = pool[c] /\ ~Fails(b, c)
    BY <1>1, <1>6 DEF Fails
  <2> HIDE DEF row
  <2>2. \A a \in RetryBatches : members[a][c] = None
    BY <1>3, <1>6 DEF Retried
  <2> QED
    BY <1>2, <1>6, <2>1, <2>2 DEF row
<1>7. CASE c \in MembersOf(b) /\ (decision[b][c] # "accept" \/ pool[c] # None)
  <2>0. members[b][c] # None /\ members[b][c] \in Member /\ decision[b][c] \in Outcomes
    BY <1>7 DEF MembersOf, Inv, TypeInv, Settled, Decided
  <2>1. row = Merged(pool[c], event)
    BY <1>1, <1>7
  <2>2. event \in Event /\ event.batch = b
    BY <2>0 DEF EventOf, Event, Member
  <2>3. /\ row \in Row
        /\ old.events \subseteq row.events /\ row.events \subseteq old.events \union {event}
        /\ \E e \in row.events : e.batch = b
    BY <1>2, <2>1, <2>2, MergedIs
  <2>4. pool[c] = None => b \in NewBatches
    BY <1>3, <1>4, <2>0 DEF Retried
  <2>5. b \in RetryBatches => decision[b][c] \notin Historical
    BY <2>0, NoneAssumption, OutcomesAssumption DEF Inv, BatchInv
  <2>6. Apart /\ b \in RetryBatches /\ pool[c] # None /\ ~ReportedIn(pool[c], b) =>
          members[b][c].attempt = pool[c].attempts + 1
    BY <1>3, <2>0 DEF Retried
  <2>7. b \in NewBatches => members[b][c].context = None
    BY <1>3, <2>0
  <2>8. /\ History(c, row, members, decision)
        /\ pool[c] # None /\ ReportedIn(pool[c], b) => row = pool[c]
        /\ pool[c] = None => row.latest = None
        /\ pool[c] # None /\ ~ReportedIn(pool[c], b) =>
             row.latest = IF /\ b \in RetryBatches /\ decision[b][c] = "retryable"
                             /\ members[b][c].context # None
                            THEN members[b][c].context ELSE pool[c].latest
    BY <1>2, <1>7, <2>1, <2>4, <2>5, <2>6, <2>7, MergedHistory DEF Inv
  <2> HIDE DEF row, event
  <2>9. row # None
    BY <2>3, NoneAssumption
  <2>10. pool[c] # None =>
           \A a \in Batches : ReportedIn(row, a) <=> ReportedIn(pool[c], a) \/ (a = b /\ c \in MembersOf(b))
    BY <1>7, <2>2, <2>3 DEF ReportedIn
  <2>11. ASSUME Apart, NEW a \in RetryBatches, members[a][c] # None, ~ReportedIn(row, a), stage[a] = "open"
         PROVE  row = pool[c]
    <3>1. pool[c] # None /\ a # b
      BY <1>3, <2>3, <2>11 DEF Retried, ReportedIn
    <3>2. ReportedIn(pool[c], b)
      <4>1. CASE b \in NewBatches
        <5>1. PICK e \in pool[c].events : e.batch \in NewBatches
          BY <1>2, <3>1 DEF History
        <5>2. c \in Subjects(e.batch) /\ c \in Subjects(b)
          BY <1>2, <1>3, <2>0, <3>1, <4>1, <5>1 DEF Grounded
        <5>3. e.batch = b
          BY <2>11, <4>1, <5>1, <5>2 DEF Apart
        <5> QED
          BY <5>3 DEF ReportedIn
      <4>2. CASE b \in RetryBatches
        <5>1. stage[b] # "open"
          <6>1. c \in MembersOf(a)
            BY <2>11 DEF MembersOf
          <6> QED
            BY <1>7, <2>11, <3>1, <4>2, <6>1 DEF RetryInv, PastInv, OneOpenRetry
        <5> QED
          BY <1>3, <2>0, <4>2, <5>1 DEF Retried
      <4> QED
        BY <1>4, <4>1, <4>2
    <3> QED
      BY <2>8, <3>1, <3>2
  <2>12. row.latest = IF Fails(b, c) THEN members[b][c].context ELSE failed[c]
    <3>1. CASE pool[c] = None
      BY <1>2, <2>4, <2>8, <3>1 DEF Fails, NewBatches
    <3>2. CASE pool[c] # None /\ ReportedIn(pool[c], b)
      BY <1>2, <1>3, <2>0, <2>8, <3>2 DEF Fails
    <3>3. CASE pool[c] # None /\ ~ReportedIn(pool[c], b)
      <4>1. b \in RetryBatches => stage[b] = "open" /\ members[b][c].context # None
        BY <1>3, <2>0, <3>3 DEF Retried
      <4> QED
        BY <1>2, <2>8, <3>3, <4>1 DEF Fails
    <3> QED
      BY <3>1, <3>2, <3>3
  <2> QED
    BY <2>3, <2>8, <2>9, <2>10, <2>11, <2>12 DEF row
<1> QED
  BY <1>5, <1>6, <1>7

\* batch-finalize writes the pool it has merged its events into.
LEMMA FinalizePoolHistory ==
    ASSUME Inv, OneTerminal, RetryInv, NEW t \in Terminals, job[t].step = "store",
           NEW b \in Batches, job[t].batch = b, stage[b] \in {"open", "finalized"}, Settled(b),
           pool' = PoolWith(b), Goto(t, "metadata"),
           UNCHANGED <<members, decision, stage, failed>>
    PROVE  RetryInv'
<1>1. PICK k : k = job'[t]
  OBVIOUS
<1>2. k.step = "metadata" /\ k.batch = b
  BY <1>1, GotoIs DEF Inv, TypeInv, Steps
<1>3. ASSUME NEW c \in Cases
      PROVE  /\ pool[c] # None => pool'[c] # None
             /\ pool'[c] # None => History(c, pool'[c], members, decision)
             /\ pool[c] # None =>
                  \A a \in Batches : ReportedIn(pool'[c], a) <=>
                    ReportedIn(pool[c], a) \/ (a = b /\ c \in MembersOf(b))
             /\ Apart => \A a \in RetryBatches :
                  members[a][c] # None /\ ~ReportedIn(pool'[c], a) /\ stage[a] = "open" => pool'[c] = pool[c]
             /\ pool'[c] # None =>
                  pool'[c].latest = IF Fails(b, c) THEN members[b][c].context ELSE failed[c]
  BY ReportedHistory
<1>4. \A a \in RetryBatches : a \in Batches
  BY RetryBatchesAssumption
<1>5. \A a \in RetryBatches, c \in Cases : members[a][c] # None => Retried(a, c, pool[c])
  BY DEF RetryInv, PastInv
<1>6. \A c \in Cases : pool[c] = None => failed[c] = None
  BY DEF RetryInv, PastInv
<1>7. PastInv'
  <2>1. ASSUME NEW c \in Cases
        PROVE  IF pool'[c] = None THEN failed'[c] = None
               ELSE History(c, pool'[c], members', decision')
    BY <1>3, <1>6
  <2>2. ASSUME NEW a \in RetryBatches, NEW c \in Cases, members'[a][c] # None
        PROVE  Retried(a, c, pool[c])'
    <3>1. Retried(a, c, pool[c])
      BY <1>5, <2>2
    <3>2. pool'[c] # None /\ (ReportedIn(pool[c], a) => ReportedIn(pool'[c], a))
      BY <1>3, <1>4, <3>1 DEF Retried
    <3>3. Apart /\ ~ReportedIn(pool'[c], a) => pool'[c] = pool[c]
      BY <1>3, <2>2, <3>1, <3>2 DEF Retried
    <3> QED
      BY <3>1, <3>2, <3>3 DEF Retried
  <2>3. Apart => OneOpenRetry'
    BY DEF RetryInv, PastInv, OneOpenRetry, MembersOf
  <2> QED
    BY <2>1, <2>2, <2>3 DEF RetryInv, PastInv
<1>8. Holding(job[t])'
  <2>1. ASSUME NEW a \in RetryBatches, NEW c \in Cases, members[a][c] # None, stage[a] = "open"
        PROVE  IF ReportedIn(pool'[c], a) THEN a = b ELSE Apart => pool'[c].active = a
    <3>1. pool[c] # None /\ ~ReportedIn(pool[c], a)
      BY <1>5, <2>1 DEF Retried, RetryInv, Holding
    <3>2. Apart => pool[c].active = a \/ (job[t].command = "retry" /\ b = a)
      BY <2>1, <3>1 DEF RetryInv, Holding
    <3>3. c \in MembersOf(a)
      BY <2>1 DEF MembersOf
    <3> QED
      BY <1>3, <1>4, <2>1, <3>1, <3>2, <3>3
  <2>2. \A c \in Cases : pool'[c] # None =>
          pool'[c].latest = IF Fails(b, c)' THEN members'[b][c].context ELSE failed'[c]
    BY <1>3 DEF Fails
  <2> QED
    BY <1>1, <1>2, <2>1, <2>2 DEF Holding
<1>9. Carried(job[t])'
  <2>1. b \in RetryBatches => \A c \in MembersOf(b) : ReportedIn(pool'[c], b)
    BY <1>3, <1>5 DEF Retried, MembersOf
  <2> QED
    BY <1>1, <1>2, <2>1 DEF Carried, MembersOf
<1> QED
  BY <1>7, <1>8, <1>9 DEF RetryInv, OneTerminal

\* The three commands that write the pool.
LEMMA WritePoolHistory ==
    ASSUME Undisturbed, Inv, RetryInv, NEW t \in Terminals, WritePool(t)
    PROVE  RetryInv'
<1>1. PICK j : j = job[t]
  OBVIOUS
<1>2. /\ j.step = "store" /\ pool' = j.rows /\ Carried(j) /\ Underway(j) /\ OneTerminal
      /\ IF j.command = "finalize" THEN Goto(t, "metadata") ELSE Return(t)
      /\ UNCHANGED <<members, decision, stage, failed>>
  BY <1>1 DEF WritePool, At, batches, Inv, JobInv, RetryInv, Undisturbed
<1>3. CASE j.command = "finalize" /\ j.rows = PoolWith(j.batch)
  BY <1>1, <1>2, <1>3, FinalizePoolHistory DEF Underway, Undisturbed
<1>4. CASE /\ j.command = "ready"
           /\ \E context \in Contexts :
                j.rows = [c \in Cases |-> IF pool[c] = None THEN None ELSE MarkReady(pool[c], context)]
  BY <1>1, <1>2, <1>4, ReadyHistory
<1>5. CASE /\ j.command = "retry" /\ j.batch \in RetryBatches
           /\ \A c \in MembersOf(j.batch) : pool[c] # None /\ pool[c].active = None
           /\ j.rows = Chosen(MembersOf(j.batch), j.batch)
  BY <1>1, <1>2, <1>5, ChosenHistory
<1> QED
  BY <1>2, <1>3, <1>4, <1>5 DEF Carried

-----------------------------------------------------------------------------
\* A finalized batch has reported all of its cases, and what they failed with
\* is recorded.
LEMMA WriteMetadataHistory ==
    ASSUME Inv, OneTerminal, RetryInv, NEW t \in Terminals, WriteMetadata(t)
    PROVE  RetryInv'
<1>1. PICK j : j = job[t]
  OBVIOUS
<1>2. PICK b : b = j.batch
  OBVIOUS
<1>3. /\ j.step = "metadata" /\ b \in Batches
      /\ stage' = [stage EXCEPT ![b] = "finalized"]
      /\ failed' = [c \in Cases |-> IF Fails(b, c) THEN members[b][c].context ELSE failed[c]]
      /\ Goto(t, "final") /\ UNCHANGED <<pool, members, decision>>
      /\ Holding(j) /\ Carried(j) /\ stage[b] \in {"open", "finalized"}
  BY <1>1, <1>2 DEF WriteMetadata, At, Fails, Inv, JobInv, Underway, RetryInv
<1>4. /\ \A a \in Batches : a # b => stage'[a] = stage[a]
      /\ stage'[b] = "finalized"
  BY <1>3 DEF Inv, TypeInv
<1>5. \A a \in RetryBatches : a \in Batches
  BY RetryBatchesAssumption
<1>6. \A a \in RetryBatches, c \in Cases : members[a][c] # None => Retried(a, c, pool[c])
  BY DEF RetryInv, PastInv
<1>7. ASSUME NEW c \in Cases
      PROVE  /\ pool[c] # None => pool[c].latest = failed'[c]
             /\ pool[c] = None => failed'[c] = None
  <2>1. CASE pool[c] # None
    BY <1>2, <1>3, <2>1 DEF Holding
  <2>2. CASE pool[c] = None
    <3>1. ~Fails(b, c)
      <4>1. SUFFICES ASSUME Fails(b, c) PROVE FALSE
        OBVIOUS
      <4>2. decision[b][c] # None /\ b \in RetryBatches
        BY <4>1, NoneAssumption DEF Fails, Outcomes, Blockers
      <4>3. members[b][c] # None
        BY <1>3, <4>2 DEF Inv, BatchInv
      <4> QED
        BY <1>6, <2>2, <4>2, <4>3 DEF Retried
    <3> QED
      BY <1>3, <2>2, <3>1 DEF RetryInv, PastInv
  <2> QED
    BY <2>1, <2>2
<1>8. PastInv'
  <2>1. \A c \in Cases : IF pool'[c] = None THEN failed'[c] = None
                         ELSE History(c, pool'[c], members', decision')
    BY <1>3, <1>7 DEF RetryInv, PastInv
  <2>2. ASSUME NEW a \in RetryBatches, NEW c \in Cases, members'[a][c] # None
        PROVE  Retried(a, c, pool[c])'
    <3>1. Retried(a, c, pool[c])
      BY <1>3, <1>6, <2>2
    <3>2. a = b => ReportedIn(pool[c], b)
      BY <1>2, <1>3, <2>2 DEF Carried, MembersOf
    <3> QED
      BY <1>3, <1>4, <1>5, <3>1, <3>2 DEF Retried
  <2>3. \A a \in RetryBatches : MembersOf(a)' = MembersOf(a)
    BY <1>3 DEF MembersOf
  <2>4. Apart => OneOpenRetry'
    BY <1>4, <1>5, <2>3 DEF RetryInv, PastInv, OneOpenRetry
  <2> QED
    BY <1>3, <2>1, <2>2, <2>4 DEF RetryInv, PastInv
<1>9. job'[t].step = "final"
  BY <1>3, GotoIs DEF Inv, TypeInv, Steps
<1>10. Holding(job[t])'
  <2>1. ASSUME NEW a \in RetryBatches, NEW c \in Cases, members[a][c] # None, stage'[a] = "open"
        PROVE  ~ReportedIn(pool[c], a) /\ (Apart => pool[c].active = a)
    <3>1. a # b /\ stage[a] = "open"
      BY <1>4, <1>5, <2>1
    <3> QED
      BY <1>2, <1>3, <2>1, <3>1 DEF Holding
  <2> QED
    BY <1>3, <1>7, <1>9, <2>1 DEF Holding
<1>11. Carried(job[t])'
  BY <1>9 DEF Carried
<1> QED
  BY <1>8, <1>10, <1>11 DEF RetryInv, OneTerminal

\* At first there is no batch and no row.
LEMMA InitHistory == Init => RetryInv
<1> SUFFICES ASSUME Init PROVE RetryInv
  OBVIOUS
<1>1. \A t \in Terminals : job[t] = Idle
  BY DEF Init
<1>2. Idle.step = "idle"
  BY IdleIs
<1>3. \A b \in Batches, c \in Cases : members[b][c] = None /\ stage[b] = "absent"
  BY DEF Init
<1>4. \A b \in RetryBatches : b \in Batches
  BY RetryBatchesAssumption
<1>5. PastInv
  BY <1>3, <1>4 DEF Init, PastInv, OneOpenRetry, NewBatches
<1>6. \A t \in Terminals : Holding(job[t]) /\ Carried(job[t])
  BY <1>1, <1>2, <1>3, <1>4 DEF Init, Holding, Carried
<1> QED
  BY <1>5, <1>6 DEF RetryInv

\* One case for each action.
LEMMA NextHistory ==
    ASSUME Undisturbed
    PROVE  Inv /\ RetryInv /\ [Next]_vars => RetryInv'
<1> SUFFICES ASSUME Inv, RetryInv, [Next]_vars PROVE RetryInv'
  OBVIOUS
<1>0. OneTerminal /\ MaxCrashes = 0 /\ MaxRebuilds = 0
  BY DEF Undisturbed
<1>1. CASE UNCHANGED vars
  <2>1. UNCHANGED <<pool, members, decision, stage, failed, job>>
    BY <1>1 DEF vars, batches
  <2>2. PastInv'
    BY <2>1, PastStays DEF RetryInv
  <2>3. \A b : MembersOf(b)' = MembersOf(b) /\ PoolWith(b)' = PoolWith(b)
    BY <2>1 DEF MembersOf, PoolWith, EventOf
  <2>4. \A chosen, b : Chosen(chosen, b)' = Chosen(chosen, b)
    BY <2>1 DEF Chosen
  <2>5. ASSUME NEW t \in Terminals PROVE Holding(job[t])' /\ Carried(job[t])'
    <3>1. PICK j : j = job[t]
      OBVIOUS
    <3>2. Holding(j) /\ Carried(j) /\ job'[t] = j
      BY <2>1, <3>1 DEF RetryInv
    <3>3. Holding(j)'
      BY <2>1, <3>2 DEF Holding, Fails
    <3>4. Carried(j)'
      BY <2>1, <2>3, <2>4, <3>2 DEF Carried
    <3> QED
      BY <3>2, <3>3, <3>4
  <2> QED
    BY <2>2, <2>5 DEF RetryInv
<1>2. ASSUME NEW b \in Batches, Adjudicate(b) \/ Migrate(b) PROVE RetryInv'
  BY <1>2, DecideHistory
<1>3. ASSUME NEW t \in Terminals, NEW b \in NewBatches, Collect(t, b) PROVE RetryInv'
  BY <1>0, <1>3, CollectHistory
<1>4. ASSUME NEW t \in Terminals, WriteBatch(t) PROVE RetryInv'
  BY <1>0, <1>4, WriteBatchHistory
<1>5. ASSUME NEW t \in Terminals, NEW b \in Batches, NEW command \in {"integrate", "finalize"},
             Integrate(t, b, command)
      PROVE  RetryInv'
  BY <1>0, <1>5, IntegrateHistory
<1>6. ASSUME NEW t \in Terminals, WriteCorpus(t) \/ WriteSummary(t) \/ WriteFinalSummary(t)
      PROVE  RetryInv'
  BY <1>0, <1>6, WritingHistory
<1>7. ASSUME NEW t \in Terminals, LoadPool(t) PROVE RetryInv'
  BY <1>0, <1>7, LoadPoolHistory
<1>8. ASSUME NEW t \in Terminals, WritePool(t) PROVE RetryInv'
  BY <1>8, WritePoolHistory
<1>9. ASSUME NEW t \in Terminals, WriteMetadata(t) PROVE RetryInv'
  BY <1>0, <1>9, WriteMetadataHistory
<1>10. ASSUME NEW t \in Terminals, NEW context \in Contexts, OfferContext(t, context)
       PROVE  RetryInv'
  BY <1>0, <1>10, OfferContextHistory
<1>11. ASSUME NEW t \in Terminals, NEW b \in Batches, SelectRetries(t, b) PROVE RetryInv'
  BY <1>0, <1>11, SelectRetriesHistory
<1>12. ASSUME NEW t \in Terminals, BuildRetryBatch(t) PROVE RetryInv'
  BY <1>0, <1>12, BuildHistory
<1>13. ASSUME NEW t \in Terminals, Rebuild(t) \/ Crash(t) PROVE RetryInv'
  <2>1. ~(crashes < MaxCrashes) /\ ~(rebuilds < MaxRebuilds)
    BY <1>0 DEF Inv, TypeInv
  <2> QED
    BY <1>13, <2>1 DEF Rebuild, Crash
<1> QED
  BY <1>1, <1>2, <1>3, <1>4, <1>5, <1>6, <1>7, <1>8, <1>9, <1>10, <1>11, <1>12, <1>13 DEF Next

\* RetryInv is invariant, given what Inv says of the batches and the pool.
LEMMA RetryInvariance == Undisturbed => (Spec => [](Inv /\ RetryInv))
<1> SUFFICES ASSUME Undisturbed PROVE Spec => [](Inv /\ RetryInv)
  OBVIOUS
<1>1. Init => Inv /\ RetryInv
  BY InitInv, InitHistory
<1>2. OneTerminal
  BY DEF Undisturbed
<1>3. Inv /\ RetryInv /\ [Next]_vars => Inv' /\ RetryInv'
  BY <1>2, NextInv, NextHistory
<1> QED
  BY <1>1, <1>3, PTL DEF Spec

(***************************************************************************)
(* OneOpenRetry: a row is not selected while a batch holds it, and a batch *)
(* holds the rows of its cases until it has reported them.                 *)
(***************************************************************************)
THEOREM RetriesDoNotOverlap == Undisturbed /\ Apart => (Spec => []OneOpenRetry)
<1> SUFFICES ASSUME Undisturbed, Apart PROVE Spec => []OneOpenRetry
  OBVIOUS
<1>1. RetryInv => OneOpenRetry
  BY DEF RetryInv, PastInv
<1> QED
  BY <1>1, RetryInvariance, PTL

(***************************************************************************)
(* AttemptsDistinct: the failed re-reviews of a case have the numbers up   *)
(* to its row's count, and the batch that is open has the next.            *)
(***************************************************************************)
THEOREM AttemptsAreNumbered == Undisturbed /\ Apart => (Spec => []AttemptsDistinct)
<1> SUFFICES ASSUME Undisturbed, Apart PROVE Spec => []AttemptsDistinct
  OBVIOUS
<1>1. Inv /\ RetryInv => AttemptsDistinct
  <2> SUFFICES ASSUME Inv, RetryInv, NEW a \in RetryBatches, NEW b \in RetryBatches, a # b,
                      NEW c \in MembersOf(a) \intersect MembersOf(b),
                      decision[a][c] = "retryable", decision[b][c] = "retryable"
               PROVE  members[a][c].attempt # members[b][c].attempt
    BY DEF AttemptsDistinct
  <2>1. /\ c \in Cases /\ members[a][c] # None /\ members[b][c] # None
        /\ a \in Batches /\ b \in Batches
    BY RetryBatchesAssumption DEF MembersOf
  <2>2. Retried(a, c, pool[c]) /\ Retried(b, c, pool[c])
    BY <2>1 DEF RetryInv, PastInv
  <2>3. /\ pool[c] \in Row /\ History(c, pool[c], members, decision)
    BY <2>1, <2>2 DEF Retried, Inv, PoolInv, Sound, Pool, RetryInv, PastInv
  <2>4. ASSUME NEW d \in RetryBatches, decision[d][c] = "retryable", ReportedIn(pool[c], d)
        PROVE  d \in FailedRetries(pool[c].events)
    BY <2>3, <2>4 DEF History, ReportedIn, FailedRetries
  <2>5. pool[c].attempts \in Nat /\ members[a][c].attempt \in Nat /\ members[b][c].attempt \in Nat
    <3>1. members[a][c] \in Member /\ members[b][c] \in Member
      BY <2>1 DEF Inv, TypeInv
    <3> QED
      BY <2>3, <3>1 DEF Row, Member
  <2>6. CASE ReportedIn(pool[c], a) /\ ReportedIn(pool[c], b)
    BY <2>3, <2>4, <2>6 DEF History
  <2>7. CASE ReportedIn(pool[c], a) /\ ~ReportedIn(pool[c], b)
    BY <2>2, <2>3, <2>4, <2>5, <2>7 DEF History, Retried
  <2>8. CASE ~ReportedIn(pool[c], a) /\ ReportedIn(pool[c], b)
    BY <2>2, <2>3, <2>4, <2>5, <2>8 DEF History, Retried
  <2>9. CASE ~ReportedIn(pool[c], a) /\ ~ReportedIn(pool[c], b)
    <3>1. stage[a] = "open" /\ stage[b] = "open"
      BY <2>2, <2>9 DEF Retried
    <3> QED
      BY <3>1 DEF RetryInv, PastInv, OneOpenRetry
  <2> QED
    BY <2>6, <2>7, <2>8, <2>9
<1> QED
  BY <1>1, RetryInvariance, PTL

(***************************************************************************)
(* FreshContext: a row's latest context is the one its case last failed    *)
(* with whenever rows are selected, and they are only with another.        *)
(***************************************************************************)
THEOREM RetriesAreFresh == Undisturbed => (Spec => FreshContext)
<1> SUFFICES ASSUME Undisturbed PROVE Spec => FreshContext
  OBVIOUS
<1> DEFINE Fresh == \A b \in RetryBatches, c \in Cases :
                      stage[b] = "absent" /\ stage'[b] = "open" /\ members'[b][c] # None =>
                        members'[b][c].context # failed[c]
<1>1. Inv /\ RetryInv /\ [Next]_vars => [Fresh]_vars
  <2> SUFFICES ASSUME Inv, RetryInv, Next, NEW b \in RetryBatches, NEW c \in Cases,
                      stage[b] = "absent", stage'[b] = "open", members'[b][c] # None
               PROVE  members'[b][c].context # failed[c]
    OBVIOUS
  <2>1. b \in Batches /\ b \notin NewBatches
    BY RetryBatchesAssumption DEF NewBatches
  <2>2. \E t \in Terminals : WriteBatch(t) \/ BuildRetryBatch(t) \/ WriteMetadata(t) \/ Crash(t)
    <3>0. SUFFICES ASSUME ~ \E t \in Terminals :
                            WriteBatch(t) \/ BuildRetryBatch(t) \/ WriteMetadata(t) \/ Crash(t)
                   PROVE  stage' = stage
      OBVIOUS
    <3>1. ASSUME NEW a \in Batches, Adjudicate(a) \/ Migrate(a) PROVE stage' = stage
      BY <3>1 DEF Adjudicate, Migrate
    <3>2. ASSUME NEW t \in Terminals, NEW a \in NewBatches, Collect(t, a) PROVE stage' = stage
      BY <3>2 DEF Collect, batches
    <3>3. ASSUME NEW t \in Terminals, NEW a \in Batches, NEW command \in {"integrate", "finalize"},
                 Integrate(t, a, command)
          PROVE  stage' = stage
      BY <3>3 DEF Integrate, batches
    <3>4. ASSUME NEW t \in Terminals,
                 \/ WriteCorpus(t) \/ WriteSummary(t) \/ LoadPool(t) \/ WritePool(t)
                 \/ WriteFinalSummary(t) \/ Rebuild(t)
          PROVE  stage' = stage
      BY <3>4 DEF WriteCorpus, WriteSummary, LoadPool, WritePool, WriteFinalSummary, Rebuild, batches
    <3>5. ASSUME NEW t \in Terminals, NEW context \in Contexts, OfferContext(t, context)
          PROVE  stage' = stage
      BY <3>5 DEF OfferContext, batches
    <3>6. ASSUME NEW t \in Terminals, NEW a \in Batches, SelectRetries(t, a) PROVE stage' = stage
      BY <3>6 DEF SelectRetries, batches
    <3> QED
      BY <3>0, <3>1, <3>2, <3>3, <3>4, <3>5, <3>6 DEF Next
  <2>3. PICK t \in Terminals : WriteBatch(t) \/ BuildRetryBatch(t) \/ WriteMetadata(t) \/ Crash(t)
    BY <2>2
  <2>4. ~WriteMetadata(t) /\ ~Crash(t)
    BY <2>1 DEF WriteMetadata, Crash, Inv, TypeInv, Torn
  <2>5. ~WriteBatch(t)
    <3>1. SUFFICES ASSUME WriteBatch(t) PROVE FALSE
      OBVIOUS
    <3>2. job[t].batch \in NewBatches
      BY <3>1 DEF WriteBatch, At, RetryInv, Carried
    <3> QED
      BY <2>1, <3>1, <3>2 DEF WriteBatch, Inv, TypeInv
  <2>6. BuildRetryBatch(t)
    BY <2>3, <2>4, <2>5
  <2>7. /\ stage' = [stage EXCEPT ![job[t].batch] = "open"] /\ job[t].step = "files"
        /\ job[t].batch \in Batches
    BY <2>6, Built
  <2>8. job[t].batch = b
    BY <2>1, <2>7 DEF Inv, TypeInv
  <2>9. PICK chosen \in SUBSET {x \in Cases : pool[x] # None /\ Selectable(pool[x])} :
          /\ job[t].rows = Chosen(chosen, job[t].batch)
          /\ members' = [members EXCEPT ![job[t].batch] =
               [x \in Cases |-> IF x \in chosen THEN RetriedCase(job[t].rows[x], x) ELSE None]]
    BY <2>6, Built
  <2>10. c \in chosen /\ members'[b][c] = RetriedCase(job[t].rows[c], c)
    BY <2>1, <2>8, <2>9 DEF Inv, TypeInv
  <2>11. pool[c] # None /\ Selectable(pool[c]) /\ pool[c] \in Row
    BY <2>10 DEF Inv, PoolInv, Sound, Pool
  <2>12. job[t].rows[c].context = pool[c].context
    BY <2>9, <2>10, <2>11 DEF Chosen, Row
  <2>13. pool[c].context # failed[c]
    BY <2>7, <2>11, SelectableIs DEF Aside
  <2>14. PICK row : row = job[t].rows[c]
    OBVIOUS
  <2>15. RetriedCase(row, c).context = row.context
    BY DEF RetriedCase
  <2> QED
    BY <2>10, <2>12, <2>13, <2>14, <2>15
<1>2. Spec => [][Fresh]_vars
  BY <1>1, RetryInvariance, PTL DEF Spec
<1> QED
  BY <1>2 DEF FreshContext
=============================================================================
