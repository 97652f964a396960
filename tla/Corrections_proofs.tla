------------------------- MODULE Corrections_proofs -------------------------
(***************************************************************************)
(* Proofs about Corrections, for any finite corpus, any contents, any      *)
(* number of decision files, previews and killed commands.                 *)
(***************************************************************************)
EXTENDS Corrections, SequenceTheorems, FiniteSetTheorems, TLAPS

(***************************************************************************)
(* Commands are run one after the other, by hand.  Of two that overlap, the *)
(* second may replace the record with what it computed from the first's    *)
(* input (Check looks before the write), and nothing below would hold but  *)
(* TypeOK.                                                                 *)
(***************************************************************************)
OneTerminal == \A t, u \in Terminals : t = u

\* The shape of the rows, which makes "the revision of a record" one number.
OneRowEach(rows) ==
    \A i, j \in DOMAIN rows : rows[i].record = rows[j].record => i = j

TypeInv ==
    /\ TypeOK
    /\ lineage # Torn => OneRowEach(lineage)
    /\ \A t \in Terminals :
         /\ OneRowEach(job[t].rows)
         /\ ~ At(t, "idle") =>
              /\ job[t].record \in Records
              /\ job[t].updated \in CanonicalRecord
              /\ job[t].updated.history # <<>>

-----------------------------------------------------------------------------
(***************************************************************************)
(* The history.  What a command computed still extends the record that the *)
(* corpus holds until it has been written, and the rows it will write tell *)
(* no more than the corpus will hold then.                                 *)
(***************************************************************************)
\* What the corpus holds once the write of job j is done.
After(records, j) == [records EXCEPT ![j.record] = j.updated]

Begins(h, g) == Len(h) <= Len(g) /\ \A i \in 1 .. Len(h) : h[i] = g[i]

Chained(record) ==
    LET h == record.history
    IN  /\ \A i \in 1 .. Len(h) - 1 : h[i].new = h[i + 1].old
        /\ Len(h) > 0 => h[Len(h)].new = record.content.oracle

\* Every row tells the beginning of a history of the records given.
Behind(rows, records) ==
    \A i \in DOMAIN rows : Begins(rows[i].history, records[rows[i].record].history)

\* A record is another one with one item more.
Extends(new, old) ==
    /\ Len(new.history) = Len(old.history) + 1
    /\ \A i \in 1 .. Len(old.history) : new.history[i] = old.history[i]
    /\ new.history[Len(new.history)].old = old.content.oracle
    /\ new.history[Len(new.history)].new = new.content.oracle

JobChain(j, records) ==
    /\ j.step \in {"check", "corpus"} =>
         Extends(j.updated, records[j.record]) /\ Behind(j.rows, After(records, j))
    /\ j.step \in {"lineage", "receipt"} =>
         records[j.record] = j.updated /\ Behind(j.rows, records)

ChainInv ==
    /\ \A r \in Records : Chained(corpus[r])
    /\ lineage # Torn => Behind(lineage, corpus)
    /\ \A t \in Terminals : JobChain(job[t], corpus)

-----------------------------------------------------------------------------
(***************************************************************************)
(* The revisions.  Between two commands the lineage file gives the length  *)
(* of every history, so counting from it is counting from the history.     *)
(***************************************************************************)
Counted(h) == \A i \in 1 .. Len(h) : h[i].revision = i

\* The rows give the length of every history, and no row is missing.
Current(rows, records) ==
    /\ \A i \in DOMAIN rows : rows[i].revision = Len(records[rows[i].record].history)
    /\ \A r \in Records :
         Len(records[r].history) > 0 => \E i \in DOMAIN rows : rows[i].record = r

JobCurrent(j, records) ==
    j.step # "idle" => Counted(j.updated.history) /\ Current(j.rows, After(records, j))

RevisionInv ==
    crashes = 0 =>
        /\ \A r \in Records : Counted(corpus[r].history)
        /\ (\A t \in Terminals : job[t].step # "lineage") => Current(lineage, corpus)
        /\ \A t \in Terminals : JobCurrent(job[t], corpus)

-----------------------------------------------------------------------------
\* Removing an item from a sequence keeps the others.
LEMMA RemoveAtIs ==
    ASSUME NEW S, NEW s \in Seq(S), NEW i \in 1 .. Len(s)
    PROVE  /\ RemoveAt(s, i) \in Seq(S)
           /\ Len(RemoveAt(s, i)) = Len(s) - 1
           /\ \A k \in 1 .. i - 1 : RemoveAt(s, i)[k] = s[k]
           /\ \A k \in i .. Len(s) - 1 : RemoveAt(s, i)[k] = s[k + 1]
<1> DEFINE left == SubSeq(s, 1, i - 1)
           right == SubSeq(s, i + 1, Len(s))
<1>1. Len(s) \in Nat /\ i \in Nat /\ i >= 1 /\ i <= Len(s)
  BY LenProperties
<1>2. /\ \A k \in 1 .. i - 1 : s[k] \in S
      /\ \A k \in i + 1 .. Len(s) : s[k] \in S
  BY <1>1, ElementOfSeq
<1>3. /\ left \in Seq(S) /\ Len(left) = i - 1
      /\ \A k \in 1 .. i - 1 : left[k] = s[k]
  <2>1. /\ left \in Seq(S)
        /\ Len(left) = IF 1 <= i - 1 THEN i - 1 - 1 + 1 ELSE 0
        /\ \A k \in 1 .. i - 1 - 1 + 1 : left[k] = s[1 + k - 1]
    BY <1>1, <1>2, SubSeqProperties, i - 1 \in Int
  <2> HIDE DEF left
  <2> QED
    BY <1>1, <2>1
<1>4. /\ right \in Seq(S) /\ Len(right) = Len(s) - i
      /\ \A k \in 1 .. Len(s) - i : right[k] = s[i + k]
  <2>1. /\ right \in Seq(S)
        /\ Len(right) = IF i + 1 <= Len(s) THEN Len(s) - (i + 1) + 1 ELSE 0
        /\ \A k \in 1 .. Len(s) - (i + 1) + 1 : right[k] = s[i + 1 + k - 1]
    BY <1>1, <1>2, SubSeqProperties, i + 1 \in Int
  <2> HIDE DEF right
  <2> QED
    BY <1>1, <2>1
<1>5. RemoveAt(s, i) = left \o right
  BY DEF RemoveAt
<1> HIDE DEF left, right
<1>6. /\ left \o right \in Seq(S)
      /\ Len(left \o right) = Len(left) + Len(right)
      /\ \A k \in 1 .. Len(left) + Len(right) :
           (left \o right)[k] = IF k <= Len(left) THEN left[k] ELSE right[k - Len(left)]
  BY <1>3, <1>4, ConcatProperties
<1> QED
  <2>1. Len(left \o right) = Len(s) - 1
    BY <1>1, <1>3, <1>4, <1>6
  <2>2. ASSUME NEW k \in 1 .. i - 1 PROVE (left \o right)[k] = s[k]
    <3>1. k \in 1 .. Len(left) + Len(right) /\ k <= Len(left)
      BY <1>1, <1>3, <1>4, <2>2
    <3> QED
      BY <1>3, <1>6, <2>2, <3>1
  <2>3. ASSUME NEW k \in i .. Len(s) - 1 PROVE (left \o right)[k] = s[k + 1]
    <3>1. k \in 1 .. Len(left) + Len(right) /\ ~ (k <= Len(left))
      BY <1>1, <1>3, <1>4, <2>3
    <3>2. (left \o right)[k] = right[k - (i - 1)]
      BY <1>3, <1>6, <3>1
    <3>3. k - (i - 1) \in 1 .. Len(s) - i /\ i + (k - (i - 1)) = k + 1
      BY <1>1, <2>3
    <3> QED
      BY <1>4, <3>2, <3>3
  <2> QED
    BY <1>5, <1>6, <2>1, <2>2, <2>3

\* What is left of the rows when the row of a record is taken out.
LEMMA WithoutIs ==
    ASSUME NEW S, NEW rows \in Seq(S), OneRowEach(rows), NEW r
    PROVE  /\ Without(rows, r) \in Seq(S)
           /\ OneRowEach(Without(rows, r))
           /\ \A k \in DOMAIN Without(rows, r) :
                \E i \in DOMAIN rows : rows[i].record # r /\ Without(rows, r)[k] = rows[i]
           /\ \A i \in DOMAIN rows :
                rows[i].record # r => \E k \in DOMAIN Without(rows, r) : Without(rows, r)[k] = rows[i]
<1>1. DOMAIN rows = 1 .. Len(rows) /\ Len(rows) \in Nat
  BY LenProperties
<1>2. CASE \E i \in DOMAIN rows : rows[i].record = r
  <2> DEFINE p == CHOOSE i \in DOMAIN rows : rows[i].record = r
             rest == RemoveAt(rows, p)
  <2>1. p \in 1 .. Len(rows) /\ rows[p].record = r
    BY <1>1, <1>2
  <2>2. Without(rows, r) = rest
    BY <1>2 DEF Without
  <2> HIDE DEF p
  <2>3. /\ rest \in Seq(S) /\ Len(rest) = Len(rows) - 1
        /\ \A k \in 1 .. p - 1 : rest[k] = rows[k]
        /\ \A k \in p .. Len(rows) - 1 : rest[k] = rows[k + 1]
    BY <2>1, RemoveAtIs
  <2> HIDE DEF rest
  <2>4. DOMAIN rest = 1 .. Len(rows) - 1
    BY <2>3, LenProperties
  <2> DEFINE from == [k \in DOMAIN rest |-> IF k < p THEN k ELSE k + 1]
  <2>5. \A k \in DOMAIN rest : /\ from[k] \in DOMAIN rows \ {p}
                               /\ rest[k] = rows[from[k]]
    BY <1>1, <2>1, <2>3, <2>4
  <2>6. \A k, m \in DOMAIN rest : from[k] = from[m] => k = m
    BY <1>1, <2>1, <2>4
  <2>7. \A i \in DOMAIN rows \ {p} : \E k \in DOMAIN rest : from[k] = i
    <3> TAKE i \in DOMAIN rows \ {p}
    <3>1. CASE i < p
      <4>1. i \in DOMAIN rest /\ from[i] = i
        BY <1>1, <2>1, <2>4, <3>1
      <4> QED
        BY <4>1
    <3>2. CASE i > p
      <4>1. i - 1 \in DOMAIN rest /\ from[i - 1] = i
        BY <1>1, <2>1, <2>4, <3>2
      <4> QED
        BY <4>1
    <3> QED
      BY <1>1, <2>1, <3>1, <3>2
  <2> HIDE DEF from
  <2>8. OneRowEach(rest)
    BY <2>5, <2>6 DEF OneRowEach
  <2>9. \A k \in DOMAIN rest : \E i \in DOMAIN rows : rows[i].record # r /\ rest[k] = rows[i]
    BY <1>1, <2>1, <2>5 DEF OneRowEach
  <2>10. \A i \in DOMAIN rows : rows[i].record # r => \E k \in DOMAIN rest : rest[k] = rows[i]
    BY <2>1, <2>5, <2>7
  <2> QED
    BY <2>2, <2>3, <2>8, <2>9, <2>10
<1>3. CASE \A i \in DOMAIN rows : rows[i].record # r
  <2>1. Without(rows, r) = rows
    BY <1>3 DEF Without
  <2> QED
    BY <1>3, <2>1
<1> QED
  BY <1>2, <1>3

\* The legacy evidence made up for a corpus: a row of revision 0 per record.
LEMMA LegacyIs ==
    LET rows == SetToSeq({Legacy(r) : r \in Records})
    IN  /\ rows \in Seq(EvidenceRow) /\ OneRowEach(rows)
        /\ \A i \in DOMAIN rows : rows[i] = Legacy(rows[i].record) /\ rows[i].record \in Records
<1> DEFINE L == {Legacy(r) : r \in Records}
           rows == SetToSeq(L)
<1>1. IsFiniteSet(L)
  <2> DEFINE f == [r \in Records |-> Legacy(r)]
  <2>1. f \in Surjection(Records, L)
    BY DEF Surjection
  <2> HIDE DEF f
  <2> QED
    BY <2>1, CorpusIsFinite, FS_Surjection
<1>2. L \subseteq EvidenceRow
  <2>1. << >> \in Seq(Item)
    BY EmptySeq
  <2>2. ASSUME NEW r \in Records PROVE Legacy(r) \in EvidenceRow
    BY <2>1 DEF Legacy, EvidenceRow
  <2> QED
    BY <2>2
<1>3. \A x \in L : x = Legacy(x.record) /\ x.record \in Records
  BY DEF Legacy
<1> HIDE DEF L
<1>4. Cardinality(L) \in Nat /\ \E f \in [1 .. Cardinality(L) -> L] : IsInjective(f)
  BY <1>1, FS_CardinalityType DEF ExistsBijection, Bijection, Injection
<1>5. rows \in [1 .. Cardinality(L) -> L] /\ IsInjective(rows)
  BY <1>4 DEF SetToSeq
<1>6. rows \in Seq(L)
  BY <1>4, <1>5
<1> HIDE DEF rows
<1>7. rows \in Seq(EvidenceRow)
  BY <1>2, <1>6, SeqMonotonic
<1>8. OneRowEach(rows)
  BY <1>3, <1>5 DEF OneRowEach, IsInjective
<1>9. \A i \in DOMAIN rows : rows[i] = Legacy(rows[i].record) /\ rows[i].record \in Records
  BY <1>3, <1>5
<1> QED
  BY <1>7, <1>8, <1>9 DEF rows, L

\* With one row per record, the maximum is over one revision and 0.
LEMMA PreviousRevisionIs ==
    ASSUME NEW rows \in Seq(EvidenceRow), OneRowEach(rows), NEW r
    PROVE  /\ PreviousRevision(r, rows) \in Nat
           /\ \A i \in DOMAIN rows : rows[i].record = r => PreviousRevision(r, rows) = rows[i].revision
           /\ (\A i \in DOMAIN rows : rows[i].record # r) => PreviousRevision(r, rows) = 0
<1> DEFINE revisions == {rows[i].revision : i \in {j \in DOMAIN rows : rows[j].record = r}}
<1>1. PreviousRevision(r, rows) = Max(revisions \union {0})
  BY DEF PreviousRevision
<1>2. \A i \in DOMAIN rows : rows[i].revision \in Nat
  <2>1. \A i \in DOMAIN rows : rows[i] \in EvidenceRow
    BY LenProperties, ElementOfSeq
  <2> QED
    BY <2>1 DEF EvidenceRow
<1>3. ASSUME NEW x \in Nat, revisions \union {0} = {x, 0}
      PROVE  Max(revisions \union {0}) = x
  <2>1. Max({x, 0}) = x
    BY DEF Max
  <2> QED
    BY <1>3, <2>1
<1>4. CASE \E i \in DOMAIN rows : rows[i].record = r
  <2>1. PICK i \in DOMAIN rows : rows[i].record = r
    BY <1>4
  <2>2. \A j \in DOMAIN rows : rows[j].record = r => j = i
    BY <2>1 DEF OneRowEach
  <2>3. revisions \union {0} = {rows[i].revision, 0}
    BY <2>1, <2>2
  <2> HIDE DEF revisions
  <2>4. PreviousRevision(r, rows) = rows[i].revision
    BY <1>1, <1>2, <1>3, <2>3
  <2> QED
    BY <1>2, <2>1, <2>2, <2>4
<1>5. CASE \A i \in DOMAIN rows : rows[i].record # r
  <2>1. revisions \union {0} = {0, 0}
    BY <1>5
  <2> HIDE DEF revisions
  <2>2. PreviousRevision(r, rows) = 0
    BY <1>1, <1>3, <2>1
  <2> QED
    BY <1>5, <2>2
<1> QED
  BY <1>4, <1>5

-----------------------------------------------------------------------------
(***************************************************************************)
(* Types.  That every row file has one row per record makes the previous   *)
(* revision a number, and the step of a job tells which of its fields are  *)
(* filled.                                                                 *)
(***************************************************************************)
LEMMA InitType == Init => TypeInv
<1> SUFFICES ASSUME Init PROVE TypeInv
  OBVIOUS
<1>1. << >> \in Seq(Item) /\ << >> \in Seq(EvidenceRow) /\ DOMAIN << >> = {}
  BY EmptySeq
<1>2. corpus \in [Records -> CanonicalRecord]
  <2>1. \A x \in [content : Content, history : {<<>>}] : x \in CanonicalRecord
    BY <1>1 DEF CanonicalRecord
  <2> QED
    BY <2>1 DEF Init
<1>3. lineage \in Seq(EvidenceRow) /\ OneRowEach(lineage)
  <2>1. CASE lineage = << >>
    BY <1>1, <2>1 DEF OneRowEach
  <2>2. CASE lineage = SetToSeq({Legacy(r) : r \in Records})
    BY <2>2, LegacyIs
  <2> QED
    BY <2>1, <2>2 DEF Init
<1>4. /\ decisions = {} /\ receipts = {} /\ previews = 0 /\ crashes = 0
      /\ job = [t \in Terminals |-> Idle]
  BY DEF Init
<1>5. Idle \in [step : {"idle", "check", "corpus", "lineage", "receipt"},
                record : Records \union {None},
                updated : CanonicalRecord \union {None},
                rows : Seq(EvidenceRow)]
  BY <1>1 DEF Idle
<1>6. TypeOK
  BY <1>2, <1>3, <1>4, <1>5, CorrectionBounds DEF TypeOK
<1>7. \A t \in Terminals : OneRowEach(job[t].rows) /\ At(t, "idle")
  BY <1>1, <1>4 DEF Idle, At, OneRowEach
<1> QED
  BY <1>3, <1>6, <1>7 DEF TypeInv

\* What apply_correction computes, of a lineage that can be read.
LEMMA ItemIs ==
    ASSUME TypeInv, lineage # Torn, NEW d \in Decision
    PROVE  /\ NextItem(d) \in Item
           /\ NextItem(d).revision = PreviousRevision(d.record, lineage) + 1
           /\ NextItem(d).old = corpus[d.record].content.oracle
           /\ NextItem(d).new = d.content.oracle
<1>1. d.record \in Records /\ d.content \in Content
  BY DEF Decision
<1>2. corpus[d.record] \in CanonicalRecord
  BY <1>1 DEF TypeInv, TypeOK
<1>3. PreviousRevision(d.record, lineage) \in Nat
  BY PreviousRevisionIs DEF TypeInv, TypeOK
<1>4. corpus[d.record].content.oracle \in Oracles /\ d.content.oracle \in Oracles
  BY <1>1, <1>2 DEF CanonicalRecord, Content
<1> QED
  BY <1>3, <1>4 DEF NextItem, Item

\* A corrected record has one item more.
LEMMA CorrectedIs ==
    ASSUME TypeInv, lineage # Torn, NEW d \in Decision
    PROVE  LET old == corpus[d.record]
               new == Corrected(d)
           IN  /\ old \in CanonicalRecord /\ new \in CanonicalRecord
               /\ new.content = d.content /\ new.history # << >>
               /\ Len(new.history) = Len(old.history) + 1
               /\ \A i \in 1 .. Len(old.history) : new.history[i] = old.history[i]
               /\ new.history[Len(new.history)] = NextItem(d)
<1>1. d.record \in Records /\ d.content \in Content
  BY DEF Decision
<1>2. corpus[d.record] \in CanonicalRecord
  BY <1>1 DEF TypeInv, TypeOK
<1>3. corpus[d.record].history \in Seq(Item)
  BY <1>2 DEF CanonicalRecord
<1>4. NextItem(d) \in Item
  BY ItemIs
<1> DEFINE h == corpus[d.record].history
           g == Append(h, NextItem(d))
<1>5. /\ g \in Seq(Item) /\ g # << >> /\ Len(g) = Len(h) + 1
      /\ \A i \in 1 .. Len(h) : g[i] = h[i]
      /\ g[Len(h) + 1] = NextItem(d)
  BY <1>3, <1>4, AppendProperties
<1>6. Corrected(d).content = d.content /\ Corrected(d).history = g
  BY DEF Corrected
<1> HIDE DEF g
<1>7. Corrected(d) \in CanonicalRecord
  BY <1>1, <1>5 DEF Corrected, CanonicalRecord, g
<1> QED
  BY <1>2, <1>5, <1>6, <1>7

\* The rows a correction writes tell of its record once.
LEMMA EvidenceIs ==
    ASSUME TypeInv, lineage # Torn
    PROVE  Evidence \in Seq(EvidenceRow) /\ OneRowEach(Evidence)
<1>1. CASE lineage = << >>
  BY <1>1, LegacyIs DEF Evidence
<1>2. CASE lineage # << >>
  BY <1>2 DEF Evidence, TypeInv, TypeOK
<1> QED
  BY <1>1, <1>2

\* The rows with the record's own at the end, and one row per record.
LEMMA WithEntryIs ==
    ASSUME TypeInv, lineage # Torn, NEW d \in Decision,
           NEW rows \in Seq(EvidenceRow), OneRowEach(rows)
    PROVE  LET new == WithEntry(rows, d)
               entry == [record |-> d.record,
                         revision |-> NextItem(d).revision,
                         history |-> Corrected(d).history]
           IN  /\ new \in Seq(EvidenceRow) /\ OneRowEach(new)
               /\ \A k \in DOMAIN new :
                    \/ new[k] = entry
                    \/ /\ new[k].record # d.record
                       /\ \E i \in DOMAIN rows : new[k] = rows[i]
               /\ \E k \in DOMAIN new : new[k] = entry
               /\ \A i \in DOMAIN rows :
                    rows[i].record # d.record => \E k \in DOMAIN new : new[k] = rows[i]
<1> DEFINE rest == Without(rows, d.record)
           entry == [record |-> d.record,
                     revision |-> NextItem(d).revision,
                     history |-> Corrected(d).history]
           new == Append(rest, entry)
<1>1. /\ rest \in Seq(EvidenceRow) /\ OneRowEach(rest)
      /\ \A k \in DOMAIN rest : \E i \in DOMAIN rows : rows[i].record # d.record /\ rest[k] = rows[i]
      /\ \A i \in DOMAIN rows :
           rows[i].record # d.record => \E k \in DOMAIN rest : rest[k] = rows[i]
  <2> DEFINE r == d.record
  <2> HIDE DEF r
  <2>1. LET left == Without(rows, r)
        IN  /\ left \in Seq(EvidenceRow) /\ OneRowEach(left)
            /\ \A k \in DOMAIN left : \E i \in DOMAIN rows : rows[i].record # r /\ left[k] = rows[i]
            /\ \A i \in DOMAIN rows : rows[i].record # r => \E k \in DOMAIN left : left[k] = rows[i]
    BY WithoutIs
  <2> QED
    BY <2>1 DEF r
<1>2. entry \in EvidenceRow
  <2>1. NextItem(d).revision \in Nat
    BY ItemIs DEF Item
  <2>2. Corrected(d).history \in Seq(Item)
    BY CorrectedIs DEF CanonicalRecord
  <2>3. d.record \in Records
    BY DEF Decision
  <2> QED
    BY <2>1, <2>2, <2>3 DEF EvidenceRow
<1>3. WithEntry(rows, d) = new
  BY DEF WithEntry
<1>4. entry.record = d.record
  OBVIOUS
<1> HIDE DEF rest, entry
<1>5. /\ new \in Seq(EvidenceRow) /\ Len(new) = Len(rest) + 1
      /\ \A k \in 1 .. Len(rest) : new[k] = rest[k]
      /\ new[Len(rest) + 1] = entry
  BY <1>1, <1>2, AppendProperties
<1> HIDE DEF new
<1>6. /\ DOMAIN rest = 1 .. Len(rest) /\ Len(rest) \in Nat
      /\ DOMAIN new = 1 .. Len(rest) + 1
  BY <1>1, <1>5, LenProperties
<1>7. OneRowEach(new)
  <2> SUFFICES ASSUME NEW k \in DOMAIN new, NEW m \in DOMAIN new, new[k].record = new[m].record
               PROVE  k = m
    BY DEF OneRowEach
  <2>1. \A n \in DOMAIN rest : rest[n].record # entry.record
    BY <1>1, <1>4
  <2>2. CASE k \in DOMAIN rest /\ m \in DOMAIN rest
    BY <1>1, <1>5, <1>6, <2>2 DEF OneRowEach
  <2>3. CASE k = Len(rest) + 1 /\ m = Len(rest) + 1
    BY <2>3
  <2>4. CASE k = Len(rest) + 1 /\ m \in DOMAIN rest
    BY <1>5, <1>6, <2>1, <2>4
  <2>5. CASE k \in DOMAIN rest /\ m = Len(rest) + 1
    BY <1>5, <1>6, <2>1, <2>5
  <2> QED
    BY <1>6, <2>2, <2>3, <2>4, <2>5
<1>8. ASSUME NEW k \in DOMAIN new
      PROVE  \/ new[k] = entry
             \/ /\ new[k].record # d.record
                /\ \E i \in DOMAIN rows : new[k] = rows[i]
  <2>1. CASE k \in DOMAIN rest
    BY <1>1, <1>5, <1>6, <2>1
  <2>2. CASE k = Len(rest) + 1
    BY <1>5, <2>2
  <2> QED
    BY <1>6, <2>1, <2>2
<1>9. \E k \in DOMAIN new : new[k] = entry
  <2>1. Len(rest) + 1 \in DOMAIN new
    BY <1>6
  <2> QED
    BY <1>5, <2>1
<1>10. \A k \in DOMAIN rest : k \in DOMAIN new /\ new[k] = rest[k]
  BY <1>5, <1>6
<1>11. \A i \in DOMAIN rows : rows[i].record # d.record => \E k \in DOMAIN new : new[k] = rows[i]
  BY <1>1, <1>10
<1> QED
  BY <1>3, <1>5, <1>7, <1>8, <1>9, <1>11 DEF entry

\* A lineage cut after a row still has one row per record.
LEMMA CutIs ==
    ASSUME NEW rows \in Seq(EvidenceRow), OneRowEach(rows), NEW n \in 0 .. Len(rows)
    PROVE  /\ SubSeq(rows, 1, n) \in Seq(EvidenceRow)
           /\ OneRowEach(SubSeq(rows, 1, n))
           /\ DOMAIN SubSeq(rows, 1, n) \subseteq DOMAIN rows
           /\ \A i \in DOMAIN SubSeq(rows, 1, n) : SubSeq(rows, 1, n)[i] = rows[i]
<1> DEFINE cut == SubSeq(rows, 1, n)
<1>1. DOMAIN rows = 1 .. Len(rows) /\ Len(rows) \in Nat /\ n \in Nat /\ n <= Len(rows)
  BY LenProperties
<1>2. \A i \in 1 .. n : rows[i] \in EvidenceRow
  BY <1>1, ElementOfSeq
<1>3. /\ cut \in Seq(EvidenceRow)
      /\ Len(cut) = IF 1 <= n THEN n - 1 + 1 ELSE 0
      /\ \A i \in 1 .. n - 1 + 1 : cut[i] = rows[1 + i - 1]
  BY <1>1, <1>2, SubSeqProperties
<1> HIDE DEF cut
<1>4. DOMAIN cut = 1 .. n /\ \A i \in 1 .. n : cut[i] = rows[i]
  BY <1>1, <1>3, LenProperties
<1>5. OneRowEach(cut)
  BY <1>1, <1>4 DEF OneRowEach
<1> QED
  BY <1>1, <1>3, <1>4, <1>5 DEF cut

Job == [step : {"idle", "check", "corpus", "lineage", "receipt"},
        record : Records \union {None},
        updated : CanonicalRecord \union {None},
        rows : Seq(EvidenceRow)]

\* What TypeInv says of one job.
JobOK(j) ==
    /\ j \in Job /\ OneRowEach(j.rows)
    /\ j.step # "idle" =>
         j.record \in Records /\ j.updated \in CanonicalRecord /\ j.updated.history # << >>

\* What the type invariant says of each store.
LEMMA TypeInvIs ==
    TypeInv <=> /\ corpus \in [Records -> CanonicalRecord]
                /\ lineage = Torn \/ lineage \in Seq(EvidenceRow)
                /\ lineage # Torn => OneRowEach(lineage)
                /\ decisions \subseteq Decision /\ receipts \subseteq Receipt
                /\ job \in [Terminals -> Job] /\ \A t \in Terminals : JobOK(job[t])
                /\ previews \in 0 .. MaxPreviews /\ crashes \in 0 .. MaxCrashes
BY DEF TypeInv, TypeOK, Job, JobOK, At

\* One terminal's job is replaced by a job of the right shape.
LEMMA JobStep ==
    ASSUME TypeInv, NEW t \in Terminals, NEW j, JobOK(j), job' = [job EXCEPT ![t] = j]
    PROVE  job' \in [Terminals -> Job] /\ \A u \in Terminals : JobOK(job'[u])
<1>1. job \in [Terminals -> Job] /\ \A u \in Terminals : JobOK(job[u])
  BY TypeInvIs
<1>2. j \in Job
  BY DEF JobOK
<1> QED
  BY <1>1, <1>2

\* A terminal without a command.
LEMMA IdleOK == JobOK(Idle)
<1>1. << >> \in Seq(EvidenceRow) /\ DOMAIN << >> = {}
  BY EmptySeq
<1> QED
  BY <1>1 DEF JobOK, Job, Idle, OneRowEach

\* A command that goes to its next step keeps what it has computed.
LEMMA GotoOK ==
    ASSUME TypeInv, NEW t \in Terminals, ~ At(t, "idle"),
           NEW step \in {"check", "corpus", "lineage", "receipt"}
    PROVE  LET j == [job[t] EXCEPT !.step = step]
           IN  /\ JobOK(j) /\ j.record = job[t].record
               /\ j.updated = job[t].updated /\ j.rows = job[t].rows /\ j.step = step
               /\ Goto(t, step) => job' = [job EXCEPT ![t] = j]
<1>1. JobOK(job[t]) /\ job[t].step # "idle" /\ job \in [Terminals -> Job]
  BY TypeInvIs DEF At
<1> DEFINE j == [job[t] EXCEPT !.step = step]
<1>2. /\ j \in Job /\ j.record = job[t].record
      /\ j.updated = job[t].updated /\ j.rows = job[t].rows /\ j.step = step
  BY <1>1 DEF JobOK, Job
<1>3. JobOK(j)
  BY <1>1, <1>2 DEF JobOK
<1>4. Goto(t, step) => job' = [job EXCEPT ![t] = j]
  BY <1>1 DEF Goto
<1> QED
  BY <1>2, <1>3, <1>4

\* A step moves a job on, and that is all.
LEMMA GotoIs ==
    ASSUME TypeInv, NEW t \in Terminals, ~ At(t, "idle"),
           NEW step \in {"check", "corpus", "lineage", "receipt"}, Goto(t, step)
    PROVE  /\ JobOK(job'[t]) /\ job' = [job EXCEPT ![t] = job'[t]]
           /\ job'[t].step = step /\ job'[t].record = job[t].record
           /\ job'[t].updated = job[t].updated /\ job'[t].rows = job[t].rows
<1>1. PICK j : j = [job[t] EXCEPT !.step = step]
  OBVIOUS
<1>2. /\ JobOK(j) /\ j.record = job[t].record /\ j.updated = job[t].updated
      /\ j.rows = job[t].rows /\ j.step = step /\ job' = [job EXCEPT ![t] = j]
  BY <1>1, GotoOK
<1>3. job'[t] = j
  BY <1>2, TypeInvIs
<1> QED
  BY <1>2, <1>3

\* The revision in a receipt is the one of the last item.
LEMMA ReceiptIs ==
    ASSUME TypeInv, NEW t \in Terminals, ~ At(t, "idle")
    PROVE  /\ Len(job[t].updated.history) \in Nat \ {0}
           /\ LastItem(t) = job[t].updated.history[Len(job[t].updated.history)]
           /\ LastItem(t) \in Item /\ ReceiptOf(t) \in Receipt
<1>1. /\ job[t].record \in Records /\ job[t].updated.history \in Seq(Item)
      /\ job[t].updated.history # << >>
  BY TypeInvIs DEF JobOK, At, CanonicalRecord
<1>2. Len(job[t].updated.history) \in Nat \ {0}
  BY <1>1, EmptySeq
<1>3. LastItem(t) = job[t].updated.history[Len(job[t].updated.history)]
  BY DEF LastItem, Last
<1>4. LastItem(t) \in Item
  BY <1>1, <1>2, <1>3, ElementOfSeq
<1>5. ReceiptOf(t) \in Receipt
  BY <1>1, <1>4 DEF ReceiptOf, Receipt, Item
<1> QED
  BY <1>2, <1>3, <1>4, <1>5

\* Every step keeps the type invariant.
LEMMA NextType == TypeInv /\ [Next]_vars => TypeInv'
<1> SUFFICES ASSUME TypeInv, [Next]_vars PROVE TypeInv'
  OBVIOUS
<1>p. TypeInv' <=> /\ corpus' \in [Records -> CanonicalRecord]
                   /\ lineage' = Torn \/ lineage' \in Seq(EvidenceRow)
                   /\ lineage' # Torn => OneRowEach(lineage')
                   /\ decisions' \subseteq Decision /\ receipts' \subseteq Receipt
                   /\ job' \in [Terminals -> Job] /\ \A t \in Terminals : JobOK(job'[t])
                   /\ previews' \in 0 .. MaxPreviews /\ crashes' \in 0 .. MaxCrashes
  BY DEF TypeInv, TypeOK, Job, JobOK, At
<1>1. ASSUME NEW r \in Records, NEW content \in Content, Prepare(r, content) PROVE TypeInv'
  <2>1. corpus[r].content.oracle \in Oracles
    BY TypeInvIs DEF CanonicalRecord, Content
  <2>2. [record |-> r, old |-> corpus[r].content.oracle, content |-> content] \in Decision
    BY <2>1 DEF Decision
  <2>3. decisions' \subseteq Decision
    BY <1>1, <2>2, TypeInvIs DEF Prepare
  <2> QED
    BY <1>1, <1>p, <2>3, TypeInvIs DEF Prepare
<1>2. ASSUME NEW d \in decisions, Preview(d) PROVE TypeInv'
  <2>1. d \in Decision /\ lineage # Torn
    BY <1>2, TypeInvIs DEF Preview, Applicable
  <2>2. [record |-> d.record, revision |-> NextItem(d).revision] \in Receipt
    BY <2>1, ItemIs DEF Receipt, Item, Decision
  <2>3. receipts' \subseteq Receipt
    BY <1>2, <2>2, TypeInvIs DEF Preview
  <2>4. previews' \in 0 .. MaxPreviews
    BY <1>2, TypeInvIs, CorrectionBounds DEF Preview
  <2> QED
    BY <1>2, <1>p, <2>3, <2>4, TypeInvIs DEF Preview
<1>3. ASSUME NEW t \in Terminals, NEW d \in decisions, Apply(t, d) PROVE TypeInv'
  <2>1. d \in Decision /\ lineage # Torn
    BY <1>3, TypeInvIs DEF Apply, Applicable
  <2> DEFINE j == [step |-> "check", record |-> d.record, updated |-> Corrected(d),
                   rows |-> WithEntry(Evidence, d)]
  <2>2. WithEntry(Evidence, d) \in Seq(EvidenceRow) /\ OneRowEach(WithEntry(Evidence, d))
    BY <2>1, EvidenceIs, WithEntryIs
  <2>3. d.record \in Records /\ Corrected(d) \in CanonicalRecord /\ Corrected(d).history # << >>
    BY <2>1, CorrectedIs DEF Decision
  <2>4. JobOK(j)
    BY <2>2, <2>3 DEF JobOK, Job
  <2>5. job' = [job EXCEPT ![t] = j]
    BY <1>3 DEF Apply
  <2> HIDE DEF j
  <2>6. job' \in [Terminals -> Job] /\ \A u \in Terminals : JobOK(job'[u])
    BY <2>4, <2>5, JobStep
  <2> QED
    BY <1>3, <1>p, <2>6, TypeInvIs DEF Apply
<1>4. ASSUME NEW t \in Terminals, Check(t) PROVE TypeInv'
  <2>1. ~ At(t, "idle")
    BY <1>4 DEF Check, At
  <2>2. \E j : JobOK(j) /\ job' = [job EXCEPT ![t] = j]
    <3>1. CASE Goto(t, "corpus")
      BY <2>1, <3>1, GotoIs
    <3>2. CASE Return(t)
      BY <3>2, IdleOK DEF Return
    <3> QED
      BY <1>4, <3>1, <3>2 DEF Check
  <2>3. job' \in [Terminals -> Job] /\ \A u \in Terminals : JobOK(job'[u])
    BY <2>2, JobStep
  <2> QED
    BY <1>4, <1>p, <2>3, TypeInvIs DEF Check
<1>5. ASSUME NEW t \in Terminals, WriteCorpus(t) PROVE TypeInv'
  <2>1. ~ At(t, "idle")
    BY <1>5 DEF WriteCorpus, At
  <2>2. job' \in [Terminals -> Job] /\ \A u \in Terminals : JobOK(job'[u])
    BY <1>5, <2>1, GotoOK, JobStep DEF WriteCorpus
  <2>3. corpus' \in [Records -> CanonicalRecord]
    BY <1>5, <2>1, TypeInvIs DEF WriteCorpus, JobOK, At
  <2> QED
    BY <1>5, <1>p, <2>2, <2>3, TypeInvIs DEF WriteCorpus
<1>6. ASSUME NEW t \in Terminals, WriteLineage(t) PROVE TypeInv'
  <2>1. ~ At(t, "idle")
    BY <1>6 DEF WriteLineage, At
  <2>2. job' \in [Terminals -> Job] /\ \A u \in Terminals : JobOK(job'[u])
    BY <1>6, <2>1, GotoOK, JobStep DEF WriteLineage
  <2>3. lineage' \in Seq(EvidenceRow) /\ OneRowEach(lineage')
    BY <1>6, TypeInvIs DEF WriteLineage, JobOK, Job
  <2> QED
    BY <1>6, <1>p, <2>2, <2>3, TypeInvIs DEF WriteLineage
<1>7. ASSUME NEW t \in Terminals, WriteReceipt(t) PROVE TypeInv'
  <2>1. ReceiptOf(t) \in Receipt
    BY <1>7, ReceiptIs DEF WriteReceipt, At
  <2>2. job' \in [Terminals -> Job] /\ \A u \in Terminals : JobOK(job'[u])
    BY <1>7, IdleOK, JobStep DEF WriteReceipt, Return
  <2> QED
    BY <1>7, <1>p, <2>1, <2>2, TypeInvIs DEF WriteReceipt
<1>8. ASSUME NEW t \in Terminals, Crash(t) PROVE TypeInv'
  <2>1. ReceiptOf(t) \in Receipt
    BY <1>8, ReceiptIs DEF Crash
  <2>2. job' \in [Terminals -> Job] /\ \A u \in Terminals : JobOK(job'[u])
    BY <1>8, IdleOK, JobStep DEF Crash, Return
  <2>3. /\ lineage' = Torn \/ lineage' \in Seq(EvidenceRow)
        /\ lineage' # Torn => OneRowEach(lineage')
    <3>1. CASE lineage' = lineage
      BY <3>1, TypeInvIs
    <3>2. CASE lineage' \in {SubSeq(job[t].rows, 1, n) : n \in 0 .. Len(job[t].rows)}
      <4>1. job[t].rows \in Seq(EvidenceRow) /\ OneRowEach(job[t].rows)
        BY TypeInvIs DEF JobOK, Job
      <4> QED
        BY <3>2, <4>1, CutIs
    <3>3. CASE lineage' = Torn
      BY <3>3
    <3> QED
      BY <1>8, <3>1, <3>2, <3>3 DEF Crash
  <2>4. receipts' \subseteq Receipt
    BY <1>8, <2>1, TypeInvIs DEF Crash
  <2>5. crashes' \in 0 .. MaxCrashes
    BY <1>8, TypeInvIs, CorrectionBounds DEF Crash
  <2> QED
    BY <1>8, <1>p, <2>2, <2>3, <2>4, <2>5, TypeInvIs DEF Crash
<1>9. CASE UNCHANGED vars
  BY <1>9, <1>p, TypeInvIs DEF vars
<1> QED
  BY <1>1, <1>2, <1>3, <1>4, <1>5, <1>6, <1>7, <1>8, <1>9 DEF Next

(***************************************************************************)
(* The records, the evidence rows and what a command carries from one      *)
(* write to the next have their shape, in any number of terminals.         *)
(***************************************************************************)
THEOREM TypeCorrect == Spec => []TypeOK
<1>1. TypeInv => TypeOK
  BY DEF TypeInv
<1> QED
  BY InitType, NextType, <1>1, PTL DEF Spec

-----------------------------------------------------------------------------
(***************************************************************************)
(* Histories.                                                              *)
(***************************************************************************)
LEMMA BeginsIsPrefix ==
    ASSUME NEW S, NEW h \in Seq(S), NEW g \in Seq(S), Begins(h, g)
    PROVE  IsPrefix(h, g)
<1>1. /\ Len(h) \in Nat /\ Len(g) \in Nat /\ Len(h) <= Len(g)
      /\ \A i \in 1 .. Len(h) : h[i] = g[i] /\ h[i] \in S
  BY LenProperties, ElementOfSeq DEF Begins
<1>2. \A i \in 1 .. Len(h) : g[i] \in S
  BY <1>1
<1>3. SubSeq(h, 1, Len(h)) = h
  BY SubSeqFull
<1> DEFINE cut == SubSeq(g, 1, Len(h))
<1>4. /\ cut \in Seq(S)
      /\ Len(cut) = IF 1 <= Len(h) THEN Len(h) - 1 + 1 ELSE 0
      /\ \A i \in 1 .. Len(h) - 1 + 1 : cut[i] = g[1 + i - 1]
  BY <1>1, <1>2, SubSeqProperties
<1> HIDE DEF cut
<1>5. Len(cut) = Len(h) /\ \A i \in 1 .. Len(h) : h[i] = cut[i]
  BY <1>1, <1>4
<1>6. h = cut
  BY <1>4, <1>5, SeqEqual
<1> QED
  BY <1>1, <1>3, <1>6 DEF IsPrefix, cut

\* The front of a sequence that another one extends by an item.
LEMMA FrontIs ==
    ASSUME NEW S, NEW h \in Seq(S), NEW g \in Seq(S),
           Len(g) = Len(h) + 1, \A i \in 1 .. Len(h) : g[i] = h[i]
    PROVE  Front(g) = h
<1>1. Len(h) \in Nat /\ Len(g) - 1 = Len(h) /\ \A i \in 1 .. Len(h) : h[i] \in S
  BY LenProperties, ElementOfSeq
<1> DEFINE cut == SubSeq(g, 1, Len(h))
<1>2. /\ cut \in Seq(S)
      /\ Len(cut) = IF 1 <= Len(h) THEN Len(h) - 1 + 1 ELSE 0
      /\ \A i \in 1 .. Len(h) - 1 + 1 : cut[i] = g[1 + i - 1]
  BY <1>1, SubSeqProperties
<1>3. Front(g) = cut
  BY <1>1 DEF Front
<1> HIDE DEF cut
<1>4. Len(cut) = Len(h) /\ \A i \in 1 .. Len(h) : cut[i] = h[i]
  BY <1>1, <1>2
<1> QED
  BY <1>2, <1>3, <1>4, SeqEqual

\* Histories are empty to begin with.
LEMMA InitChain == Init => ChainInv
<1> SUFFICES ASSUME Init PROVE ChainInv
  OBVIOUS
<1>1. Len(<< >>) = 0 /\ DOMAIN << >> = {}
  OBVIOUS
<1>2. \A r \in Records : corpus[r].history = << >>
  BY DEF Init
<1>3. \A r \in Records : Chained(corpus[r])
  BY <1>1, <1>2 DEF Chained
<1>4. Behind(lineage, corpus)
  <2>1. CASE lineage = << >>
    BY <1>1, <2>1 DEF Behind
  <2>2. CASE lineage = SetToSeq({Legacy(r) : r \in Records})
    <3>1. \A i \in DOMAIN lineage : lineage[i] = Legacy(lineage[i].record) /\ lineage[i].record \in Records
      BY <2>2, LegacyIs
    <3>2. \A i \in DOMAIN lineage : lineage[i].history = << >> /\ lineage[i].record \in Records
      BY <3>1 DEF Legacy
    <3> QED
      BY <1>1, <1>2, <3>2 DEF Behind, Begins
  <2> QED
    BY <2>1, <2>2 DEF Init
<1>5. \A t \in Terminals : job[t].step = "idle"
  BY DEF Init, Idle
<1> QED
  BY <1>3, <1>4, <1>5 DEF ChainInv, JobChain

\* The rows a correction writes are not ahead of its record.
LEMMA EvidenceBehind ==
    ASSUME TypeInv, ChainInv, lineage # Torn
    PROVE  Behind(Evidence, corpus)
<1>1. CASE lineage = << >>
  <2>1. \A i \in DOMAIN Evidence : Evidence[i] = Legacy(Evidence[i].record) /\ Evidence[i].record \in Records
    BY <1>1, LegacyIs DEF Evidence
  <2>2. \A i \in DOMAIN Evidence : Evidence[i].history = << >> /\ Evidence[i].record \in Records
    BY <2>1 DEF Legacy
  <2>3. \A r \in Records : Len(corpus[r].history) \in Nat
    BY TypeInvIs, LenProperties DEF CanonicalRecord
  <2> QED
    BY <2>2, <2>3 DEF Behind, Begins
<1>2. CASE lineage # << >>
  BY <1>2 DEF Evidence, ChainInv
<1> QED
  BY <1>1, <1>2

\* A correction is computed from the record and lineage that are there.
LEMMA ApplyChain ==
    ASSUME TypeInv, ChainInv, NEW t \in Terminals, NEW d \in decisions, Apply(t, d)
    PROVE  JobChain(job'[t], corpus)
<1>1. d \in Decision /\ lineage # Torn /\ d.record \in Records
  BY TypeInvIs DEF Apply, Applicable, Decision
<1> DEFINE new == Corrected(d)
           old == corpus[d.record]
           rows == WithEntry(Evidence, d)
           entry == [record |-> d.record,
                     revision |-> NextItem(d).revision,
                     history |-> Corrected(d).history]
<1>2. job'[t] = [step |-> "check", record |-> d.record, updated |-> new, rows |-> rows]
  BY TypeInvIs DEF Apply
<1>3. /\ new \in CanonicalRecord /\ new.content = d.content
      /\ Len(new.history) = Len(old.history) + 1
      /\ \A i \in 1 .. Len(old.history) : new.history[i] = old.history[i]
      /\ new.history[Len(new.history)] = NextItem(d)
  BY <1>1, CorrectedIs
<1>4. Extends(new, old)
  BY <1>1, <1>3, ItemIs DEF Extends
<1>5. /\ \A k \in DOMAIN rows :
           \/ rows[k] = entry
           \/ /\ rows[k].record # d.record
              /\ \E i \in DOMAIN Evidence : rows[k] = Evidence[i]
      /\ rows \in Seq(EvidenceRow)
  BY <1>1, EvidenceIs, WithEntryIs
<1> DEFINE records == [corpus EXCEPT ![d.record] = new]
<1>6. ASSUME NEW k \in DOMAIN rows
      PROVE  Begins(rows[k].history, records[rows[k].record].history)
  <2>1. rows[k].record \in Records
    <3>1. rows[k] \in EvidenceRow
      <4> HIDE DEF rows
      <4> QED
        BY <1>5, LenProperties, ElementOfSeq
    <3> QED
      BY <3>1 DEF EvidenceRow
  <2>2. CASE rows[k] = entry
    <3>1. rows[k].history = new.history /\ rows[k].record = d.record
      BY <2>2
    <3>2. records[d.record] = new
      BY <1>1, TypeInvIs
    <3>3. Len(new.history) \in Nat
      BY <1>3, LenProperties DEF CanonicalRecord
    <3> QED
      BY <3>1, <3>2, <3>3 DEF Begins
  <2>3. CASE rows[k].record # d.record /\ \E i \in DOMAIN Evidence : rows[k] = Evidence[i]
    <3>1. Begins(rows[k].history, corpus[rows[k].record].history)
      BY <1>1, <2>3, EvidenceBehind DEF Behind
    <3>2. records[rows[k].record] = corpus[rows[k].record]
      BY <2>1, <2>3, TypeInvIs
    <3> QED
      BY <3>1, <3>2
  <2> QED
    BY <1>5, <2>2, <2>3
<1> HIDE DEF new, rows, entry
<1> QED
  BY <1>2, <1>4, <1>6 DEF JobChain, After, Behind

\* What a write of the corpus does to the record it replaces.
LEMMA WriteExtends ==
    ASSUME TypeInv, ChainInv, NEW t \in Terminals, WriteCorpus(t)
    PROVE  /\ corpus' = After(corpus, job[t])
           /\ corpus'[job[t].record] = job[t].updated
           /\ \A r \in Records \ {job[t].record} : corpus'[r] = corpus[r]
           /\ job[t].record \in Records /\ Extends(job[t].updated, corpus[job[t].record])
           /\ job[t].updated \in CanonicalRecord /\ corpus[job[t].record] \in CanonicalRecord
<1>1. job[t].step = "corpus" /\ corpus' = [corpus EXCEPT ![job[t].record] = job[t].updated]
  BY DEF WriteCorpus, At
<1>2. job[t].record \in Records /\ job[t].updated \in CanonicalRecord
  BY <1>1, TypeInvIs DEF JobOK
<1>3. Extends(job[t].updated, corpus[job[t].record])
  BY <1>1 DEF ChainInv, JobChain
<1> QED
  BY <1>1, <1>2, <1>3, TypeInvIs DEF After

\* Replacing the record extends its chain by one item.
LEMMA WriteCorpusChain ==
    ASSUME TypeInv, ChainInv, OneTerminal, NEW t \in Terminals, WriteCorpus(t)
    PROVE  ChainInv'
<1> DEFINE r0 == job[t].record
           new == job[t].updated
           old == corpus[r0]
<1>1. /\ corpus' = After(corpus, job[t]) /\ corpus'[r0] = new
      /\ \A r \in Records \ {r0} : corpus'[r] = corpus[r]
      /\ r0 \in Records /\ Extends(new, old)
      /\ new \in CanonicalRecord /\ old \in CanonicalRecord
  BY WriteExtends
<1>2. job[t].step = "corpus" /\ lineage' = lineage /\ Goto(t, "lineage")
  BY DEF WriteCorpus, At
<1>3. /\ Len(new.history) \in Nat /\ Len(old.history) \in Nat
      /\ Len(new.history) = Len(old.history) + 1
      /\ \A i \in 1 .. Len(old.history) : new.history[i] = old.history[i]
      /\ new.history[Len(new.history)].old = old.content.oracle
      /\ new.history[Len(new.history)].new = new.content.oracle
  BY <1>1, LenProperties DEF CanonicalRecord, Extends
<1> HIDE DEF r0, new, old
<1>4. Chained(new)
  <2>1. Chained(old)
    BY <1>1 DEF ChainInv, old
  <2>2. ASSUME NEW i \in 1 .. Len(new.history) - 1
        PROVE  new.history[i].new = new.history[i + 1].old
    <3>1. CASE i < Len(old.history)
      <4>1. i \in 1 .. Len(old.history) - 1 /\ i + 1 \in 1 .. Len(old.history) /\ i \in 1 .. Len(old.history)
        BY <1>3, <3>1
      <4> QED
        BY <1>1, <2>1, <4>1 DEF Extends, Chained
    <3>2. CASE i = Len(old.history)
      <4>1. Len(old.history) > 0 /\ i \in 1 .. Len(old.history) /\ i + 1 = Len(new.history)
        BY <1>3, <3>2
      <4> QED
        BY <1>1, <2>1, <3>2, <4>1 DEF Extends, Chained
    <3> QED
      BY <1>3, <2>2, <3>1, <3>2
  <2> QED
    BY <1>1, <2>2 DEF Extends, Chained
<1>5. \A r \in Records : Chained(corpus'[r])
  BY <1>1, <1>4 DEF ChainInv
<1>6. lineage # Torn => Behind(lineage, corpus')
  <2> SUFFICES ASSUME lineage # Torn, NEW i \in DOMAIN lineage
               PROVE  Begins(lineage[i].history, corpus'[lineage[i].record].history)
    BY DEF Behind
  <2>1. lineage \in Seq(EvidenceRow) /\ lineage[i] \in EvidenceRow
    BY TypeInvIs, LenProperties, ElementOfSeq
  <2>2. lineage[i].record \in Records /\ Len(lineage[i].history) \in Nat
    BY <2>1, LenProperties DEF EvidenceRow
  <2>3. Begins(lineage[i].history, corpus[lineage[i].record].history)
    BY DEF ChainInv, Behind
  <2>4. CASE lineage[i].record = r0
    <3>1. PICK h : h = lineage[i].history
      OBVIOUS
    <3>2. Len(h) \in Nat /\ Begins(h, old.history)
      BY <2>2, <2>3, <2>4, <3>1 DEF old
    <3>3. Begins(h, new.history)
      BY <1>3, <3>2 DEF Begins
    <3> QED
      BY <1>1, <2>4, <3>1, <3>3
  <2>5. CASE lineage[i].record # r0
    BY <1>1, <2>2, <2>3, <2>5
  <2> QED
    BY <2>4, <2>5
<1>7. job'[t].step = "lineage" /\ job'[t].record = r0 /\ job'[t].updated = new /\ job'[t].rows = job[t].rows
  <2>1. ~ At(t, "idle")
    BY <1>2 DEF At
  <2> QED
    BY <1>2, <2>1, GotoIs DEF r0, new
<1>8. JobChain(job'[t], corpus')
  <2>1. Behind(job[t].rows, After(corpus, job[t]))
    BY <1>2 DEF ChainInv, JobChain
  <2> QED
    BY <1>1, <1>7, <2>1 DEF JobChain
<1> QED
  BY <1>2, <1>5, <1>6, <1>8 DEF OneTerminal, ChainInv

\* Every step keeps the chains connected and the lineage behind.
LEMMA NextChain == OneTerminal /\ TypeInv /\ ChainInv /\ [Next]_vars => ChainInv'
<1> SUFFICES ASSUME OneTerminal, TypeInv, ChainInv, [Next]_vars PROVE ChainInv'
  OBVIOUS
<1>1. ASSUME UNCHANGED <<corpus, lineage, job>> PROVE ChainInv'
  BY <1>1 DEF ChainInv
\* Of one terminal, its job is all there is.
<1>2. ASSUME NEW t \in Terminals, UNCHANGED corpus, JobChain(job'[t], corpus),
             lineage' # Torn => Behind(lineage', corpus)
      PROVE  ChainInv'
  BY <1>2 DEF ChainInv, OneTerminal
<1>3. JobChain(Idle, corpus)
  BY DEF JobChain, Idle
<1>4. ASSUME NEW t \in Terminals, Return(t) PROVE job'[t] = Idle
  BY <1>4, TypeInvIs DEF Return
<1>5. ASSUME NEW r \in Records, NEW content \in Content, Prepare(r, content) PROVE ChainInv'
  BY <1>1, <1>5 DEF Prepare
<1>6. ASSUME NEW d \in decisions, Preview(d) PROVE ChainInv'
  BY <1>1, <1>6 DEF Preview
<1>7. ASSUME NEW t \in Terminals, NEW d \in decisions, Apply(t, d) PROVE ChainInv'
  <2>1. UNCHANGED <<corpus, lineage>>
    BY <1>7 DEF Apply
  <2> QED
    BY <1>2, <1>7, <2>1, ApplyChain DEF ChainInv
<1>8. ASSUME NEW t \in Terminals, Check(t) PROVE ChainInv'
  <2>1. UNCHANGED <<corpus, lineage>> /\ job[t].step = "check"
    BY <1>8 DEF Check, At
  <2>2. JobChain(job'[t], corpus)
    <3>1. CASE Goto(t, "corpus")
      <4>1. /\ job'[t].step = "corpus" /\ job'[t].record = job[t].record
            /\ job'[t].updated = job[t].updated /\ job'[t].rows = job[t].rows
        BY <2>1, <3>1, GotoIs DEF At
      <4> QED
        BY <2>1, <4>1 DEF ChainInv, JobChain, After
    <3>2. CASE Return(t)
      BY <1>3, <1>4, <3>2
    <3> QED
      BY <1>8, <3>1, <3>2 DEF Check
  <2> QED
    BY <1>2, <2>1, <2>2 DEF ChainInv
<1>9. ASSUME NEW t \in Terminals, WriteCorpus(t) PROVE ChainInv'
  BY <1>9, WriteCorpusChain
<1>10. ASSUME NEW t \in Terminals, WriteLineage(t) PROVE ChainInv'
  <2>1. job[t].step = "lineage" /\ corpus' = corpus /\ lineage' = job[t].rows /\ Goto(t, "receipt")
    BY <1>10 DEF WriteLineage, At
  <2>2. /\ job'[t].step = "receipt" /\ job'[t].record = job[t].record
        /\ job'[t].updated = job[t].updated /\ job'[t].rows = job[t].rows
    BY <2>1, GotoIs DEF At
  <2>3. corpus[job[t].record] = job[t].updated /\ Behind(job[t].rows, corpus)
    BY <2>1 DEF ChainInv, JobChain
  <2>4. JobChain(job'[t], corpus)
    BY <2>2, <2>3 DEF JobChain
  <2> QED
    BY <1>2, <2>1, <2>3, <2>4
<1>11. ASSUME NEW t \in Terminals, WriteReceipt(t) PROVE ChainInv'
  <2>1. UNCHANGED <<corpus, lineage>> /\ job'[t] = Idle
    BY <1>4, <1>11 DEF WriteReceipt
  <2> QED
    BY <1>2, <1>3, <2>1 DEF ChainInv
<1>12. ASSUME NEW t \in Terminals, Crash(t) PROVE ChainInv'
  <2>1. UNCHANGED corpus /\ job'[t] = Idle
    BY <1>4, <1>12 DEF Crash
  <2>2. lineage' # Torn => Behind(lineage', corpus)
    <3>1. CASE lineage' = lineage
      BY <3>1 DEF ChainInv
    <3>2. CASE /\ job[t].step = "lineage"
               /\ lineage' \in {SubSeq(job[t].rows, 1, n) : n \in 0 .. Len(job[t].rows)}
      <4>1. Behind(job[t].rows, corpus)
        BY <3>2 DEF ChainInv, JobChain
      <4>2. job[t].rows \in Seq(EvidenceRow) /\ OneRowEach(job[t].rows)
        BY TypeInvIs DEF JobOK, Job
      <4>3. /\ DOMAIN lineage' \subseteq DOMAIN job[t].rows
            /\ \A i \in DOMAIN lineage' : lineage'[i] = job[t].rows[i]
        BY <3>2, <4>2, CutIs
      <4> QED
        BY <4>1, <4>3 DEF Behind
    <3>3. CASE lineage' = Torn
      BY <3>3
    <3> QED
      BY <1>12, <3>1, <3>2, <3>3 DEF Crash, At
  <2> QED
    BY <1>2, <1>3, <2>1, <2>2
<1>13. CASE UNCHANGED vars
  BY <1>1, <1>13 DEF vars
<1> QED
  BY <1>5, <1>6, <1>7, <1>8, <1>9, <1>10, <1>11, <1>12, <1>13 DEF Next

(***************************************************************************)
(* The history of a record leads from item to item, without a gap, to the  *)
(* oracle it has now.                                                      *)
(***************************************************************************)
THEOREM HistoriesAreChained == OneTerminal => (Spec => []ChainConnected)
<1> SUFFICES ASSUME OneTerminal PROVE Spec => []ChainConnected
  OBVIOUS
<1>1. TypeInv /\ ChainInv /\ [Next]_vars => ChainInv'
  BY NextChain
<1>2. TypeInv /\ ChainInv => ChainConnected
  <2> SUFFICES ASSUME TypeInv, ChainInv, NEW r \in Records, corpus[r].history # << >>
               PROVE  LET h == corpus[r].history
                      IN  /\ \A i \in 1 .. Len(h) - 1 : h[i].new = h[i + 1].old
                          /\ Last(h).new = corpus[r].content.oracle
    BY DEF ChainConnected
  <2>1. corpus[r].history \in Seq(Item)
    BY TypeInvIs DEF CanonicalRecord
  <2>2. Len(corpus[r].history) > 0
    BY <2>1, EmptySeq
  <2> QED
    BY <2>2 DEF ChainInv, Chained, Last
<1> QED
  BY InitType, InitChain, NextType, <1>1, <1>2, PTL DEF Spec

(***************************************************************************)
(* The lineage never tells of a correction that is not in the corpus,      *)
(* wherever commands were killed.                                          *)
(***************************************************************************)
THEOREM LineageStaysBehind == OneTerminal => (Spec => []LineageIsPrefix)
<1> SUFFICES ASSUME OneTerminal PROVE Spec => []LineageIsPrefix
  OBVIOUS
<1>1. TypeInv /\ ChainInv /\ [Next]_vars => ChainInv'
  BY NextChain
<1>2. TypeInv /\ ChainInv => LineageIsPrefix
  <2> SUFFICES ASSUME TypeInv, ChainInv, lineage # Torn, NEW i \in DOMAIN lineage
               PROVE  IsPrefix(lineage[i].history, corpus[lineage[i].record].history)
    BY DEF LineageIsPrefix
  <2>1. lineage[i] \in EvidenceRow
    BY TypeInvIs, LenProperties, ElementOfSeq
  <2>2. lineage[i].history \in Seq(Item) /\ lineage[i].record \in Records
    BY <2>1 DEF EvidenceRow
  <2>3. corpus[lineage[i].record].history \in Seq(Item)
    BY <2>2, TypeInvIs DEF CanonicalRecord
  <2>4. Begins(lineage[i].history, corpus[lineage[i].record].history)
    BY DEF ChainInv, Behind
  <2> QED
    BY <2>2, <2>3, <2>4, BeginsIsPrefix
<1> QED
  BY InitType, InitChain, NextType, <1>1, <1>2, PTL DEF Spec

(***************************************************************************)
(* A record changes only together with its history, which grows by one     *)
(* item at the end.                                                        *)
(***************************************************************************)
THEOREM CorrectionsAppend == OneTerminal => (Spec => HistoryAppends)
<1> SUFFICES ASSUME OneTerminal PROVE Spec => HistoryAppends
  OBVIOUS
<1>1. TypeInv /\ ChainInv /\ [Next]_vars => ChainInv'
  BY NextChain
<1>2. ASSUME TypeInv, ChainInv, [Next]_vars
      PROVE  [\A r \in Records :
                corpus'[r] # corpus[r] =>
                  /\ Len(corpus'[r].history) = Len(corpus[r].history) + 1
                  /\ Front(corpus'[r].history) = corpus[r].history]_vars
  <2>1. CASE corpus' = corpus
    BY <2>1
  <2>2. CASE \E t \in Terminals : WriteCorpus(t)
    <3>1. PICK t \in Terminals : WriteCorpus(t)
      BY <2>2
    <3>2. /\ corpus'[job[t].record] = job[t].updated
          /\ \A r \in Records \ {job[t].record} : corpus'[r] = corpus[r]
          /\ Extends(job[t].updated, corpus[job[t].record])
          /\ job[t].updated \in CanonicalRecord /\ corpus[job[t].record] \in CanonicalRecord
      BY <1>2, <3>1, WriteExtends
    <3>3. /\ job[t].updated.history \in Seq(Item) /\ corpus[job[t].record].history \in Seq(Item)
          /\ Len(job[t].updated.history) = Len(corpus[job[t].record].history) + 1
          /\ \A i \in 1 .. Len(corpus[job[t].record].history) :
               job[t].updated.history[i] = corpus[job[t].record].history[i]
      BY <3>2 DEF CanonicalRecord, Extends
    <3>4. Front(job[t].updated.history) = corpus[job[t].record].history
      BY <3>3, FrontIs
    <3> QED
      BY <3>2, <3>3, <3>4
  <2> QED
    BY <1>2, <2>1, <2>2
       DEF Next, vars, Prepare, Preview, Apply, Check, WriteLineage, WriteReceipt, Crash
<1> QED
  BY InitType, InitChain, NextType, <1>1, <1>2, PTL DEF Spec, HistoryAppends

-----------------------------------------------------------------------------
(***************************************************************************)
(* Revisions.                                                              *)
(***************************************************************************)
LEMMA InitRevision == Init => RevisionInv
<1> SUFFICES ASSUME Init PROVE RevisionInv
  OBVIOUS
<1>1. Len(<< >>) = 0 /\ DOMAIN << >> = {} /\ << >> \in Seq(EvidenceRow)
  BY EmptySeq
<1>2. \A r \in Records : corpus[r].history = << >>
  BY DEF Init
<1>3. \A r \in Records : Counted(corpus[r].history)
  BY <1>1, <1>2 DEF Counted
<1>4. Current(lineage, corpus)
  <2>1. CASE lineage = << >>
    BY <1>1, <1>2, <2>1 DEF Current
  <2>2. CASE lineage = SetToSeq({Legacy(r) : r \in Records})
    <3>1. \A i \in DOMAIN lineage : lineage[i] = Legacy(lineage[i].record) /\ lineage[i].record \in Records
      BY <2>2, LegacyIs
    <3>2. \A i \in DOMAIN lineage : lineage[i].revision = 0 /\ lineage[i].record \in Records
      BY <3>1 DEF Legacy
    <3> QED
      BY <1>1, <1>2, <3>2 DEF Current
  <2> QED
    BY <2>1, <2>2 DEF Init
<1>5. \A t \in Terminals : job[t].step = "idle"
  BY DEF Init, Idle
<1> QED
  BY <1>3, <1>4, <1>5 DEF RevisionInv, JobCurrent

\* The rows a correction writes are as new as the record it writes.
LEMMA EvidenceCurrent ==
    ASSUME TypeInv, lineage # Torn, Current(lineage, corpus)
    PROVE  Current(Evidence, corpus)
<1>1. CASE lineage = << >>
  <2>1. \A r \in Records : Len(corpus[r].history) = 0
    <3>1. \A r \in Records : Len(corpus[r].history) \in Nat
      BY TypeInvIs, LenProperties DEF CanonicalRecord
    <3>2. \A r \in Records : ~ (Len(corpus[r].history) > 0)
      BY <1>1 DEF Current
    <3> QED
      BY <3>1, <3>2
  <2>2. \A i \in DOMAIN Evidence : Evidence[i] = Legacy(Evidence[i].record) /\ Evidence[i].record \in Records
    BY <1>1, LegacyIs DEF Evidence
  <2>3. \A i \in DOMAIN Evidence : Evidence[i].revision = 0 /\ Evidence[i].record \in Records
    BY <2>2 DEF Legacy
  <2> QED
    BY <2>1, <2>3 DEF Current
<1>2. CASE lineage # << >>
  BY <1>2 DEF Evidence
<1> QED
  BY <1>1, <1>2

\* A correction computes the next revision.
LEMMA ApplyRevision ==
    ASSUME TypeInv, NEW t \in Terminals, NEW d \in decisions, Apply(t, d),
           Current(lineage, corpus), \A r \in Records : Counted(corpus[r].history)
    PROVE  JobCurrent(job'[t], corpus)
<1>1. d \in Decision /\ lineage # Torn /\ d.record \in Records
  BY TypeInvIs DEF Apply, Applicable, Decision
<1> DEFINE new == Corrected(d)
           old == corpus[d.record]
           rows == WithEntry(Evidence, d)
           entry == [record |-> d.record,
                     revision |-> NextItem(d).revision,
                     history |-> Corrected(d).history]
           records == [corpus EXCEPT ![d.record] = new]
<1>2. job'[t] = [step |-> "check", record |-> d.record, updated |-> new, rows |-> rows]
  BY TypeInvIs DEF Apply
<1>3. /\ new \in CanonicalRecord /\ old \in CanonicalRecord
      /\ Len(new.history) = Len(old.history) + 1
      /\ \A i \in 1 .. Len(old.history) : new.history[i] = old.history[i]
      /\ new.history[Len(new.history)] = NextItem(d)
  BY <1>1, CorrectedIs
<1>4. Len(old.history) \in Nat
  BY <1>3, LenProperties DEF CanonicalRecord
<1>5. NextItem(d).revision = Len(new.history)
  <2>1. lineage \in Seq(EvidenceRow) /\ OneRowEach(lineage)
    BY <1>1, TypeInvIs
  <2>2. PreviousRevision(d.record, lineage) = Len(old.history)
    <3>1. CASE \E i \in DOMAIN lineage : lineage[i].record = d.record
      BY <2>1, <3>1, PreviousRevisionIs DEF Current
    <3>2. CASE \A i \in DOMAIN lineage : lineage[i].record # d.record
      <4>1. ~ (Len(old.history) > 0)
        BY <1>1, <3>2 DEF Current
      <4>2. PreviousRevision(d.record, lineage) = 0
        BY <2>1, <3>2, PreviousRevisionIs
      <4> QED
        BY <1>4, <4>1, <4>2
    <3> QED
      BY <3>1, <3>2
  <2> QED
    BY <1>1, <1>3, <2>2, ItemIs
<1>6. Counted(new.history)
  <2>1. Counted(old.history)
    BY <1>1
  <2> SUFFICES ASSUME NEW i \in 1 .. Len(new.history) PROVE new.history[i].revision = i
    BY DEF Counted
  <2>2. CASE i \in 1 .. Len(old.history)
    BY <1>3, <2>1, <2>2 DEF Counted
  <2>3. CASE i = Len(new.history)
    BY <1>3, <1>5, <2>3
  <2> HIDE DEF new, old
  <2> QED
    BY <1>3, <1>4, <2>2, <2>3
<1>7. records[d.record] = new /\ \A r \in Records \ {d.record} : records[r] = corpus[r]
  BY <1>1, TypeInvIs
<1>8. /\ rows \in Seq(EvidenceRow)
      /\ \A k \in DOMAIN rows :
           \/ rows[k] = entry
           \/ /\ rows[k].record # d.record
              /\ \E i \in DOMAIN Evidence : rows[k] = Evidence[i]
      /\ \E k \in DOMAIN rows : rows[k] = entry
      /\ \A i \in DOMAIN Evidence :
           Evidence[i].record # d.record => \E k \in DOMAIN rows : rows[k] = Evidence[i]
  BY <1>1, EvidenceIs, WithEntryIs
<1>9. Current(Evidence, corpus)
  BY <1>1, EvidenceCurrent
<1>10. entry.record = d.record /\ entry.revision = Len(new.history)
  BY <1>5
<1> HIDE DEF new, old, rows, entry, records
<1>11. ASSUME NEW k \in DOMAIN rows
       PROVE  rows[k].revision = Len(records[rows[k].record].history)
  <2>1. rows[k] \in EvidenceRow
    BY <1>8, LenProperties, ElementOfSeq
  <2>2. rows[k].record \in Records
    BY <2>1 DEF EvidenceRow
  <2>3. CASE rows[k] = entry
    BY <1>7, <1>10, <2>3
  <2>4. CASE rows[k].record # d.record /\ \E i \in DOMAIN Evidence : rows[k] = Evidence[i]
    <3>1. rows[k].revision = Len(corpus[rows[k].record].history)
      BY <1>9, <2>4 DEF Current
    <3> QED
      BY <1>7, <2>2, <2>4, <3>1
  <2> QED
    BY <1>8, <2>3, <2>4
<1>12. ASSUME NEW r \in Records, Len(records[r].history) > 0
       PROVE  \E k \in DOMAIN rows : rows[k].record = r
  <2>1. CASE r = d.record
    BY <1>8, <1>10, <2>1
  <2>2. CASE r # d.record
    <3>1. PICK i \in DOMAIN Evidence : Evidence[i].record = r
      BY <1>7, <1>9, <1>12, <2>2 DEF Current
    <3>2. PICK k \in DOMAIN rows : rows[k] = Evidence[i]
      BY <1>8, <2>2, <3>1
    <3> QED
      BY <3>1, <3>2
  <2> QED
    BY <2>1, <2>2
<1>13. Current(rows, records)
  BY <1>11, <1>12 DEF Current
<1> QED
  BY <1>2, <1>6, <1>13 DEF JobCurrent, After, records

\* Every step keeps the revisions counted.
LEMMA NextRevision ==
    OneTerminal /\ TypeInv /\ ChainInv /\ RevisionInv /\ [Next]_vars => RevisionInv'
<1> SUFFICES ASSUME OneTerminal, TypeInv, ChainInv, RevisionInv, [Next]_vars, crashes' = 0
             PROVE  RevisionInv'
  BY DEF RevisionInv
<1>1. ASSUME UNCHANGED <<corpus, lineage, job, crashes>> PROVE RevisionInv'
  BY <1>1 DEF RevisionInv
<1>2. ASSUME NEW t \in Terminals, UNCHANGED <<corpus, crashes>>, JobCurrent(job'[t], corpus),
             job'[t].step # "lineage" /\ Current(lineage', corpus)
      PROVE  RevisionInv'
  BY <1>2 DEF RevisionInv, OneTerminal
<1>3. JobCurrent(Idle, corpus) /\ Idle.step # "lineage"
  BY DEF JobCurrent, Idle
<1>4. ASSUME NEW t \in Terminals, Return(t) PROVE job'[t] = Idle
  BY <1>4, TypeInvIs DEF Return
<1>5. ASSUME NEW t \in Terminals, crashes = 0, job[t].step # "lineage" PROVE Current(lineage, corpus)
  BY <1>5 DEF RevisionInv, OneTerminal
<1>6. ASSUME NEW r \in Records, NEW content \in Content, Prepare(r, content) PROVE RevisionInv'
  BY <1>1, <1>6 DEF Prepare
<1>7. ASSUME NEW d \in decisions, Preview(d) PROVE RevisionInv'
  BY <1>1, <1>7 DEF Preview
<1>8. ASSUME NEW t \in Terminals, NEW d \in decisions, Apply(t, d) PROVE RevisionInv'
  <2>1. UNCHANGED <<corpus, lineage, crashes>> /\ crashes = 0 /\ job[t].step = "idle"
    BY <1>8 DEF Apply, At
  <2>2. Current(lineage, corpus) /\ \A r \in Records : Counted(corpus[r].history)
    BY <1>5, <2>1 DEF RevisionInv
  <2>3. JobCurrent(job'[t], corpus)
    BY <1>8, <2>2, ApplyRevision
  <2>4. job'[t].step = "check"
    BY <1>8, TypeInvIs DEF Apply
  <2> QED
    BY <1>2, <2>1, <2>2, <2>3, <2>4
<1>9. ASSUME NEW t \in Terminals, Check(t) PROVE RevisionInv'
  <2>1. UNCHANGED <<corpus, lineage, crashes>> /\ crashes = 0 /\ job[t].step = "check"
    BY <1>9 DEF Check, At
  <2>2. JobCurrent(job'[t], corpus) /\ job'[t].step # "lineage"
    <3>1. CASE Goto(t, "corpus")
      <4>1. /\ job'[t].step = "corpus" /\ job'[t].record = job[t].record
            /\ job'[t].updated = job[t].updated /\ job'[t].rows = job[t].rows
        BY <2>1, <3>1, GotoIs DEF At
      <4> QED
        BY <2>1, <4>1 DEF RevisionInv, JobCurrent, After
    <3>2. CASE Return(t)
      BY <1>3, <1>4, <3>2
    <3> QED
      BY <1>9, <3>1, <3>2 DEF Check
  <2> QED
    BY <1>2, <1>5, <2>1, <2>2
<1>10. ASSUME NEW t \in Terminals, WriteCorpus(t) PROVE RevisionInv'
  <2>1. UNCHANGED <<lineage, crashes>> /\ crashes = 0 /\ job[t].step = "corpus" /\ Goto(t, "lineage")
    BY <1>10 DEF WriteCorpus, At
  <2>2. /\ corpus' = After(corpus, job[t])
        /\ corpus'[job[t].record] = job[t].updated
        /\ \A r \in Records \ {job[t].record} : corpus'[r] = corpus[r]
        /\ job[t].record \in Records
    BY <1>10, WriteExtends
  <2>3. Counted(job[t].updated.history) /\ Current(job[t].rows, corpus')
    BY <2>1, <2>2 DEF RevisionInv, JobCurrent
  <2>4. /\ job'[t].step = "lineage" /\ job'[t].record = job[t].record
        /\ job'[t].updated = job[t].updated /\ job'[t].rows = job[t].rows
    BY <2>1, GotoIs DEF At
  <2>5. After(corpus', job'[t]) = corpus'
    BY <2>2, <2>4, TypeInvIs DEF After
  <2>6. JobCurrent(job'[t], corpus')
    BY <2>3, <2>4, <2>5 DEF JobCurrent
  <2>7. \A r \in Records : Counted(corpus'[r].history)
    BY <2>1, <2>2, <2>3 DEF RevisionInv
  <2> QED
    BY <2>4, <2>6, <2>7 DEF RevisionInv, OneTerminal
<1>11. ASSUME NEW t \in Terminals, WriteLineage(t) PROVE RevisionInv'
  <2>1. /\ UNCHANGED <<corpus, crashes>> /\ crashes = 0 /\ job[t].step = "lineage"
        /\ lineage' = job[t].rows /\ Goto(t, "receipt")
    BY <1>11 DEF WriteLineage, At
  <2>2. /\ job'[t].step = "receipt" /\ job'[t].record = job[t].record
        /\ job'[t].updated = job[t].updated /\ job'[t].rows = job[t].rows
    BY <2>1, GotoIs DEF At
  <2>3. corpus[job[t].record] = job[t].updated /\ job[t].record \in Records
    BY <2>1, TypeInvIs DEF ChainInv, JobChain, JobOK
  <2>4. After(corpus, job[t]) = corpus /\ After(corpus, job'[t]) = corpus
    BY <2>2, <2>3, TypeInvIs DEF After
  <2>5. Counted(job[t].updated.history) /\ Current(job[t].rows, corpus)
    BY <2>1, <2>4 DEF RevisionInv, JobCurrent
  <2>6. JobCurrent(job'[t], corpus)
    BY <2>2, <2>4, <2>5 DEF JobCurrent
  <2> QED
    BY <1>2, <2>1, <2>2, <2>5, <2>6
<1>12. ASSUME NEW t \in Terminals, WriteReceipt(t) PROVE RevisionInv'
  <2>1. /\ UNCHANGED <<corpus, lineage, crashes>> /\ crashes = 0 /\ job[t].step = "receipt"
        /\ job'[t] = Idle
    BY <1>4, <1>12 DEF WriteReceipt, At
  <2> QED
    BY <1>2, <1>3, <1>5, <2>1
<1>13. ASSUME NEW t \in Terminals, Crash(t) PROVE FALSE
  <2>1. crashes \in Nat /\ crashes' = crashes + 1
    BY <1>13, TypeInvIs, CorrectionBounds DEF Crash
  <2> QED
    BY <2>1
<1>14. CASE UNCHANGED vars
  BY <1>1, <1>14 DEF vars
<1> QED
  BY <1>6, <1>7, <1>8, <1>9, <1>10, <1>11, <1>12, <1>13, <1>14 DEF Next

(***************************************************************************)
(* While no command is killed, the revisions of every history are 1, 2,    *)
(* 3, ..., though they are counted from the lineage file.                  *)
(***************************************************************************)
THEOREM RevisionsAreCounted == OneTerminal => (Spec => []RevisionsIncrease)
<1> SUFFICES ASSUME OneTerminal PROVE Spec => []RevisionsIncrease
  OBVIOUS
<1>1. TypeInv /\ ChainInv /\ [Next]_vars => ChainInv'
  BY NextChain
<1>2. TypeInv /\ ChainInv /\ RevisionInv /\ [Next]_vars => RevisionInv'
  BY NextRevision
<1>3. TypeInv /\ RevisionInv => RevisionsIncrease
  <2> SUFFICES ASSUME TypeInv, RevisionInv, crashes = 0,
                      NEW r \in Records, NEW i \in DOMAIN corpus[r].history
               PROVE  corpus[r].history[i].revision = i
    BY DEF RevisionsIncrease
  <2>1. i \in 1 .. Len(corpus[r].history)
    BY TypeInvIs, LenProperties DEF CanonicalRecord
  <2> QED
    BY <2>1 DEF RevisionInv, Counted
<1> QED
  BY InitType, InitChain, InitRevision, NextType, <1>1, <1>2, <1>3, PTL DEF Spec
=============================================================================
