--------------------------- MODULE Datasets_proofs ---------------------------
(***************************************************************************)
(* Proofs about Datasets, for any canonical records and candidates, any    *)
(* families, seeds and ratios, and any number of commands, killed splits,  *)
(* commits and checkouts.                                                  *)
(***************************************************************************)
EXTENDS Datasets, FiniteSetTheorems, TLAPS

Registry == [form : {"missing", "whole", "torn"}, seed : Seeds \union {None},
             families : [Families -> ReleaseSplits \union {None}]]

(***************************************************************************)
(* The registry only grows, but where it is cut short, which stops every   *)
(* command until the committed one is checked out; and what was released   *)
(* is frozen in the committed one.                                         *)
(***************************************************************************)
RegistryInv ==
    /\ registry \in Registry /\ committed.registry \in Registry
    /\ committed.registry.form # "torn"
    /\ registry.form = "missing" => \A f \in Families : registry.families[f] = None
    /\ committed.registry.form = "missing" =>
         \A f \in Families : committed.registry.families[f] = None
    /\ committed.registry.form = "whole" => registry.form # "missing"
    /\ registry.form = "whole" =>
         \A f \in Families : committed.registry.families[f] # None =>
           registry.families[f] = committed.registry.families[f]
    /\ \A f \in Families : released[f] # None =>
         committed.registry.families[f] = released[f]

(***************************************************************************)
(* The records of the files and of what is made of them.                   *)
(***************************************************************************)
Shaped(r) ==
    r = [id |-> r.id, lang |-> r.lang, text |-> r.text, family |-> r.family,
         split |-> r.split, by |-> r.by, status |-> r.status]

Known(records) == \A r \in records : Shaped(r) /\ r.family \in Families

FileInv ==
    /\ Known(RecordsOf(data)) /\ Known(RecordsOf(committed.data))
    /\ Known(staged) /\ Known(applied)
    /\ \A r \in staged : r.split = "candidate"

(***************************************************************************)
(* Until re-reviewed records are put in by hand, every record is in the    *)
(* split its family is frozen in: also where a split was killed, since the *)
(* registry is written first and keeps each family where its records are,  *)
(* and also those of an older commit, of which one file may be checked out *)
(* beside the new registry.  Before there is a registry the files have the *)
(* committed families where the commit has them.                           *)
(***************************************************************************)
Standing(records, reg) ==
    /\ \A r \in records : r.split \in ReleaseSplits
    /\ reg.form = "missing" => NoLeakage(records)
    /\ reg.form = "whole" => \A r \in records : reg.families[r.family] = r.split

CommittedStands ==
    /\ registry.form = "whole" =>
         \A r \in RecordsOf(committed.data) : registry.families[r.family] = r.split
    /\ registry.form = "missing" =>
         \A r \in RecordsOf(committed.data) :
            \E q \in RecordsOf(data) : q.family = r.family /\ q.split = r.split

StandInv ==
    /\ broken # {} => registry.form = "whole"
    /\ applied = {} => /\ Standing(RecordsOf(data), registry)
                       /\ Standing(RecordsOf(committed.data), committed.registry)
                       /\ CommittedStands

(***************************************************************************)
(* The decisions are about the rows' text, and there are none before the   *)
(* rows of both slots pass, after which nobody annotates them any more.    *)
(***************************************************************************)
RowsOK(table) ==
    \A k \in DOMAIN table :
        /\ table[k] = [text |-> table[k].text, oracle |-> table[k].oracle, by |-> table[k].by]
        /\ table[k].by \in Reviewers \union {Nobody}

ReviewInv ==
    /\ rows = [s \in Slots |-> rows[s]]
    /\ \A s \in Slots : RowsOK(rows[s])
    /\ DOMAIN decided # {} => \A s \in Slots : RowsReady(rows[s])
    /\ \A k \in DOMAIN decided, s \in Slots :
         k \in DOMAIN rows[s] /\ rows[s][k].text = decided[k].text
    /\ applied # {} => \A s \in Slots : RowsReady(rows[s])
    /\ AppliedAsAnnotated

Inv == RegistryInv /\ FileInv /\ StandInv /\ ReviewInv

-----------------------------------------------------------------------------
(***************************************************************************)
(* Records and registries.                                                 *)
(***************************************************************************)
\* The three splits by name; "candidate" is none of them.
LEMMA SplitsAre == ReleaseSplits = {"train", "dev", "test"}
BY DEF ReleaseSplits, Splits, ToSet

\* A record keeps its shape when one of its fields is replaced.
LEMMA PlacedRecord ==
    ASSUME NEW r, Shaped(r), NEW s
    PROVE  LET q == [r EXCEPT !.split = s]
           IN  Shaped(q) /\ q.split = s /\ q.family = r.family
BY DEF Shaped

\* Respelling the text leaves family and split.
LEMMA RespelledRecord ==
    ASSUME NEW r, Shaped(r), NEW spelling
    PROVE  LET q == [r EXCEPT !.text.spelling = spelling]
           IN  Shaped(q) /\ q.split = r.split /\ q.family = r.family
BY DEF Shaped

\* An applied record names the reviewers of its decision and keeps the rest.
LEMMA AppliedRecord ==
    ASSUME NEW r, Shaped(r), NEW decisions,
           NEW q, q = [r EXCEPT !.status = "gold", !.by = decisions[OracleId(r)].reviewers]
    PROVE  /\ Shaped(q) /\ q.by = decisions[OracleId(r)].reviewers /\ q.text = r.text
           /\ q.family = r.family /\ OracleId(q) = OracleId(r)
<1> DEFINE by == decisions[OracleId(r)].reviewers
<1>1. q = [id |-> r.id, lang |-> r.lang, text |-> r.text, family |-> r.family,
           split |-> r.split, by |-> by, status |-> "gold"]
  <2> DEFINE one == [r EXCEPT !.status = "gold"]
  <2>1. one = [id |-> r.id, lang |-> r.lang, text |-> r.text, family |-> r.family,
               split |-> r.split, by |-> r.by, status |-> "gold"]
    BY DEF Shaped
  <2>2. q = [one EXCEPT !.by = by]
    BY DEF Shaped
  <2> HIDE DEF one
  <2> QED
    BY <2>1, <2>2
<1>2. /\ q.id = r.id /\ q.lang = r.lang /\ q.text = r.text /\ q.family = r.family
      /\ q.split = r.split /\ q.by = by /\ q.status = "gold"
  BY <1>1
<1>3. Shaped(q)
  BY <1>1, <1>2 DEF Shaped
<1>4. OracleId(q) = OracleId(r)
  BY <1>2 DEF OracleId
<1> QED
  BY <1>2, <1>3, <1>4

\* A promoted record has the family of its decision and no split yet.
LEMMA PromotedRecord ==
    ASSUME NEW c \in Candidates, NEW d \in Decision
    PROVE  LET q == RecordOf(c, d)
           IN  Shaped(q) /\ q.family \in Families /\ q.split = "candidate"
<1> DEFINE q == RecordOf(c, d)
<1>1. Shaped(c)
  BY CanonicalAssumption DEF Shaped
<1>2. q = [id |-> d.id, lang |-> c.lang, text |-> c.text, family |-> d.family,
           split |-> "candidate", by |-> ToSet(d.reviewers), status |-> "gold"]
  <2> DEFINE one == [c EXCEPT !.id = d.id]
             two == [one EXCEPT !.family = d.family]
             three == [two EXCEPT !.status = "gold"]
             four == [three EXCEPT !.split = "candidate"]
  <2>1. q = [four EXCEPT !.by = ToSet(d.reviewers)]
    BY <1>1 DEF RecordOf, Shaped
  <2>2. one = [id |-> d.id, lang |-> c.lang, text |-> c.text, family |-> c.family,
               split |-> c.split, by |-> c.by, status |-> c.status]
    BY <1>1 DEF Shaped
  <2> HIDE DEF one, q
  <2>3. two = [id |-> d.id, lang |-> c.lang, text |-> c.text, family |-> d.family,
               split |-> c.split, by |-> c.by, status |-> c.status]
    BY <2>2
  <2> HIDE DEF two
  <2>4. three = [id |-> d.id, lang |-> c.lang, text |-> c.text, family |-> d.family,
                 split |-> c.split, by |-> c.by, status |-> "gold"]
    BY <2>3
  <2> HIDE DEF three
  <2>5. four = [id |-> d.id, lang |-> c.lang, text |-> c.text, family |-> d.family,
                split |-> "candidate", by |-> c.by, status |-> "gold"]
    BY <2>4
  <2> HIDE DEF four
  <2> QED
    BY <2>1, <2>5
<1> HIDE DEF q
<1>3. /\ q.id = d.id /\ q.lang = c.lang /\ q.text = c.text /\ q.family = d.family
      /\ q.split = "candidate" /\ q.by = ToSet(d.reviewers) /\ q.status = "gold"
  BY <1>2
<1>4. Shaped(q)
  BY <1>2, <1>3 DEF Shaped
<1>5. d.family \in Families
  BY DEF Decision
<1> QED
  BY <1>3, <1>4, <1>5 DEF q

\* A missing registry and one cut short are registries too.
LEMMA MissingIs == Missing \in Registry /\ Torn \in Registry /\ Torn.form = "torn"
BY DEF Missing, Torn, Registry

\* What is split: records of the files, and promoted ones.
LEMMA AdditionsAre ==
    ASSUME FileInv, NEW others \in Additions
    PROVE  Known(others) /\ \A r \in others : r.split = "candidate"
BY DEF FileInv, Additions, Known

\* A registry resolved for records keeps the families that are in it, and
\* puts those of the records in a split, one the records name if they name any.
Grown(new, reg, records) ==
    /\ new \in Registry /\ new.form = "whole"
    /\ \A f \in Families : reg.families[f] # None => new.families[f] = reg.families[f]
    /\ \A r \in records : new.families[r.family] \in ReleaseSplits
    /\ \A r \in records :
         reg.families[r.family] = None /\ SplitsAsserted(records, r.family) # {} =>
           new.families[r.family] \in SplitsAsserted(records, r.family)

\* A resolved registry has a split for every family that has records, and
\* keeps those it had.
LEMMA ResolvedIs ==
    ASSUME NEW reg \in Registry, NEW records, Known(records),
           NEW seed \in Seeds, NEW ratios \in Ratios
    PROVE  Grown(Resolved(reg, records, seed, ratios), reg, records)
<1> DEFINE new == Resolved(reg, records, seed, ratios)
           split(f) == IF reg.families[f] # None \/ f \notin {r.family : r \in records} THEN reg.families[f]
                       ELSE IF SplitsAsserted(records, f) # {} THEN CHOOSE s \in SplitsAsserted(records, f) : TRUE
                       ELSE HashSplit[seed, ratios, f]
<1>1. new = [form |-> "whole", seed |-> seed, families |-> [f \in Families |-> split(f)]]
  BY DEF Resolved
<1>2. ASSUME NEW f \in Families
      PROVE  /\ HashSplit[seed, ratios, f] \in ReleaseSplits
             /\ SplitsAsserted(records, f) # {} =>
                  (CHOOSE s \in SplitsAsserted(records, f) : TRUE) \in SplitsAsserted(records, f)
             /\ SplitsAsserted(records, f) \subseteq ReleaseSplits
             /\ reg.families[f] \in ReleaseSplits \union {None}
  BY SplitAssumption DEF SplitsAsserted, Registry
<1>3. ASSUME NEW f \in Families
      PROVE  /\ split(f) \in ReleaseSplits \union {None}
             /\ reg.families[f] # None => split(f) = reg.families[f]
             /\ f \in {r.family : r \in records} => split(f) \in ReleaseSplits
             /\ f \in {r.family : r \in records} /\ reg.families[f] = None
                  /\ SplitsAsserted(records, f) # {} => split(f) \in SplitsAsserted(records, f)
  BY <1>2
<1> HIDE DEF split
<1>4. new \in Registry /\ new.form = "whole" /\ \A f \in Families : new.families[f] = split(f)
  BY <1>1, <1>3 DEF Registry
<1>5. \A r \in records : r.family \in Families /\ r.family \in {q.family : q \in records}
  BY DEF Known
<1> HIDE DEF new
<1>6. Grown(new, reg, records)
  BY <1>3, <1>4, <1>5 DEF Grown
<1> QED
  BY <1>6 DEF new

\* Records that stand keep their places in a registry resolved for them.
LEMMA ResolvedStands ==
    ASSUME NEW reg \in Registry, NEW old, Known(old), Standing(old, reg),
           NEW others, Known(others), \A r \in others : r.split = "candidate",
           reg.form # "torn", reg.form = "missing" => \A f \in Families : reg.families[f] = None,
           NEW records, records = old \union others, NEW seed \in Seeds, NEW ratios \in Ratios
    PROVE  \A r \in old : Resolved(reg, records, seed, ratios).families[r.family] = r.split
<1>1. PICK new : new = Resolved(reg, records, seed, ratios)
  OBVIOUS
<1>2. Known(records)
  BY DEF Known
<1>3. /\ \A f \in Families : reg.families[f] # None => new.families[f] = reg.families[f]
      /\ \A r \in records :
           reg.families[r.family] = None /\ SplitsAsserted(records, r.family) # {} =>
             new.families[r.family] \in SplitsAsserted(records, r.family)
  <2>1. Grown(new, reg, records)
    BY <1>1, <1>2, ResolvedIs
  <2> QED
    BY <2>1 DEF Grown
<1>4. SUFFICES ASSUME NEW r \in old PROVE new.families[r.family] = r.split
  BY <1>1
<1>5. r.family \in Families /\ r.split \in ReleaseSplits
  BY DEF Known, Standing
<1>6. CASE reg.form = "whole"
  <2>1. reg.families[r.family] = r.split
    BY <1>6 DEF Standing
  <2> QED
    BY <1>3, <1>5, <2>1, SplitAssumption
<1>7. CASE reg.form = "missing"
  <2>1. reg.families[r.family] = None
    BY <1>5, <1>7
  <2>2. r.split \in SplitsAsserted(records, r.family)
    BY <1>5 DEF SplitsAsserted
  <2>3. ASSUME NEW s \in SplitsAsserted(records, r.family) PROVE s = r.split
    <3>1. PICK q \in records : q.family = r.family /\ q.split = s /\ s \in ReleaseSplits
      BY DEF SplitsAsserted
    <3>2. q \in old
      BY <3>1, SplitsAre
    <3> QED
      BY <1>7, <3>1, <3>2 DEF Standing, NoLeakage
  <2> QED
    BY <1>3, <2>1, <2>2, <2>3
<1> QED
  BY <1>6, <1>7 DEF Registry

\* Placed records have the split of the registry.
LEMMA PlacedIs ==
    ASSUME NEW records, Known(records), NEW reg
    PROVE  \A s \in ReleaseSplits : \A q \in Placed(records, reg)[s] :
             Shaped(q) /\ q.family \in Families /\ q.split = s /\ reg.families[q.family] = s
<1> SUFFICES ASSUME NEW s \in ReleaseSplits, NEW q \in Placed(records, reg)[s]
             PROVE  Shaped(q) /\ q.family \in Families /\ q.split = s /\ reg.families[q.family] = s
  OBVIOUS
<1>1. PICK r \in records : reg.families[r.family] = s /\ q = [r EXCEPT !.split = s]
  BY DEF Placed
<1>2. Shaped(r) /\ r.family \in Families
  BY DEF Known
<1> QED
  BY <1>1, <1>2, PlacedRecord

-----------------------------------------------------------------------------
(***************************************************************************)
(* Splits, and splits that are killed.                                     *)
(***************************************************************************)
\* A record of the files is in one of them.
LEMMA InFiles ==
    ASSUME NEW files, NEW r
    PROVE  r \in RecordsOf(files) <=> \E s \in ReleaseSplits : r \in files[s]
BY DEF RecordsOf

\* What a split writes to the registry keeps what was released.
LEMMA GrownRegistry ==
    ASSUME RegistryInv, FileInv, NEW seed \in Seeds, NEW ratios \in Ratios, NEW others \in Additions,
           Resolvable(registry, RecordsOf(data) \union others, seed),
           registry' = Resolved(registry, RecordsOf(data) \union others, seed, ratios),
           UNCHANGED <<committed, released>>
    PROVE  RegistryInv'
<1>1. Known(RecordsOf(data) \union others)
  BY AdditionsAre DEF FileInv, Known
<1>2. registry.form # "torn" /\ registry \in Registry
  BY DEF Resolvable, RegistryInv
<1>3. /\ registry' \in Registry /\ registry'.form = "whole"
      /\ \A f \in Families : registry.families[f] # None => registry'.families[f] = registry.families[f]
  <2>1. Grown(registry', registry, RecordsOf(data) \union others)
    BY <1>1, <1>2, ResolvedIs
  <2> QED
    BY <2>1 DEF Grown
<1>4. ASSUME NEW f \in Families, committed.registry.families[f] # None
      PROVE  registry'.families[f] = committed.registry.families[f]
  <2>1. committed.registry.form = "whole"
    BY <1>4 DEF RegistryInv, Registry
  <2>2. registry.form = "whole"
    BY <1>2, <2>1 DEF RegistryInv, Registry
  <2> QED
    BY <1>3, <1>4, <2>2 DEF RegistryInv
<1> QED
  BY <1>3, <1>4 DEF RegistryInv

\* What a split is given: known records, of which those of the files and the
\* committed ones stand in the registry it resolves.
LEMMA SplitsWhat ==
    ASSUME Inv, NEW seed \in Seeds, NEW ratios \in Ratios, NEW others \in Additions,
           NEW records, records = RecordsOf(data) \union others, Resolvable(registry, records, seed)
    PROVE  /\ Known(records) /\ registry \in Registry /\ registry.form # "torn"
           /\ applied = {} => \A r \in RecordsOf(data) \union RecordsOf(committed.data) :
                Resolved(registry, records, seed, ratios).families[r.family] = r.split
<1>1. Known(RecordsOf(data)) /\ Known(others) /\ \A r \in others : r.split = "candidate"
  BY AdditionsAre DEF Inv, FileInv
<1>2. Known(records)
  BY <1>1 DEF Known
<1>3. /\ registry \in Registry /\ registry.form # "torn"
      /\ registry.form = "missing" => \A f \in Families : registry.families[f] = None
  BY DEF Inv, RegistryInv, Resolvable
<1>4. applied = {} => Standing(RecordsOf(data), registry)
  BY DEF Inv, StandInv
<1>5. PICK old : old = RecordsOf(data)
  OBVIOUS
<1>6. ASSUME applied = {}
      PROVE  \A r \in old : Resolved(registry, records, seed, ratios).families[r.family] = r.split
  <2>1. Known(old) /\ Standing(old, registry)
    BY <1>1, <1>4, <1>5, <1>6
  <2> QED
    BY <1>1, <1>3, <1>5, <2>1, ResolvedStands
<1>7. ASSUME applied = {}, NEW r \in RecordsOf(committed.data)
      PROVE  Resolved(registry, records, seed, ratios).families[r.family] = r.split
  <2>1. PICK new : new = Resolved(registry, records, seed, ratios)
    OBVIOUS
  <2>2. r.family \in Families /\ r.split \in ReleaseSplits
    BY <1>7 DEF Inv, FileInv, Known, StandInv, Standing
  <2>3. CASE registry.form = "whole"
    <3>1. registry.families[r.family] = r.split
      BY <1>7, <2>3 DEF Inv, StandInv, CommittedStands
    <3>2. \A f \in Families : registry.families[f] # None => new.families[f] = registry.families[f]
      <4>1. Grown(new, registry, records)
        BY <1>2, <1>3, <2>1, ResolvedIs
      <4> QED
        BY <4>1 DEF Grown
    <3> QED
      BY <2>1, <2>2, <3>1, <3>2, SplitAssumption
  <2>4. CASE registry.form = "missing"
    <3>1. PICK q \in RecordsOf(data) : q.family = r.family /\ q.split = r.split
      BY <1>7, <2>4 DEF Inv, StandInv, CommittedStands
    <3>2. new.families[q.family] = q.split
      BY <1>5, <1>6, <1>7, <2>1, <3>1
    <3> QED
      BY <2>1, <3>1, <3>2
  <2> QED
    BY <1>3, <2>3, <2>4 DEF Registry
<1> QED
  BY <1>2, <1>3, <1>5, <1>6, <1>7

\* A split writes records where the registry it resolved has them.
LEMMA SplitStep ==
    ASSUME Inv, NEW seed \in Seeds, NEW ratios \in Ratios, NEW others \in Additions,
           Split(others, seed, ratios)
    PROVE  RegistryInv' /\ FileInv' /\ StandInv'
<1>1. PICK records : records = RecordsOf(data) \union others
  OBVIOUS
<1>2. PICK reg : reg = Resolved(registry, records, seed, ratios)
  OBVIOUS
<1>3. /\ Resolvable(registry, records, seed) /\ registry' = reg
      /\ data' = Placed(records, reg)
      /\ UNCHANGED <<broken, committed, staged, released, rows, decided, applied>>
  BY <1>1, <1>2 DEF Split, review
<1>4. Known(records) /\ registry \in Registry
  BY <1>1, <1>3, SplitsWhat
<1>5. reg.form = "whole"
  BY <1>2, <1>4, ResolvedIs DEF Grown
<1>6. \A q \in RecordsOf(data') :
        Shaped(q) /\ q.family \in Families /\ q.split \in ReleaseSplits /\ reg.families[q.family] = q.split
  BY <1>3, <1>4, InFiles, PlacedIs
<1>7. RegistryInv'
  BY <1>1, <1>2, <1>3, GrownRegistry DEF Inv
<1>8. FileInv'
  BY <1>3, <1>6 DEF Inv, FileInv, Known
<1>9. StandInv'
  <2>1. Standing(RecordsOf(data'), reg)
    BY <1>5, <1>6 DEF Standing
  <2>2. applied = {} => \A r \in RecordsOf(committed.data) : reg.families[r.family] = r.split
    BY <1>1, <1>2, <1>3, SplitsWhat
  <2> QED
    BY <1>3, <1>5, <2>1, <2>2 DEF Inv, StandInv, CommittedStands
<1> QED
  BY <1>7, <1>8, <1>9

\* A killed split leaves old and new records, all where the registry has them.
LEMMA SplitKilledStep ==
    ASSUME Inv, NEW seed \in Seeds, NEW ratios \in Ratios, NEW others \in Additions,
           SplitKilled(others, seed, ratios)
    PROVE  RegistryInv' /\ FileInv' /\ StandInv'
<1>1. PICK records : records = RecordsOf(data) \union others
  OBVIOUS
<1>2. PICK reg : reg = Resolved(registry, records, seed, ratios)
  OBVIOUS
<1>3. PICK new : new = Placed(records, reg)
  OBVIOUS
<1>4. /\ Resolvable(registry, records, seed)
      /\ \/ registry' = Torn /\ UNCHANGED <<data, broken>>
         \/ registry' = reg /\ UNCHANGED <<data, broken>>
         \/ \E n \in DOMAIN Splits : \E cut \in Cuts(new[Splits[n]]) :
              /\ registry' = reg
              /\ data' = [s \in ReleaseSplits |->
                            IF s = Splits[n] THEN cut
                            ELSE IF s \in {Splits[i] : i \in 1..n} THEN new[s] ELSE data[s]]
      /\ broken = {}
      /\ UNCHANGED <<committed, staged, released, rows, decided, applied>>
  <2>0. /\ Resolvable(registry, records, seed)
        /\ \/ registry' = Torn /\ UNCHANGED <<data, broken>>
           \/ registry' = reg /\ UNCHANGED <<data, broken>>
           \/ \E n \in DOMAIN Splits : \E cut \in Cuts(Placed(records, reg)[Splits[n]]) :
                /\ registry' = reg
                /\ data' = [s \in ReleaseSplits |->
                              IF s = Splits[n] THEN cut
                              ELSE IF s \in {Splits[i] : i \in 1..n} THEN Placed(records, reg)[s] ELSE data[s]]
                /\ \/ UNCHANGED broken
                   \/ cut # Placed(records, reg)[Splits[n]] /\ broken' = {Splits[n]}
    BY <1>1, <1>2 DEF SplitKilled
  <2>1. broken = {} /\ UNCHANGED <<committed, staged, released, rows, decided, applied>>
    BY DEF SplitKilled, Readable, review
  <2> QED
    BY <1>3, <2>0, <2>1
<1>5. Known(records) /\ registry \in Registry
  BY <1>1, <1>4, SplitsWhat
<1>6. CASE registry' = Torn /\ UNCHANGED <<data, broken>>
  <2>1. RegistryInv'
    BY <1>4, <1>6, MissingIs DEF Inv, RegistryInv
  <2>2. FileInv'
    BY <1>4, <1>6 DEF Inv, FileInv
  <2>3. StandInv'
    BY <1>4, <1>6, MissingIs DEF Inv, StandInv, Standing, CommittedStands
  <2> QED
    BY <2>1, <2>2, <2>3
<1>7. reg.form = "whole"
  BY <1>2, <1>5, ResolvedIs DEF Grown
<1>8. applied = {} =>
        \A r \in RecordsOf(data) \union RecordsOf(committed.data) : reg.families[r.family] = r.split
  BY <1>1, <1>2, <1>4, SplitsWhat
<1>9. CASE registry' = reg /\ UNCHANGED <<data, broken>>
  <2>1. RegistryInv'
    BY <1>1, <1>2, <1>4, <1>9, GrownRegistry DEF Inv
  <2>2. FileInv'
    BY <1>4, <1>9 DEF Inv, FileInv
  <2>3. StandInv'
    BY <1>4, <1>7, <1>8, <1>9 DEF Inv, StandInv, Standing, CommittedStands
  <2> QED
    BY <2>1, <2>2, <2>3
<1>10. ASSUME NEW n \in DOMAIN Splits, NEW cut \in Cuts(new[Splits[n]]), registry' = reg,
             data' = [s \in ReleaseSplits |->
                        IF s = Splits[n] THEN cut
                        ELSE IF s \in {Splits[i] : i \in 1..n} THEN new[s] ELSE data[s]]
      PROVE  RegistryInv' /\ FileInv' /\ StandInv'
  <2>2. cut \subseteq new[Splits[n]]
    BY DEF Cuts
  <2>3. \A s \in ReleaseSplits : \A q \in data'[s] : q \in new[s] \/ q \in data[s]
    BY <1>10, <2>2
  <2>4. \A q \in RecordsOf(data') :
          q \in RecordsOf(data) \/ \E s \in ReleaseSplits : q \in new[s]
    BY <2>3, InFiles
  <2>5. \A s \in ReleaseSplits : \A q \in new[s] :
          Shaped(q) /\ q.family \in Families /\ q.split = s /\ reg.families[q.family] = s
    BY <1>3, <1>5, PlacedIs
  <2>6. RegistryInv'
    BY <1>1, <1>2, <1>4, <1>10, GrownRegistry DEF Inv
  <2>7. FileInv'
    BY <1>4, <2>4, <2>5 DEF Inv, FileInv, Known
  <2>8. StandInv'
    <3>1. ASSUME applied = {} PROVE Standing(RecordsOf(data'), reg)
      <4>1. \A r \in RecordsOf(data) : reg.families[r.family] = r.split /\ r.split \in ReleaseSplits
        BY <1>8, <3>1 DEF Inv, StandInv, Standing
      <4> QED
        BY <1>7, <2>4, <2>5, <4>1 DEF Standing
    <3> QED
      BY <1>4, <1>7, <1>8, <1>10, <3>1 DEF Inv, StandInv, CommittedStands
  <2> QED
    BY <2>6, <2>7, <2>8
<1> QED
  BY <1>4, <1>6, <1>9, <1>10

-----------------------------------------------------------------------------
(***************************************************************************)
(* Commits, releases and the records themselves.                           *)
(***************************************************************************)
\* What is committed is at least what was released: registries only grow.
LEMMA CommitStep ==
    ASSUME Inv, Commit
    PROVE  RegistryInv' /\ FileInv' /\ StandInv'
<1>1. /\ registry.form # "torn"
      /\ committed'.data = data /\ committed'.registry = registry
      /\ UNCHANGED <<data, broken, registry, staged, released, rows, decided, applied>>
  BY DEF Commit, review
<1>2. RegistryInv'
  <2>1. ASSUME NEW f \in Families, released[f] # None
        PROVE  registry.families[f] = released[f]
    <3>1. committed.registry.families[f] = released[f]
      BY <2>1 DEF Inv, RegistryInv
    <3>2. committed.registry.form = "whole"
      BY <2>1, <3>1 DEF Inv, RegistryInv, Registry
    <3>3. registry.form = "whole"
      BY <1>1, <3>2 DEF Inv, RegistryInv, Registry
    <3> QED
      BY <2>1, <3>1, <3>3 DEF Inv, RegistryInv
  <2> QED
    BY <1>1, <2>1 DEF Inv, RegistryInv
<1>3. FileInv'
  BY <1>1 DEF Inv, FileInv
<1>4. StandInv'
  BY <1>1 DEF Inv, StandInv, Standing, CommittedStands
<1> QED
  BY <1>2, <1>3, <1>4

\* A checkout goes back to what was committed, which stands as well.
LEMMA CheckoutStep ==
    ASSUME Inv, Checkout
    PROVE  RegistryInv' /\ FileInv' /\ StandInv'
<1>1. /\ data' = committed.data /\ broken' = {} /\ registry' = committed.registry
      /\ UNCHANGED <<committed, staged, released, rows, decided, applied>>
  BY DEF Checkout, review
<1>2. RegistryInv'
  BY <1>1 DEF Inv, RegistryInv
<1>3. FileInv'
  BY <1>1 DEF Inv, FileInv
<1>4. StandInv'
  BY <1>1 DEF Inv, StandInv, Standing, CommittedStands
<1> QED
  BY <1>2, <1>3, <1>4

\* One file checked out beside the new registry has its families where that
\* has them.
LEMMA CheckoutFileStep ==
    ASSUME Inv, NEW s \in ReleaseSplits, CheckoutFile(s)
    PROVE  RegistryInv' /\ FileInv' /\ StandInv'
<1>1. /\ s \in broken /\ broken' = broken \ {s}
      /\ data' = [t \in ReleaseSplits |-> IF t = s THEN committed.data[t] ELSE data[t]]
      /\ UNCHANGED <<committed, registry, staged, released, rows, decided, applied>>
  BY DEF CheckoutFile, review
<1>2. RegistryInv'
  BY <1>1 DEF Inv, RegistryInv
<1>3. \A q \in RecordsOf(data') : q \in RecordsOf(data) \/ q \in RecordsOf(committed.data)
  BY <1>1, InFiles
<1>4. FileInv'
  BY <1>1, <1>3 DEF Inv, FileInv, Known
<1>5. registry.form = "whole"
  BY <1>1 DEF Inv, StandInv
<1>6. StandInv'
  <2>1. ASSUME applied = {} PROVE Standing(RecordsOf(data'), registry) /\ CommittedStands'
    BY <1>1, <1>3, <1>5, <2>1 DEF Inv, StandInv, Standing, CommittedStands
  <2> QED
    BY <1>1, <1>5, <2>1 DEF Inv, StandInv
<1> QED
  BY <1>2, <1>4, <1>6

\* What is released of a family is released in the split it is frozen in.
LEMMA ReleasedIs ==
    ASSUME Inv, NEW maturity, Release(maturity), NEW f \in Families
    PROVE  \/ released'[f] = released[f]
           \/ released'[f] = committed.registry.families[f]
<1> DEFINE records == RecordsOf(committed.data)
           own == SplitsAsserted(records, f)
<1>1. /\ released'[f] = IF own = {} THEN released[f] ELSE CHOOSE s \in own : TRUE
      /\ \A r \in records : committed.registry.families[r.family] = r.split
  BY DEF Release, SplitsRegistered
<1>2. \A s \in own : s = committed.registry.families[f]
  BY <1>1 DEF SplitsAsserted
<1> HIDE DEF own
<1>3. own # {} => (CHOOSE s \in own : TRUE) \in own
  OBVIOUS
<1> QED
  BY <1>1, <1>2, <1>3

\* A release freezes nothing that the committed registry has not frozen.
LEMMA ReleaseStep ==
    ASSUME Inv, NEW maturity, Release(maturity)
    PROVE  RegistryInv' /\ FileInv' /\ StandInv'
<1>1. UNCHANGED <<committed, data, broken, registry, staged, rows, decided, applied>>
  BY DEF Release, review
<1>2. RegistryInv'
  BY <1>1, ReleasedIs DEF Inv, RegistryInv
<1>3. FileInv'
  BY <1>1 DEF Inv, FileInv
<1>4. StandInv'
  BY <1>1 DEF Inv, StandInv, CommittedStands
<1> QED
  BY <1>2, <1>3, <1>4

\* Promoted records are in no split.
LEMMA PromoteStep ==
    ASSUME Inv, NEW batch \in SUBSET Candidates, NEW decisions \in [batch -> Decision], Promote(decisions)
    PROVE  RegistryInv' /\ FileInv' /\ StandInv'
<1>1. /\ staged' = Staging(decisions)
      /\ UNCHANGED <<committed, data, broken, registry, released, rows, decided, applied>>
  BY DEF Promote, review
<1>2. RegistryInv'
  BY <1>1 DEF Inv, RegistryInv
<1>3. ASSUME NEW r \in staged' PROVE Shaped(r) /\ r.family \in Families /\ r.split = "candidate"
  <2>1. PICK c \in batch : r = RecordOf(c, decisions[c])
    BY <1>1 DEF Staging, Promoted
  <2>2. c \in Candidates /\ decisions[c] \in Decision
    BY <2>1
  <2> QED
    BY <2>1, <2>2, PromotedRecord
<1>4. FileInv'
  BY <1>1, <1>3 DEF Inv, FileInv, Known
<1>5. StandInv'
  BY <1>1 DEF Inv, StandInv, CommittedStands
<1> QED
  BY <1>2, <1>4, <1>5

\* Respelling moves no record.
LEMMA RespellStep ==
    ASSUME Inv, NEW id, NEW spelling, Respell(id, spelling)
    PROVE  RegistryInv' /\ FileInv' /\ StandInv'
<1> DEFINE new(r) == IF r.id = id THEN [r EXCEPT !.text.spelling = spelling] ELSE r
<1>1. /\ data' = [s \in ReleaseSplits |-> {new(r) : r \in data[s]}]
      /\ UNCHANGED <<broken, committed, staged, registry, released, rows, decided, applied>>
  BY DEF Respell, review
<1>2. RegistryInv'
  BY <1>1 DEF Inv, RegistryInv
<1>3. ASSUME NEW r, Shaped(r)
      PROVE  Shaped(new(r)) /\ new(r).split = r.split /\ new(r).family = r.family
  BY <1>3, RespelledRecord
<1> HIDE DEF new
<1>4. /\ \A q \in RecordsOf(data') : \E r \in RecordsOf(data) : q = new(r)
      /\ \A r \in RecordsOf(data) : new(r) \in RecordsOf(data')
  BY <1>1, InFiles
<1>5. Known(RecordsOf(data))
  BY DEF Inv, FileInv
<1>6. \A q \in RecordsOf(data') : \E r \in RecordsOf(data) :
        Shaped(q) /\ q.split = r.split /\ q.family = r.family /\ r.family \in Families
  BY <1>3, <1>4, <1>5 DEF Known
<1>7. FileInv'
  BY <1>1, <1>6 DEF Inv, FileInv, Known
<1>8. StandInv'
  <2>1. ASSUME Standing(RecordsOf(data), registry) PROVE Standing(RecordsOf(data'), registry)
    <3>1. ASSUME registry.form = "missing" PROVE NoLeakage(RecordsOf(data'))
      BY <1>6, <2>1, <3>1 DEF Standing, NoLeakage
    <3> QED
      BY <1>6, <2>1, <3>1 DEF Standing
  <2>2. \A r \in RecordsOf(data) : \E q \in RecordsOf(data') : q.family = r.family /\ q.split = r.split
    BY <1>3, <1>4, <1>5 DEF Known
  <2>3. CommittedStands => CommittedStands'
    <3>1. SUFFICES ASSUME CommittedStands, registry.form = "missing", NEW r \in RecordsOf(committed.data)
                   PROVE  \E q \in RecordsOf(data') : q.family = r.family /\ q.split = r.split
      BY <1>1 DEF CommittedStands
    <3>2. PICK p \in RecordsOf(data) : p.family = r.family /\ p.split = r.split
      BY <3>1 DEF CommittedStands
    <3> QED
      BY <2>2, <3>2
  <2> QED
    BY <1>1, <2>1, <2>3 DEF Inv, StandInv
<1> QED
  BY <1>2, <1>7, <1>8

\* After an application nothing is said about where records are.
LEMMA ApplyStep ==
    ASSUME Inv, Apply
    PROVE  RegistryInv' /\ FileInv' /\ StandInv'
<1>1. /\ RecordsOf(data) # {} /\ applied' = Applied(RecordsOf(data), decided)
      /\ UNCHANGED <<committed, data, broken, registry, staged, released, rows, decided>>
  BY DEF Apply
<1>2. RegistryInv'
  BY <1>1 DEF Inv, RegistryInv
<1>3. Known(applied')
  <2>1. Known(RecordsOf(data))
    BY DEF Inv, FileInv
  <2>2. ASSUME NEW q \in applied' PROVE Shaped(q) /\ q.family \in Families
    <3>1. PICK r \in RecordsOf(data) :
            q = [r EXCEPT !.status = "gold", !.by = decided[OracleId(r)].reviewers]
      BY <1>1 DEF Applied
    <3>2. Shaped(r) /\ r.family \in Families
      BY <2>1 DEF Known
    <3>3. Shaped(q) /\ q.family = r.family
      BY <3>1, <3>2, AppliedRecord
    <3> QED
      BY <3>2, <3>3
  <2> QED
    BY <2>2 DEF Known
<1>4. FileInv'
  BY <1>1, <1>3 DEF Inv, FileInv
<1>5. applied' # {}
  BY <1>1 DEF Applied
<1> QED
  BY <1>1, <1>2, <1>4, <1>5 DEF Inv, StandInv

\* Records put in by hand leave the registry alone.
LEMMA AdoptStep ==
    ASSUME Inv, Adopt
    PROVE  RegistryInv' /\ FileInv' /\ StandInv'
<1>1. /\ applied # {}
      /\ data' = [s \in ReleaseSplits |->
                    {r \in data[s] : r.id \notin {a.id : a \in applied}} \union {a \in applied : a.split = s}]
      /\ UNCHANGED <<broken, committed, staged, registry, released, rows, decided, applied>>
  BY DEF Adopt, review
<1>2. RegistryInv'
  BY <1>1 DEF Inv, RegistryInv
<1>3. \A q \in RecordsOf(data') : q \in RecordsOf(data) \/ q \in applied
  BY <1>1, InFiles
<1>4. FileInv'
  BY <1>1, <1>3 DEF Inv, FileInv, Known
<1>5. StandInv'
  BY <1>1 DEF Inv, StandInv
<1> QED
  BY <1>2, <1>4, <1>5

\* Steps that leave data, registry and what is made of records alone.
LEMMA StoreStays ==
    ASSUME Inv, UNCHANGED <<data, broken, registry, committed, staged, released, applied>>
    PROVE  RegistryInv' /\ FileInv' /\ StandInv'
<1>1. RegistryInv'
  BY DEF Inv, RegistryInv
<1>2. FileInv'
  BY DEF Inv, FileInv
<1>3. StandInv'
  BY DEF Inv, StandInv, CommittedStands
<1> QED
  BY <1>1, <1>2, <1>3

-----------------------------------------------------------------------------
(***************************************************************************)
(* The blind rows, the decisions and what is applied.                      *)
(***************************************************************************)
\* Steps that leave rows, decisions and applied records alone.
LEMMA ReviewStays ==
    ASSUME Inv, UNCHANGED review
    PROVE  ReviewInv'
BY DEF Inv, ReviewInv, review, AppliedAsAnnotated, Credited

\* Rows that pass are done and have an annotator, the only one they name.
LEMMA OneAnnotator ==
    ASSUME NEW table, RowsOK(table), RowsReady(table)
    PROVE  /\ DOMAIN table # {}
           /\ Annotator(table) \in Annotators(table)
           /\ \A k \in DOMAIN table : Annotated(table[k]) /\ table[k].by \in {Annotator(table), Nobody}
<1>1. Annotators(table) \subseteq Reviewers
  BY DEF Annotators, RowsOK
<1>2. IsFiniteSet(Annotators(table))
  BY <1>1, ReviewersAssumption, FS_Subset
<1>3. Cardinality(Annotators(table)) = 1
  BY DEF RowsReady
<1>4. PICK x : Annotators(table) = {x}
  BY <1>2, <1>3, FS_Singleton
<1>5. Annotator(table) = x
  BY <1>4 DEF Annotator
<1>6. \A k \in DOMAIN table : Annotated(table[k]) /\ table[k].by \in Annotators(table) \union {Nobody}
  BY DEF RowsReady, Annotators
<1>7. DOMAIN table # {}
  BY <1>4 DEF Annotators
<1> QED
  BY <1>4, <1>5, <1>6, <1>7

\* A re-review is opened before there are decisions.
LEMMA PrepareRereviewStep ==
    ASSUME Inv, PrepareRereview
    PROVE  ReviewInv'
<1>1. /\ rows["A"] = << >>
      /\ rows' = [s \in Slots |-> BlindRows(RecordsOf(data))]
      /\ UNCHANGED <<decided, applied>>
  BY DEF PrepareRereview
<1>2. "A" \in Slots
  BY DEF Slots
<1>3. DOMAIN decided = {} /\ applied = {}
  <2>1. RowsOK(rows["A"])
    BY <1>2 DEF Inv, ReviewInv
  <2>2. DOMAIN rows["A"] = {}
    BY <1>1
  <2>3. ~RowsReady(rows["A"])
    BY <2>1, <2>2, OneAnnotator
  <2> QED
    BY <1>2, <2>3 DEF Inv, ReviewInv
<1>4. RowsOK(BlindRows(RecordsOf(data)))
  BY DEF BlindRows, RowsOK
<1>5. \A s \in Slots : RowsOK(rows'[s])
  BY <1>1, <1>4
<1>6. rows' = [s \in Slots |-> rows'[s]]
  BY <1>1
<1> QED
  BY <1>1, <1>3, <1>5, <1>6 DEF ReviewInv, AppliedAsAnnotated, Credited

\* Rows are annotated before there are decisions: they do not pass yet.
LEMMA AnnotateStep ==
    ASSUME Inv, NEW slot \in Slots, NEW who \in [DOMAIN rows[slot] -> Reviewers \union {Nobody}],
           Annotate(slot, who)
    PROVE  ReviewInv'
<1> DEFINE table == [k \in DOMAIN who |-> [rows[slot][k] EXCEPT !.oracle = "annotated", !.by = who[k]]]
<1>1. /\ DOMAIN who = DOMAIN rows[slot] /\ ~RowsReady(rows[slot])
      /\ rows' = [rows EXCEPT ![slot] = table]
      /\ UNCHANGED <<decided, applied>>
  BY DEF Annotate
<1>2. DOMAIN decided = {} /\ applied = {}
  BY <1>1 DEF Inv, ReviewInv
<1>3. RowsOK(table)
  <2>1. ASSUME NEW k \in DOMAIN table
        PROVE  /\ table[k] = [text |-> rows[slot][k].text, oracle |-> "annotated", by |-> who[k]]
               /\ who[k] \in Reviewers \union {Nobody}
    <3>1. RowsOK(rows[slot])
      BY DEF Inv, ReviewInv
    <3>2. rows[slot][k] = [text |-> rows[slot][k].text, oracle |-> rows[slot][k].oracle,
                           by |-> rows[slot][k].by]
      BY <1>1, <3>1 DEF RowsOK
    <3>3. PICK row : row = rows[slot][k]
      OBVIOUS
    <3>4. [row EXCEPT !.oracle = "annotated", !.by = who[k]] =
            [text |-> row.text, oracle |-> "annotated", by |-> who[k]]
      <4>1. PICK text, oracle, by : row = [text |-> text, oracle |-> oracle, by |-> by]
        BY <3>2, <3>3
      <4> DEFINE one == [row EXCEPT !.oracle = "annotated"]
      <4>2. one = [text |-> text, oracle |-> "annotated", by |-> by] /\ row.text = text
        BY <4>1
      <4>3. [row EXCEPT !.oracle = "annotated", !.by = who[k]] = [one EXCEPT !.by = who[k]]
        BY <4>1
      <4> HIDE DEF one
      <4> QED
        BY <4>2, <4>3
    <3> QED
      BY <1>1, <3>3, <3>4
  <2> HIDE DEF table
  <2> QED
    BY <2>1 DEF RowsOK
<1> HIDE DEF table
<1>4. rows = [s \in Slots |-> rows[s]]
  BY DEF Inv, ReviewInv
<1>5. /\ rows' = [s \in Slots |-> rows'[s]]
      /\ \A s \in Slots : rows'[s] = table \/ rows'[s] = rows[s]
  BY <1>1, <1>4
<1>6. \A s \in Slots : RowsOK(rows'[s])
  BY <1>3, <1>5 DEF Inv, ReviewInv
<1> QED
  BY <1>1, <1>2, <1>5, <1>6 DEF ReviewInv, AppliedAsAnnotated, Credited

\* The adjudicator decides about records that are as the rows show them.
LEMMA DecideStep ==
    ASSUME Inv, NEW mistaken, Decide(mistaken)
    PROVE  ReviewInv'
<1> DEFINE records == RecordsOf(data)
           of(k) == CHOOSE q \in records : OracleId(q) = k
           decision(k) == [id |-> of(k).id,
                           family |-> IF of(k).id = mistaken THEN None ELSE of(k).family,
                           text |-> of(k).text,
                           reviewers |-> {Annotator(rows["A"]), Annotator(rows["B"])}]
<1>1. /\ Preflight(records, rows["A"], rows["B"])
      /\ decided' = [k \in OracleIds(records) |-> decision(k)]
      /\ UNCHANGED <<rows, applied>>
  BY DEF Decide
<1>2. /\ RowsReady(rows["A"]) /\ RowsReady(rows["B"])
      /\ DOMAIN rows["A"] = DOMAIN rows["B"]
      /\ \A k \in DOMAIN rows["A"] : rows["A"][k].text = rows["B"][k].text
      /\ OracleIds(records) = DOMAIN rows["A"]
      /\ \A r \in records : r.text = rows["A"][OracleId(r)].text
  BY <1>1 DEF Preflight, Comparable, SameContext
<1>3. \A k \in OracleIds(records) : of(k) \in records /\ OracleId(of(k)) = k
  BY DEF OracleIds
<1> HIDE DEF of, records
<1>4. \A k \in DOMAIN decided' : k \in OracleIds(records) /\ decided'[k].text = of(k).text
  BY <1>1
<1>5. ASSUME NEW k \in DOMAIN decided', NEW s \in Slots
      PROVE  k \in DOMAIN rows[s] /\ rows[s][k].text = decided'[k].text
  BY <1>2, <1>3, <1>4 DEF Slots
<1>6. \A s \in Slots : RowsReady(rows[s])
  BY <1>2 DEF Slots
<1> QED
  BY <1>1, <1>5, <1>6 DEF Inv, ReviewInv, AppliedAsAnnotated, Credited

\* What is applied has the text that was decided about, which is the rows'.
LEMMA ApplyReviewStep ==
    ASSUME Inv, Apply
    PROVE  ReviewInv'
<1>1. /\ Applicable(RecordsOf(data), rows["A"], rows["B"], decided)
      /\ applied' = Applied(RecordsOf(data), decided)
      /\ UNCHANGED <<rows, decided>>
  BY DEF Apply
<1>2. "A" \in Slots /\ "B" \in Slots
  BY DEF Slots
<1>3. /\ RowsReady(rows["A"]) /\ RowsReady(rows["B"])
      /\ Annotator(rows["A"]) # Annotator(rows["B"])
      /\ DOMAIN decided = OracleIds(RecordsOf(data))
      /\ \A r \in RecordsOf(data) :
           /\ {Annotator(rows["A"]), Annotator(rows["B"])} \subseteq decided[OracleId(r)].reviewers
           /\ decided[OracleId(r)].text = r.text
  BY <1>1 DEF Applicable, Comparable
<1>4. AppliedAsAnnotated'
  <2> SUFFICES ASSUME NEW q \in applied'
               PROVE  \E a, b \in q.by : a # b /\ Credited("A", q, a) /\ Credited("B", q, b)
    BY <1>1 DEF AppliedAsAnnotated, Credited
  <2>1. PICK r \in RecordsOf(data) :
          q = [r EXCEPT !.status = "gold", !.by = decided[OracleId(r)].reviewers]
    BY <1>1 DEF Applied
  <2>2. Shaped(r)
    BY DEF Inv, FileInv, Known
  <2>3. q.by = decided[OracleId(r)].reviewers /\ q.text = r.text /\ OracleId(q) = OracleId(r)
    BY <2>1, <2>2, AppliedRecord
  <2>4. OracleId(r) \in DOMAIN decided
    BY <1>3 DEF OracleIds
  <2>5. ASSUME NEW s \in Slots, RowsReady(rows[s])
        PROVE  Credited(s, q, Annotator(rows[s]))
    <3>1. RowsOK(rows[s])
      BY DEF Inv, ReviewInv
    <3>2. /\ OracleId(r) \in DOMAIN rows[s]
          /\ rows[s][OracleId(r)].text = decided[OracleId(r)].text
      BY <2>4 DEF Inv, ReviewInv
    <3>3. /\ Annotated(rows[s][OracleId(r)])
          /\ rows[s][OracleId(r)].by \in {Annotator(rows[s]), Nobody}
          /\ Annotator(rows[s]) \in Annotators(rows[s])
      BY <2>5, <3>1, <3>2, OneAnnotator
    <3>4. rows[s][OracleId(q)].text = q.text
      BY <1>3, <2>3, <3>2
    <3> QED
      BY <2>3, <3>3, <3>4 DEF Credited
  <2>6. /\ Credited("A", q, Annotator(rows["A"]))
        /\ Credited("B", q, Annotator(rows["B"]))
    BY <1>2, <1>3, <2>5
  <2>7. Annotator(rows["A"]) \in q.by /\ Annotator(rows["B"]) \in q.by
    BY <1>3, <2>3
  <2> QED
    BY <1>3, <2>6, <2>7
<1>5. \A s \in Slots : RowsReady(rows[s])
  BY <1>3 DEF Slots
<1> QED
  BY <1>1, <1>4, <1>5 DEF Inv, ReviewInv

-----------------------------------------------------------------------------
(***************************************************************************)
(* The invariant.                                                          *)
(***************************************************************************)
\* The invariant holds at the start.
LEMMA InitInv == Init => Inv
<1> SUFFICES ASSUME Init PROVE Inv
  OBVIOUS
<1>1. /\ data = [s \in ReleaseSplits |-> {r \in Canonical : r.split = s}]
      /\ broken = {} /\ registry = Missing /\ committed.data = data /\ committed.registry = registry
      /\ staged = {} /\ rows = [s \in Slots |-> << >>] /\ decided = << >>
      /\ applied = {} /\ released = [f \in Families |-> None]
  BY DEF Init
<1>2. Missing.form = "missing" /\ \A f \in Families : Missing.families[f] = None
  BY DEF Missing
<1>3. RegistryInv
  BY <1>1, <1>2, MissingIs DEF RegistryInv
<1>4. \A r \in RecordsOf(data) : r \in Canonical /\ r.split \in ReleaseSplits
  BY <1>1, InFiles
<1>5. Known(RecordsOf(data))
  BY <1>4, CanonicalAssumption DEF Known, Shaped
<1>6. FileInv
  BY <1>1, <1>5 DEF FileInv, Known
<1>7. NoLeakage(RecordsOf(data))
  BY <1>4, CanonicalAssumption DEF NoLeakage
<1>8. StandInv
  BY <1>1, <1>2, <1>4, <1>7 DEF StandInv, Standing, CommittedStands
<1>9. ReviewInv
  BY <1>1 DEF ReviewInv, RowsOK, AppliedAsAnnotated
<1> QED
  BY <1>3, <1>6, <1>8, <1>9 DEF Inv

\* Every step keeps the invariant.
LEMMA NextInv == Inv /\ [Next]_vars => Inv'
<1> SUFFICES ASSUME Inv, [Next]_vars PROVE Inv'
  OBVIOUS
<1>1. ASSUME NEW batch \in SUBSET Candidates, NEW decisions \in [batch -> Decision], Promote(decisions)
      PROVE  Inv'
  <2>1. UNCHANGED review
    BY <1>1 DEF Promote
  <2> QED
    BY <1>1, <2>1, PromoteStep, ReviewStays DEF Inv
<1>2. ASSUME NEW seed \in Seeds, NEW ratios \in Ratios, NEW others \in Additions,
             Split(others, seed, ratios)
      PROVE  Inv'
  <2>1. UNCHANGED review
    BY <1>2 DEF Split
  <2> QED
    BY <1>2, <2>1, SplitStep, ReviewStays DEF Inv
<1>3. ASSUME NEW seed \in Seeds, NEW ratios \in Ratios, NEW others \in Additions,
             SplitKilled(others, seed, ratios)
      PROVE  Inv'
  <2>1. UNCHANGED review
    BY <1>3 DEF SplitKilled
  <2> QED
    BY <1>3, <2>1, SplitKilledStep, ReviewStays DEF Inv
<1>4. CASE Commit
  BY <1>4, CommitStep, ReviewStays DEF Inv, Commit
<1>5. CASE Checkout
  BY <1>5, CheckoutStep, ReviewStays DEF Inv, Checkout
<1>6. ASSUME NEW id \in Edited, NEW spelling \in Spellings, Respell(id, spelling)
      PROVE  Inv'
  <2>1. UNCHANGED review
    BY <1>6 DEF Respell
  <2> QED
    BY <1>6, <2>1, RespellStep, ReviewStays DEF Inv
<1>7. CASE PrepareRereview
  BY <1>7, StoreStays, PrepareRereviewStep DEF Inv, PrepareRereview
<1>8. ASSUME NEW slot \in Slots, NEW who \in [DOMAIN rows[slot] -> Reviewers \union {Nobody}],
             Annotate(slot, who)
      PROVE  Inv'
  BY <1>8, StoreStays, AnnotateStep DEF Inv, Annotate
<1>9. ASSUME NEW mistaken, Decide(mistaken)
      PROVE  Inv'
  <2>1. UNCHANGED <<data, broken, registry, committed, staged, released, applied>>
    BY <1>9 DEF Decide
  <2> QED
    BY <1>9, <2>1, StoreStays, DecideStep DEF Inv
<1>10. CASE Apply
  BY <1>10, ApplyStep, ApplyReviewStep DEF Inv
<1>11. CASE Adopt
  BY <1>11, AdoptStep, ReviewStays DEF Inv, Adopt
<1>12. ASSUME NEW maturity, Release(maturity)
       PROVE  Inv'
  BY <1>12, ReleaseStep, ReviewStays DEF Inv, Release
<1>13. ASSUME NEW s \in ReleaseSplits, CheckoutFile(s)
       PROVE  Inv'
  BY <1>13, CheckoutFileStep, ReviewStays DEF Inv, CheckoutFile
<1>14. CASE UNCHANGED vars
  <2>1. UNCHANGED <<data, broken, registry, committed, staged, released, applied>> /\ UNCHANGED review
    BY <1>14 DEF vars, review
  <2> QED
    BY <2>1, StoreStays, ReviewStays DEF Inv
<1> QED
  BY <1>1, <1>2, <1>3, <1>4, <1>5, <1>6, <1>7, <1>8, <1>9, <1>10, <1>11, <1>12, <1>13,
     <1>14 DEF Next

\* The invariant of every reachable state.
LEMMA Invariance == Spec => []Inv
BY InitInv, NextInv, PTL DEF Spec

-----------------------------------------------------------------------------
(***************************************************************************)
(* SplitsAreFinal: a family is never released in a second split, whatever  *)
(* seeds and ratios splits are asked for, wherever one is killed, and      *)
(* whatever is checked out or put in by hand in between.  What was         *)
(* released is frozen in the committed registry, which resolving keeps,    *)
(* and a release compares its records with it.                             *)
(***************************************************************************)
THEOREM SplitsAreFinal == Spec => SplitsStand
<1> DEFINE Stands == \A f \in Families : released[f] # None => released'[f] = released[f]
<1>1. Inv /\ [Next]_vars => [Stands]_vars
  <2> SUFFICES ASSUME Inv, Next PROVE Stands
    OBVIOUS
  <2>1. ASSUME NEW maturity, Release(maturity) PROVE Stands
    <3>1. \A f \in Families : released[f] # None => committed.registry.families[f] = released[f]
      BY DEF Inv, RegistryInv
    <3> QED
      BY <2>1, <3>1, ReleasedIs
  <2>2. CASE UNCHANGED released
    BY <2>2
  <2>3. UNCHANGED released \/ \E maturity : Release(maturity)
    BY DEF Next, Promote, Split, SplitKilled, Commit, Checkout, CheckoutFile, Respell,
           PrepareRereview, Annotate, Decide, Apply, Adopt
  <2> QED
    BY <2>1, <2>2, <2>3
<1>2. Spec => [][Stands]_vars
  BY <1>1, Invariance, PTL DEF Spec
<1> QED
  BY <1>2 DEF SplitsStand

(***************************************************************************)
(* AppliedWasAnnotated: what an application credits to two reviewers was   *)
(* annotated with its very text in both slots, in rows that bear no other  *)
(* id, though the application compares the record with the decision alone: *)
(* rows that pass are not annotated any more, and decisions are made about *)
(* records that are as they show.                                          *)
(***************************************************************************)
THEOREM AppliedWasAnnotated == Spec => []AppliedAsAnnotated
<1>1. Inv => AppliedAsAnnotated
  BY DEF Inv, ReviewInv
<1> QED
  BY <1>1, Invariance, PTL

\* Records that stand can be split again, with the seed of the registry.
LEMMA StandingIsResolvable ==
    ASSUME NEW reg \in Registry, reg.form # "torn", NEW records, Known(records), Standing(records, reg),
           reg.form = "missing" => \A f \in Families : reg.families[f] = None
    PROVE  \E seed \in Seeds : Resolvable(reg, records, seed)
<1>1. PICK seed \in Seeds : reg.seed \in {None, seed}
  BY SplitAssumption DEF Registry
<1>2. ASSUME NEW r \in records
      PROVE  LET found == SplitsAsserted(records, r.family)
             IN  IF reg.families[r.family] # None THEN found \subseteq {reg.families[r.family]}
                 ELSE Cardinality(found) <= 1
  <2> DEFINE found == SplitsAsserted(records, r.family)
  <2>1. r.family \in Families /\ r.split \in ReleaseSplits
    BY DEF Known, Standing
  <2>2. \A s \in found : \E q \in records : q.family = r.family /\ q.split = s
    BY DEF SplitsAsserted
  <2> HIDE DEF found
  <2>3. CASE reg.form = "whole"
    <3>1. \A q \in records : reg.families[q.family] = q.split
      BY <2>3 DEF Standing
    <3>2. found \subseteq {reg.families[r.family]} /\ reg.families[r.family] # None
      BY <2>1, <2>2, <3>1, SplitAssumption
    <3> QED
      BY <3>2 DEF found
  <2>4. CASE reg.form = "missing"
    <3>1. reg.families[r.family] = None
      BY <2>1, <2>4
    <3>2. found \subseteq {r.split}
      BY <2>2, <2>4 DEF Standing, NoLeakage
    <3>3. IsFiniteSet({r.split}) /\ Cardinality({r.split}) = 1
      BY FS_Singleton
    <3>4. Cardinality(found) <= 1
      BY <3>2, <3>3, FS_Subset
    <3> QED
      BY <3>1, <3>4 DEF found
  <2> QED
    BY <2>3, <2>4 DEF Registry
<1>3. Resolvable(reg, records, seed)
  BY <1>1, <1>2 DEF Resolvable
<1> QED
  BY <1>3

(***************************************************************************)
(* SplitsRepeat: a split that was killed in any of its files leaves what   *)
(* some split accepts, unless the registry is cut short.  The registry is  *)
(* written first and keeps a family where its records are, so that old and *)
(* new files agree with it; the hypothesis that nothing was applied is     *)
(* needed, since records put in by hand may be in any split.               *)
(***************************************************************************)
THEOREM SplitsRepeat == Spec => []SplitCanBeRepeated
<1>1. Inv => SplitCanBeRepeated
  <2> SUFFICES ASSUME Inv, applied = {}, registry.form # "torn", Readable
               PROVE  \E seed \in Seeds : Resolvable(registry, RecordsOf(data), seed)
    BY DEF SplitCanBeRepeated
  <2>1. /\ registry \in Registry
        /\ registry.form = "missing" => \A f \in Families : registry.families[f] = None
    BY DEF Inv, RegistryInv
  <2>2. Known(RecordsOf(data)) /\ Standing(RecordsOf(data), registry)
    BY DEF Inv, FileInv, StandInv
  <2> QED
    BY <2>1, <2>2, StandingIsResolvable
<1> QED
  BY <1>1, Invariance, PTL
=============================================================================
