--------------------------- MODULE Campaign_proofs ---------------------------
(***************************************************************************)
(* Proofs about Campaign, for any number of cases, workers, kills and      *)
(* corrections, any snapshots and any limits on packets.                   *)
(***************************************************************************)
EXTENDS Campaign, FiniteSetTheorems, NaturalsInduction, TLAPS

Steps == {"idle", "list", "make", "write", "preflight", "corpus", "summary",
          "pool", "metadata", "seal"}

\* What a step of the maintainer's command has in hand.
JobOK ==
    /\ job \in [step : Steps, batch : Nat, snapshot : (SUBSET Cases) \union {None}]
    /\ job.step \in {"make", "write"} =>
         job.snapshot \in Snapshots /\ job.batch # 0
    /\ job.step \in {"write", "corpus", "summary", "pool", "metadata", "seal"} =>
         job.batch \in BatchIds

TypeInv ==
    /\ TypeOK
    /\ JobOK
    /\ packet = [w \in Workers |-> packet[w]]
    /\ summary = [b \in BatchIds |-> summary[b]]

-----------------------------------------------------------------------------
\* Lemmas on finite sets and on the arithmetic of slices.
LEMMA CasesFinite ==
    /\ IsFiniteSet(Cases) /\ Cardinality(Cases) = LastCase
    /\ \A S \in SUBSET Cases : /\ IsFiniteSet(S)
                               /\ Cardinality(S) \in 0 .. LastCase
<1>1. IsFiniteSet(Cases) /\ Cardinality(Cases) = LastCase
  BY CasesAssumption, FS_Interval DEF Cases
<1>2. ASSUME NEW S \in SUBSET Cases
      PROVE  IsFiniteSet(S) /\ Cardinality(S) \in 0 .. LastCase
  BY <1>1, FS_Subset, FS_CardinalityType, CasesAssumption
<1> QED
  BY <1>1, <1>2

\* Division with remainder.
LEMMA Quotient ==
    ASSUME NEW n \in Nat, NEW d \in Nat \ {0}
    PROVE  /\ n \div d \in Nat
           /\ d * (n \div d) <= n
           /\ n < d * (n \div d) + d
<1>1. n = d * (n \div d) + (n % d) /\ n % d \in 0 .. (d - 1) /\ n \div d \in Int
  OBVIOUS
<1>2. n \div d \in Nat
  OBVIOUS
<1> QED
  BY <1>1, <1>2

\* A common factor can be cancelled.
LEMMA Cancel ==
    ASSUME NEW d \in Nat \ {0}, NEW a \in Int, NEW b \in Int, d * a < d * b
    PROVE  a < b
<1> SUFFICES ASSUME b <= a PROVE d * b <= d * a
  OBVIOUS
<1>1. PICK k \in Nat : a = b + k
  <2>1. a - b \in Nat /\ a = b + (a - b)
    OBVIOUS
  <2> QED
    BY <2>1
<1>2. d * a = d * b + d * k /\ d * k \in Nat
  BY <1>1
<1> QED
  BY <1>2

\* The batches of a snapshot are enough for it, and none too many.
LEMMA BatchCountBounds ==
    ASSUME NEW S \in SUBSET Cases
    PROVE  /\ BatchCount(S) \in 0 .. LastCase
           /\ BatchSize * BatchCount(S) < Cardinality(S) + BatchSize
           /\ Cardinality(S) + BatchSize <= BatchSize * (BatchCount(S) + 1)
<1> DEFINE N == Cardinality(S)
           q == BatchCount(S)
<1>1. N \in Nat /\ N <= LastCase /\ BatchSize \in Nat \ {0}
  BY CasesFinite, LimitAssumption, CasesAssumption
<1>2. /\ q \in Nat /\ BatchSize * q <= N + BatchSize - 1
      /\ N + BatchSize - 1 < BatchSize * q + BatchSize
  <2>1. N + BatchSize - 1 \in Nat
    BY <1>1
  <2> QED
    BY <1>1, <2>1, Quotient DEF BatchCount
<1>3. BatchSize * (q + 1) = BatchSize * q + BatchSize
  BY <1>1, <1>2
<1>4. BatchSize * (N + 1) = BatchSize * N + BatchSize /\ N <= BatchSize * N
  <2>1. PICK k \in Nat : BatchSize = k + 1
    <3>1. BatchSize - 1 \in Nat /\ BatchSize = (BatchSize - 1) + 1
      BY <1>1
    <3> QED
      BY <3>1
  <2>2. BatchSize * N = k * N + N /\ k * N \in Nat
    BY <1>1, <2>1
  <2> QED
    BY <1>1, <2>2
<1>5. q < N + 1
  <2>1. BatchSize * q < BatchSize * (N + 1)
    BY <1>1, <1>2, <1>4
  <2> QED
    BY <1>1, <1>2, <2>1, Cancel
<1> QED
  BY <1>1, <1>2, <1>3, <1>5, CasesAssumption

Rank(S, c) == Cardinality({d \in S : d < c})

\* Ranks are ordered as the cases are.
LEMMA RankIsOrder ==
    ASSUME NEW S \in SUBSET Cases
    PROVE  /\ \A c \in S : Rank(S, c) \in 0 .. (Cardinality(S) - 1)
           /\ \A c, d \in S : c < d => Rank(S, c) < Rank(S, d)
<1>1. IsFiniteSet(S) /\ Cardinality(S) \in Nat /\ S \subseteq Int
  BY CasesFinite, CasesAssumption DEF Cases
<1>2. ASSUME NEW c \in S, NEW T \in SUBSET S, \A d \in S : d < c => d \in T, c \in T
      PROVE  Rank(S, c) \in Nat /\ Rank(S, c) < Cardinality(T)
  <2> DEFINE L == {d \in S : d < c}
  <2>1. L \in SUBSET S /\ IsFiniteSet(L) /\ Cardinality(L) \in Nat /\ c \notin L
    BY <1>1, FS_Subset, FS_CardinalityType
  <2>2. Cardinality(L \union {c}) = Cardinality(L) + 1
    BY <2>1, FS_AddElement
  <2>3. L \union {c} \in SUBSET T /\ IsFiniteSet(T) /\ Cardinality(T) \in Nat
    BY <1>1, <1>2, FS_Subset, FS_CardinalityType
  <2>4. Cardinality(L \union {c}) <= Cardinality(T)
    BY <2>3, FS_Subset
  <2> QED
    BY <2>1, <2>2, <2>3, <2>4 DEF Rank
<1>3. ASSUME NEW c \in S, NEW d \in S, c < d PROVE Rank(S, c) < Rank(S, d)
  <2>1. {e \in S : e < d} \in SUBSET S
    OBVIOUS
  <2>2. \A e \in S : e < c => e \in {f \in S : f < d}
    BY <1>1, <1>3
  <2>3. c \in {e \in S : e < d}
    BY <1>3
  <2> QED
    BY <1>2, <2>1, <2>2, <2>3 DEF Rank
<1>4. ASSUME NEW c \in S PROVE Rank(S, c) \in 0 .. (Cardinality(S) - 1)
  <2>1. Rank(S, c) \in Nat /\ Rank(S, c) < Cardinality(S)
    BY <1>2
  <2> QED
    BY <1>1, <2>1
<1> QED
  BY <1>3, <1>4

\* Every rank below the number of cases is taken.
LEMMA RankIsOnto ==
    ASSUME NEW S \in SUBSET Cases, NEW r \in 0 .. (Cardinality(S) - 1)
    PROVE  \E c \in S : Rank(S, c) = r
<1> DEFINE R == 0 .. (Cardinality(S) - 1)
           rank == [c \in S |-> Rank(S, c)]
<1>1. IsFiniteSet(S) /\ Cardinality(S) \in Nat /\ S \subseteq Int
  BY CasesFinite, CasesAssumption DEF Cases
<1>2. IsFiniteSet(R) /\ Cardinality(R) = Cardinality(S)
  BY <1>1, FS_Interval
<1>3. rank \in [S -> R]
  BY RankIsOrder
<1>4. \A c, d \in S : rank[c] = rank[d] => c = d
  <2> SUFFICES ASSUME NEW c \in S, NEW d \in S, Rank(S, c) = Rank(S, d) PROVE c = d
    OBVIOUS
  <2>1. c \in Int /\ d \in Int /\ Rank(S, c) \in Int
    BY <1>1, RankIsOrder
  <2> QED
    BY <2>1, RankIsOrder
<1>5. rank \in Injection(S, R)
  BY <1>3, <1>4 DEF Injection, IsInjective
<1>6. rank \in Surjection(S, R)
  BY <1>1, <1>2, <1>5, FS_Injection
<1> QED
  BY <1>6 DEF Surjection

\* The slices of a snapshot share it out, in order, none too large or empty.
LEMMA SlicesShareOut ==
    ASSUME NEW S \in SUBSET Cases
    PROVE  /\ UNION {Slice(S, b) : b \in 1 .. BatchCount(S)} = S
           /\ \A b \in 1 .. BatchCount(S) :
                 /\ Slice(S, b) \in SUBSET Cases
                 /\ Cardinality(Slice(S, b)) \in 1 .. BatchSize
           /\ \A a, b \in 1 .. BatchCount(S) :
                 a < b => \A c \in Slice(S, a), d \in Slice(S, b) : c < d
<1> DEFINE N == Cardinality(S)
           count == BatchCount(S)
<1>1. /\ IsFiniteSet(S) /\ N \in Nat /\ S \subseteq Int
      /\ BatchSize \in Nat \ {0} /\ count \in Nat
      /\ BatchSize * count < N + BatchSize
      /\ N + BatchSize <= BatchSize * (count + 1)
  BY CasesFinite, CasesAssumption, LimitAssumption, BatchCountBounds DEF Cases
<1> HIDE DEF N, count
<1>2. ASSUME NEW c \in S
      PROVE  /\ Rank(S, c) \in 0 .. (N - 1)
             /\ BatchOf(S, c) \in Nat \ {0}
             /\ BatchSize * (BatchOf(S, c) - 1) <= Rank(S, c)
             /\ Rank(S, c) < BatchSize * BatchOf(S, c)
  <2>1. Rank(S, c) \in 0 .. (N - 1)
    BY RankIsOrder DEF N
  <2> DEFINE q == Rank(S, c) \div BatchSize
  <2>2. q \in Nat /\ BatchSize * q <= Rank(S, c) /\ Rank(S, c) < BatchSize * q + BatchSize
    <3>1. Rank(S, c) \in Nat
      BY <1>1, <2>1
    <3> QED
      BY <1>1, <3>1, Quotient
  <2>3. BatchOf(S, c) = q + 1
    BY DEF BatchOf, Rank
  <2> HIDE DEF q
  <2>4. BatchSize * (q + 1) = BatchSize * q + BatchSize
    BY <1>1, <2>2
  <2> QED
    BY <1>1, <2>1, <2>2, <2>3, <2>4
<1>3. ASSUME NEW c \in S PROVE BatchOf(S, c) \in 1 .. count
  <2> DEFINE b == BatchOf(S, c)
  <2>1. b \in Nat \ {0} /\ BatchSize * (b - 1) <= N - 1
    BY <1>1, <1>2
  <2> HIDE DEF b
  <2>2. BatchSize * (b - 1) + BatchSize = BatchSize * b
    BY <1>1, <2>1
  <2>3. BatchSize * b < BatchSize * (count + 1)
    BY <1>1, <2>1, <2>2
  <2>4. b < count + 1
    BY <1>1, <2>1, <2>3, Cancel
  <2> QED
    BY <1>1, <2>1, <2>4 DEF b
<1>4. UNION {Slice(S, b) : b \in 1 .. count} = S
  BY <1>3 DEF Slice
<1>5. ASSUME NEW b \in 1 .. count
      PROVE  /\ Slice(S, b) \in SUBSET Cases
             /\ Cardinality(Slice(S, b)) \in 1 .. BatchSize
  <2> DEFINE P == Slice(S, b)
             low == BatchSize * (b - 1)
             I == low .. (low + BatchSize - 1)
             rank == [c \in P |-> Rank(S, c)]
  <2>1. P \in SUBSET S /\ P \in SUBSET Cases /\ IsFiniteSet(P) /\ Cardinality(P) \in Nat
    BY <1>1, FS_Subset, FS_CardinalityType DEF Slice
  <2>2. low \in Nat /\ low + BatchSize = BatchSize * b
    BY <1>1
  <2>3. low <= N - 1
    <3>1. BatchSize * b < BatchSize * (count + 1)
      <4>1. PICK k \in Nat : count + 1 = b + k /\ k # 0
        <5>1. (count + 1 - b) \in Nat /\ count + 1 - b # 0 /\ count + 1 = b + (count + 1 - b)
          BY <1>1
        <5> QED
          BY <5>1
      <4>2. BatchSize * (count + 1) = BatchSize * b + BatchSize * k
        BY <1>1, <4>1
      <4>3. BatchSize * k # 0 /\ BatchSize * k \in Nat
        BY <1>1, <4>1
      <4> QED
        BY <1>1, <4>2, <4>3
    <3>2. BatchSize * b <= BatchSize * count
      <4>1. PICK k \in Nat : count = b + k
        <5>1. (count - b) \in Nat /\ count = b + (count - b)
          BY <1>1
        <5> QED
          BY <5>1
      <4>2. BatchSize * count = BatchSize * b + BatchSize * k /\ BatchSize * k \in Nat
        BY <1>1, <4>1
      <4> QED
        BY <1>1, <4>2
    <3>3. BatchSize * b \in Nat /\ BatchSize * count \in Nat
      BY <1>1
    <3> QED
      BY <1>1, <2>2, <3>2, <3>3
  <2>4. P # {}
    <3>1. PICK c \in S : Rank(S, c) = low
      BY <1>1, <2>2, <2>3, RankIsOnto DEF N
    <3>2. BatchSize * (BatchOf(S, c) - 1) <= low /\ low < BatchSize * BatchOf(S, c)
      BY <1>2, <3>1
    <3> DEFINE a == BatchOf(S, c)
    <3>3. a \in Nat \ {0}
      BY <1>2
    <3> HIDE DEF a
    <3>4. b - 1 < a
      BY <1>1, <3>2, <3>3, Cancel DEF a
    <3>5. BatchSize * (a - 1) < BatchSize * b
      BY <1>1, <2>2, <3>2, <3>3 DEF a
    <3>6. a - 1 < b
      BY <1>1, <3>3, <3>5, Cancel
    <3>7. a = b
      BY <3>3, <3>4, <3>6
    <3> QED
      BY <3>7 DEF Slice, a
  <2>5. rank \in Injection(P, I)
    <3>1. ASSUME NEW c \in P PROVE Rank(S, c) \in I
      <4>1. BatchOf(S, c) = b /\ c \in S
        BY DEF Slice
      <4>2. low <= Rank(S, c) /\ Rank(S, c) < BatchSize * b /\ Rank(S, c) \in Int
        BY <1>2, <4>1
      <4> QED
        BY <1>1, <2>2, <4>2
    <3>2. ASSUME NEW c \in P, NEW d \in P, Rank(S, c) = Rank(S, d) PROVE c = d
      <4>1. c \in S /\ d \in S
        BY DEF Slice
      <4>2. c \in Int /\ d \in Int /\ Rank(S, c) \in 0 .. (N - 1)
        BY <1>1, <1>2, <4>1
      <4>3. ~(Rank(S, c) < Rank(S, d)) /\ ~(Rank(S, d) < Rank(S, c))
        BY <1>1, <3>2, <4>2
      <4> QED
        BY <4>1, <4>2, <4>3, RankIsOrder
    <3> QED
      BY <3>1, <3>2 DEF Injection, IsInjective
  <2>6. IsFiniteSet(I) /\ Cardinality(I) = BatchSize
    <3>1. low \in Int /\ low + BatchSize - 1 \in Int
      BY <1>1, <2>2
    <3> QED
      BY <1>1, <2>2, <3>1, FS_Interval
  <2>7. Cardinality(P) <= BatchSize
    BY <2>5, <2>6, FS_Injection
  <2>8. Cardinality(P) # 0
    BY <2>1, <2>4, FS_EmptySet
  <2> QED
    BY <1>1, <2>1, <2>7, <2>8
<1>6. ASSUME NEW a \in 1 .. count, NEW b \in 1 .. count, a < b,
             NEW c \in Slice(S, a), NEW d \in Slice(S, b)
      PROVE  c < d
  <2>1. c \in S /\ d \in S /\ BatchOf(S, c) = a /\ BatchOf(S, d) = b
    BY DEF Slice
  <2>2. Rank(S, c) < BatchSize * a /\ BatchSize * (b - 1) <= Rank(S, d)
    BY <1>2, <2>1
  <2>3. BatchSize * a <= BatchSize * (b - 1)
    <3>1. PICK k \in Nat : b - 1 = a + k
      <4>1. (b - 1 - a) \in Nat /\ b - 1 = a + (b - 1 - a)
        BY <1>1, <1>6
      <4> QED
        BY <4>1
    <3>2. BatchSize * (b - 1) = BatchSize * a + BatchSize * k /\ BatchSize * k \in Nat
      BY <1>1, <3>1
    <3>3. BatchSize * a \in Nat
      BY <1>1
    <3> QED
      BY <3>2, <3>3
  <2>4. /\ Rank(S, c) \in Int /\ Rank(S, d) \in Int
        /\ BatchSize * a \in Int /\ BatchSize * (b - 1) \in Int
    <3>1. Rank(S, c) \in 0 .. (N - 1) /\ Rank(S, d) \in 0 .. (N - 1)
      BY <1>2, <2>1
    <3>2. a \in Int /\ b - 1 \in Int
      OBVIOUS
    <3> QED
      BY <1>1, <3>1, <3>2
  <2>5. Rank(S, c) < Rank(S, d)
    BY <2>2, <2>3, <2>4
  <2>6. c \in Int /\ d \in Int
    BY <1>1, <2>1
  <2> QED
    BY <2>1, <2>4, <2>5, <2>6, RankIsOrder
<1> QED
  BY <1>4, <1>5, <1>6 DEF count

-----------------------------------------------------------------------------
\* The type invariant holds initially.
LEMMA InitTypeInv == Init => TypeInv
BY CasesAssumption DEF Init, TypeInv, TypeOK, JobOK, Idle, Steps, Rows, BatchIds, Slots

\* select_packet_rows returns rows it was given.
LEMMA SelectFrom ==
    ASSUME NEW rows, NEW limit
    PROVE  Select(rows, limit) \subseteq rows
BY DEF Select

\* Merging answers into a file of answers.
LEMMA MergedType ==
    ASSUME NEW merged \in Rows, NEW rows, \A c \in DOMAIN rows : rows[c] \in Answer
    PROVE  Merged(merged, rows) \in Rows
BY DEF Merged, Rows

\* A slice has cases of its snapshot.
LEMMA SliceType ==
    ASSUME NEW S \in SUBSET Cases, NEW b PROVE Slice(S, b) \in SUBSET Cases
BY DEF Slice

\* What remains for later batches are cases.
LEMMA RemainingType ==
    ASSUME TypeInv, NEW role, NEW b \in BatchIds
    PROVE  Remaining(role, b) \in SUBSET Cases
BY DEF Remaining, TypeInv, TypeOK

\* What is offered are cases of the batch, if something remains.
LEMMA OfferedType ==
    ASSUME TypeInv, NEW role, NEW b \in BatchIds
    PROVE  /\ Remaining(role, b) \subseteq dir[b].cases
           /\ Offered(role, b) \subseteq dir[b].cases
           /\ Offered(role, b) \in SUBSET Cases
           /\ Remaining(role, b) = {} => Offered(role, b) = {}
<1>1. Remaining(role, b) \subseteq dir[b].cases
  BY DEF Remaining
<1>2. dir[b].cases \in SUBSET Cases
  BY DEF TypeInv, TypeOK
<1>3. Routed(Remaining(role, b)) \subseteq Remaining(role, b)
  BY DEF Routed
<1>4. Offered(role, b) \subseteq dir[b].cases
  BY <1>1, <1>3 DEF Offered
<1>5. Remaining(role, b) = {} => Offered(role, b) = {}
  BY <1>3 DEF Offered
<1> QED
  BY <1>1, <1>2, <1>4, <1>5

\* A nonempty set of numbers has a least one.
LEMMA LeastNumber ==
    ASSUME NEW T \in SUBSET Nat, T # {}
    PROVE  \E m \in T : \A k \in T : m <= k
<1>1. \E m \in T : \A k \in T : <<k, m>> \notin OpToRel(<, Nat)
  BY NatLessThanWellFounded, WFMin
<1>2. PICK m \in T : \A k \in T : <<k, m>> \notin OpToRel(<, Nat)
  BY <1>1
<1>3. \A k \in T : ~(k < m)
  BY <1>2 DEF OpToRel
<1>4. ASSUME NEW k \in T PROVE m <= k
  <2>1. k \in Int /\ m \in Int /\ ~(k < m)
    BY <1>3
  <2> QED
    BY <2>1
<1> QED
  BY <1>4

\* What a worker draws is a packet of cases of a listed batch, the first that
\* has work for the role.
Drawn(w, b, rows) ==
    /\ \A earlier \in Listed : earlier < b => Remaining(Role[w], earlier) = {}
    /\ rows = Select(Offered(Role[w], b), Limit(Role[w])) /\ rows # {}
    /\ rows \subseteq dir[b].cases
    /\ \E text \in [rows -> Answers(Role[w])] :
          packet' = [packet EXCEPT ![w] =
                       [batch |-> b,
                        rows |-> [c \in rows |->
                                    [by |-> Identity[w], text |-> text[c]]]]]

\* The packet of a Draw is such a one.
LEMMA DrawnPacket ==
    ASSUME TypeInv, NEW w \in Workers, Draw(w)
    PROVE  \E b \in Listed, rows \in SUBSET Cases : Drawn(w, b, rows)
<1> DEFINE open == Open(Role[w])
           b == First(open)
           left == Offered(Role[w], b)
           rows == Select(left, Limit(Role[w]))
<1>1. /\ open # {} /\ rows # {}
      /\ \E text \in [rows -> Answers(Role[w])] :
           packet' = [packet EXCEPT ![w] =
                        [batch |-> b,
                         rows |-> [c \in rows |->
                                     [by |-> Identity[w], text |-> text[c]]]]]
  <2>1. PICK bb \in {First(oo) : oo \in {Open(Role[w])} \ {{}}} :
          \E ll \in {Offered(Role[w], bb)} :
          \E rr \in {Select(ll, Limit(Role[w]))} \ {{}} :
          \E text \in [rr -> Answers(Role[w])] :
             packet' = [packet EXCEPT ![w] =
                          [batch |-> bb,
                           rows |-> [c \in rr |->
                                       [by |-> Identity[w], text |-> text[c]]]]]
    BY DEF Draw
  <2>2. bb = b /\ open # {}
    OBVIOUS
  <2>3. PICK ll \in {Offered(Role[w], bb)} :
          \E rr \in {Select(ll, Limit(Role[w]))} \ {{}} :
          \E text \in [rr -> Answers(Role[w])] :
             packet' = [packet EXCEPT ![w] =
                          [batch |-> bb,
                           rows |-> [c \in rr |->
                                       [by |-> Identity[w], text |-> text[c]]]]]
    BY <2>1
  <2>4. ll = left
    BY <2>2
  <2>5. PICK rr \in {Select(ll, Limit(Role[w]))} \ {{}} :
          \E text \in [rr -> Answers(Role[w])] :
             packet' = [packet EXCEPT ![w] =
                          [batch |-> bb,
                           rows |-> [c \in rr |->
                                       [by |-> Identity[w], text |-> text[c]]]]]
    BY <2>3
  <2>6. rr = rows
    BY <2>4
  <2>7. rr # {}
    OBVIOUS
  <2> HIDE DEF b, rows, open, left
  <2> QED
    BY <2>2, <2>5, <2>6, <2>7
<1> HIDE DEF rows, b
<1>2. b \in Listed /\ \A earlier \in open : b <= earlier
  <2>1. open \subseteq Listed /\ open # {}
    BY <1>1 DEF Open
  <2>2. Listed \subseteq Nat
    BY DEF Listed, Readable, TypeInv, TypeOK, BatchIds
  <2>3. \E m \in open : \A other \in open : m <= other
    BY <2>1, <2>2, LeastNumber
  <2> HIDE DEF open
  <2> QED
    BY <2>1, <2>3 DEF First, b
<1>3. b \in BatchIds
  BY <1>2 DEF Listed, Readable, TypeInv, TypeOK
<1>4. rows \subseteq dir[b].cases
  BY <1>3, SelectFrom, OfferedType DEF rows
<1>5. rows \in SUBSET Cases
  BY <1>3, <1>4 DEF TypeInv, TypeOK
<1>6. ASSUME NEW earlier \in Listed, earlier < b PROVE Remaining(Role[w], earlier) = {}
  <2>1. earlier \in Nat /\ b \in Nat
    BY <1>2 DEF Listed, Readable, TypeInv, TypeOK, BatchIds
  <2>2. earlier \notin open
    BY <1>2, <1>6, <2>1
  <2> QED
    BY <1>6, <2>2 DEF Open
<1>7. rows = Select(Offered(Role[w], b), Limit(Role[w]))
  BY DEF rows
<1> HIDE DEF open, left
<1>8. Drawn(w, b, rows)
  BY <1>1, <1>4, <1>6, <1>7 DEF Drawn
<1> QED
  BY <1>2, <1>5, <1>8

\* A maintainer without a command.
LEMMA IdleType ==
    /\ Idle \in [step : Steps, batch : Nat, snapshot : (SUBSET Cases) \union {None}]
    /\ Idle.step = "idle"
BY DEF Idle, Steps

\* The maintainer's steps keep the types.
LEMMA JobTypeInv ==
    ASSUME TypeInv,
           \/ Create \/ (\E snapshot \in Snapshots : Fill(snapshot)) \/ FillStep
           \/ StartFinalize \/ FinalizeStep \/ Kill
           \/ \E c \in Cases : Correct(c)
    PROVE  TypeInv'
<1> USE DEF TypeInv, TypeOK, JobOK, Steps, Goto, GotoBatch, reviews, stores, bounds
<1>0. /\ Idle \in [step : Steps, batch : Nat, snapshot : (SUBSET Cases) \union {None}]
      /\ Idle.step = "idle"
  BY IdleType
<1>1. CASE Create
  BY <1>1 DEF Create, Idle
<1>2. ASSUME NEW snapshot \in Snapshots, Fill(snapshot) PROVE TypeInv'
  <2>1. snapshot \in SUBSET Cases
    BY SnapshotAssumption
  <2> QED
    BY <1>2, <2>1 DEF Fill
<1>3. CASE MakeBatch
  <2>1. CASE job.batch > BatchCount(job.snapshot)
    BY <1>3, <2>1 DEF MakeBatch
  <2>2. CASE ~(job.batch > BatchCount(job.snapshot))
    <3>1. /\ job.snapshot \in Snapshots /\ job.snapshot \in SUBSET Cases
          /\ job.batch \in Nat \ {0}
      BY <1>3, SnapshotAssumption DEF MakeBatch
    <3>2. BatchCount(job.snapshot) \in 0 .. LastCase
      BY <3>1, BatchCountBounds
    <3>3. job.batch \in BatchIds
      BY <2>2, <3>1, <3>2, CasesAssumption DEF BatchIds
    <3>4. CASE dir[job.batch].stage # "absent"
      BY <1>0, <1>3, <2>2, <3>4 DEF MakeBatch
    <3>5. CASE dir[job.batch].stage = "absent"
      <4>1. /\ dir' = [dir EXCEPT ![job.batch].stage = "partial"]
            /\ job' = [job EXCEPT !.step = "write"]
            /\ UNCHANGED <<campaign, reviews, stores, bounds>>
        BY <1>3, <2>2, <3>5 DEF MakeBatch
      <4>2. PICK rows : rows = [BatchIds -> [stage : {"absent", "partial", "written"}, cases : SUBSET Cases]]
        OBVIOUS
      <4>3. dir \in rows /\ job \in [step : Steps, batch : Nat, snapshot : (SUBSET Cases) \union {None}]
        BY <4>2
      <4> HIDE DEF TypeInv, TypeOK, JobOK
      <4>4. dir' \in rows
        BY <3>3, <4>1, <4>2, <4>3
      <4>5. JobOK'
        BY <3>1, <3>3, <4>1, <4>3 DEF JobOK, Steps
      <4> QED
        BY <4>1, <4>2, <4>4, <4>5 DEF TypeInv, TypeOK
    <3> QED
      BY <3>4, <3>5
  <2> QED
    BY <2>1, <2>2
<1>4. CASE WriteBatch
  <2>1. Slice(job.snapshot, job.batch) \in SUBSET Cases
    BY <1>4, SliceType, SnapshotAssumption DEF WriteBatch
  <2>2. job.batch + 1 \in Nat /\ job.batch + 1 # 0
    BY <1>4
  <2> QED
    BY <1>4, <2>1, <2>2 DEF WriteBatch
<1>5. CASE ListBatches
  <2>1. campaign'.batches \in SUBSET BatchIds /\ campaign'.snapshot \in (SUBSET Cases) \union {None}
    <3>1. CASE job.snapshot = None
      <4>1. campaign' = [snapshot |-> job.snapshot, batches |-> {}]
        BY <1>5, <3>1 DEF ListBatches
      <4> QED
        BY <3>1, <4>1
    <3>2. CASE job.snapshot # None
      <4>1. BatchCount(job.snapshot) \in 0 .. LastCase
        BY <3>2, BatchCountBounds
      <4>2. 1 .. BatchCount(job.snapshot) \subseteq BatchIds
        BY <4>1, CasesAssumption DEF BatchIds
      <4> QED
        BY <1>5, <3>2, <4>2 DEF ListBatches
    <3> QED
      BY <3>1, <3>2
  <2> QED
    BY <1>0, <1>5, <2>1 DEF ListBatches, Idle
<1>6. CASE StartFinalize
  BY <1>6 DEF StartFinalize
<1>7. CASE Preflight
  <2>1. ASSUME job.batch \in Listed PROVE job.batch \in BatchIds
    BY <2>1 DEF Listed, Readable
  <2>2. job.batch + 1 \in Nat /\ job.batch + 1 # 0
    BY DEF Preflight
  <2>3. /\ job.step = "preflight"
        /\ UNCHANGED <<campaign, dir, reviews, stores, bounds>>
        /\ \/ job' = Idle
           \/ job' = [job EXCEPT !.step = "preflight", !.batch = job.batch + 1]
           \/ job.batch \in Listed /\ \E step \in {"pool", "corpus"} :
                                         job' = [job EXCEPT !.step = step]
    BY <1>7 DEF Preflight
  <2>4. CASE job' = Idle
    BY <1>0, <2>3, <2>4
  <2>5. CASE job' = [job EXCEPT !.step = "preflight", !.batch = job.batch + 1]
    BY <2>2, <2>3, <2>5
  <2>6. ASSUME job.batch \in Listed, NEW step \in {"pool", "corpus"},
               job' = [job EXCEPT !.step = step]
        PROVE  TypeInv'
    BY <2>1, <2>3, <2>6
  <2> QED
    BY <2>3, <2>4, <2>5, <2>6
<1>8. CASE WriteCorpus
  <2>1. Combined(job.batch) \in [Cases -> {None, "decided", "corrected"}]
    BY DEF Combined
  <2> QED
    BY <1>8, <2>1 DEF WriteCorpus
<1>9. CASE WriteSummary
  BY <1>9 DEF WriteSummary
<1>10. CASE WritePool
  BY <1>10 DEF WritePool, Decided
<1>11. CASE WriteMetadata
  BY <1>11 DEF WriteMetadata
<1>12. CASE WriteFinal
  <2>1. job.batch + 1 \in Nat
    OBVIOUS
  <2> QED
    BY <1>12, <2>1 DEF WriteFinal
<1>13. CASE Kill
  BY <1>0, <1>13 DEF Kill, Idle
<1>14. ASSUME NEW c \in Cases, Correct(c) PROVE TypeInv'
  BY <1>14 DEF Correct
<1> QED
  BY <1>1, <1>2, <1>3, <1>4, <1>5, <1>6, <1>7, <1>8, <1>9, <1>10, <1>11,
     <1>12, <1>13, <1>14 DEF FillStep, FinalizeStep

\* So do the steps of the workers, of review-check and of a repair.
LEMMA AnswerTypeInv ==
    ASSUME TypeInv,
           \/ \E w \in Workers : Draw(w) \/ MergeOwn(w) \/ MergeFirst(w)
           \/ \E b \in BatchIds : SaveCheck(b) \/ Repair(b)
    PROVE  TypeInv'
<1> USE DEF TypeInv, TypeOK, reviews, stores, bounds
<1>1. ASSUME NEW w \in Workers, Draw(w) PROVE TypeInv'
  <2>1. PICK b \in Listed, rows \in SUBSET Cases : Drawn(w, b, rows)
    BY <1>1, DrawnPacket
  <2>2. PICK text \in [rows -> Answers(Role[w])] :
           packet' = [packet EXCEPT ![w] =
                        [batch |-> b,
                         rows |-> [c \in rows |->
                                     [by |-> Identity[w], text |-> text[c]]]]]
    BY <2>1 DEF Drawn
  <2>3. b \in BatchIds
    BY DEF Listed, Readable
  <2>4. \A c \in rows : [by |-> Identity[w], text |-> text[c]] \in Answer
    BY <2>2 DEF Answer, Answers
  <2>5. packet'[w].batch = b /\ DOMAIN packet'[w].rows = rows
        /\ \A c \in rows : packet'[w].rows[c] = [by |-> Identity[w], text |-> text[c]]
    BY <2>2
  <2>6. \A v \in Workers \ {w} : packet'[v] = packet[v]
    BY <2>2
  <2>7. packet' = [v \in Workers |-> packet'[v]]
    BY <2>2
  <2>8. UNCHANGED <<campaign, dir, complete, checked, decisions, job, stores, bounds>>
    BY <1>1 DEF Draw
  <2>9. \A v \in Workers : packet'[v] # None =>
           /\ packet'[v].batch \in BatchIds
           /\ DOMAIN packet'[v].rows \subseteq Cases
           /\ \A c \in DOMAIN packet'[v].rows : packet'[v].rows[c] \in Answer
    <3>1. \A c \in DOMAIN packet'[w].rows : packet'[w].rows[c] \in Answer
      BY <2>4, <2>5
    <3> QED
      BY <2>3, <2>5, <2>6, <3>1
  <2> QED
    BY <2>7, <2>8, <2>9 DEF JobOK, Rows, Answer
<1>2. ASSUME NEW w \in Workers, NEW b, MergeInto(w, b) PROVE TypeInv'
  <2>1. b \in BatchIds /\ packet[w] # None
    BY <1>2 DEF MergeInto, Listed, Readable
  <2>2. CASE MergeReview(w, b)
    <3>1. Merged(complete[Role[w]], packet[w].rows) \in Rows
      BY <2>1, <2>2, MergedType DEF MergeReview
    <3> QED
      BY <1>2, <2>2, <3>1 DEF MergeInto, MergeReview, JobOK
  <2>3. CASE MergeDecisions(w, b)
    <3>1. Merged(decisions[b], packet[w].rows) \in Rows
      BY <2>1, <2>3, MergedType
    <3> QED
      BY <1>2, <2>3, <3>1 DEF MergeInto, MergeDecisions, JobOK
  <2> QED
    BY <1>2, <2>2, <2>3 DEF MergeInto
<1>3. ASSUME NEW b \in BatchIds, SaveCheck(b) PROVE TypeInv'
  BY <1>3 DEF SaveCheck, JobOK
<1>4. ASSUME NEW b \in BatchIds, Repair(b) PROVE TypeInv'
  <2> DEFINE rows == Select(Having(b, Broken), DecisionMax)
  <2>1. PICK text \in [rows -> Verdicts \ {Broken}],
             w \in {v \in Workers : Role[v] = "adjudicator"} :
              decisions' = [decisions EXCEPT ![b] =
                 [c \in Cases |-> IF c \in rows
                                    THEN [by |-> Identity[w], text |-> text[c]]
                                    ELSE @[c]]]
    BY <1>4 DEF Repair
  <2> HIDE DEF rows
  <2>2. [c \in Cases |-> IF c \in rows
                           THEN [by |-> Identity[w], text |-> text[c]]
                           ELSE decisions[b][c]] \in Rows
    BY <2>1 DEF Rows, Answer
  <2>3. PICK new : new = [c \in Cases |-> IF c \in rows
                                          THEN [by |-> Identity[w], text |-> text[c]]
                                          ELSE decisions[b][c]]
    OBVIOUS
  <2>4. new \in Rows /\ decisions' = [decisions EXCEPT ![b] = new]
    BY <2>1, <2>2, <2>3
  <2>5. UNCHANGED <<campaign, dir, complete, checked, packet, job, stores, bounds>>
    BY <1>4 DEF Repair
  <2> QED
    BY <2>4, <2>5 DEF JobOK
<1> QED
  BY <1>1, <1>2, <1>3, <1>4 DEF MergeOwn, MergeFirst

\* Every step keeps the type invariant.
LEMMA NextTypeInv == TypeInv /\ [Next]_vars => TypeInv'
<1>1. ASSUME TypeInv, UNCHANGED vars PROVE TypeInv'
  BY <1>1 DEF vars, reviews, stores, bounds, TypeInv, TypeOK, JobOK
<1> QED
  BY <1>1, JobTypeInv, AnswerTypeInv DEF Next

(***************************************************************************)
(* Every file of a campaign always holds what its writers put there, and   *)
(* every result is for the cases of one packet.                            *)
(***************************************************************************)
THEOREM TypeCorrect == Spec => []TypeOK
<1>1. TypeInv => TypeOK
  BY DEF TypeInv
<1> QED
  BY InitTypeInv, NextTypeInv, <1>1, PTL DEF Spec

-----------------------------------------------------------------------------
(***************************************************************************)
(* How the batches of a campaign come about.  While campaign-fill works    *)
(* the campaign lists none, and the directories behind the one it is at    *)
(* hold the slices of its snapshot; campaign.json is written after them,   *)
(* and no directory is made or written once it lists any.                  *)
(***************************************************************************)
HoldsSlice(snapshot, b) ==
    dir[b] = [stage |-> "written", cases |-> Slice(snapshot, b)]

Filling ==
    /\ job.step \in {"make", "write"} =>
         /\ Listed = {}
         /\ \A b \in BatchIds : b < job.batch => HoldsSlice(job.snapshot, b)
    /\ job.step = "list" =>
         /\ Listed = {}
         /\ job.snapshot # None =>
              \A b \in 1 .. BatchCount(job.snapshot) : HoldsSlice(job.snapshot, b)

Filled ==
    Listed # {} =>
        /\ campaign.snapshot \in SUBSET Cases
        /\ Listed = 1 .. BatchCount(campaign.snapshot)
        /\ \A b \in Listed : HoldsSlice(campaign.snapshot, b)

FillInv == TypeInv /\ Filling /\ Filled

(***************************************************************************)
(* What the gate of the adjudication rests on: only listed batches have    *)
(* reviews and decisions, the merged reviews of a batch are one            *)
(* reviewer's in each slot, and a batch that has decisions was Ready.      *)
(***************************************************************************)
MergedIsListed ==
    /\ \A slot \in Slots, c \in Cases :
          complete[slot][c] # None => \E b \in Listed : c \in dir[b].cases
    /\ \A b \in BatchIds : Decided(b) # {} => b \in Listed

OneReviewer ==
    \A slot \in Slots, b \in Listed :
        \A c, d \in Reviewed(slot, b) : complete[slot][c].by = complete[slot][d].by

DecidedIsReady == \A b \in BatchIds : Decided(b) # {} => Ready(b)

ReviewInv == FillInv /\ MergedIsListed /\ OneReviewer /\ DecidedIsReady

\* No batch is listed to begin with.
LEMMA InitFillInv == Init => FillInv
<1> SUFFICES ASSUME Init PROVE FillInv
  OBVIOUS
<1>1. Listed = {} /\ job.step = "idle"
  BY DEF Init, Listed, Readable, Idle
<1> QED
  BY <1>1, InitTypeInv DEF FillInv, Filling, Filled

\* While the maintainer is at another step the batches stay as they are.
LEMMA FillStill ==
    ASSUME FillInv, UNCHANGED <<campaign, dir>>,
           job'.step \in {"make", "write", "list"} => job' = job
    PROVE  Filling' /\ Filled'
BY DEF FillInv, Filling, Filled, HoldsSlice, Listed, Readable

\* Every step keeps the listed batches written.
LEMMA NextFillInv ==
    ASSUME FillInv, [Next]_vars
    PROVE  /\ FillInv'
           /\ Listed \subseteq Listed'
           /\ \A b \in Listed : dir'[b] = dir[b]
<1> DEFINE Goal == /\ Filling' /\ Filled'
                   /\ Listed \subseteq Listed'
                   /\ \A b \in Listed : dir'[b] = dir[b]
<1>0. SUFFICES Goal
  BY NextTypeInv DEF FillInv
<1> USE DEF FillInv, TypeInv, TypeOK, JobOK, Steps, Goto, GotoBatch
<1>1. CASE Create
  <2>1. campaign = None /\ Listed = {} /\ Listed' = {}
    BY <1>1 DEF Create, Listed, Readable
  <2>2. job'.step = "list" /\ job'.snapshot = None
    BY <1>1 DEF Create, Idle
  <2> QED
    BY <2>1, <2>2 DEF Filling, Filled
<1>2. ASSUME NEW snapshot \in Snapshots, Fill(snapshot) PROVE Goal
  <2>1. Listed = {} /\ Listed' = {}
    BY <1>2 DEF Fill, Listed, Readable
  <2>2. job'.step = "make" /\ job'.batch = 1
    BY <1>2 DEF Fill
  <2>3. \A b \in BatchIds : ~(b < 1)
    BY CasesAssumption DEF BatchIds
  <2> QED
    BY <2>1, <2>2, <2>3 DEF Filling, Filled
<1>3. CASE MakeBatch
  <2>1. /\ job.step = "make" /\ campaign' = campaign
        /\ Listed = {} /\ Listed' = {}
        /\ \A b \in BatchIds : b < job.batch => HoldsSlice(job.snapshot, b)
    BY <1>3 DEF MakeBatch, Filling, Listed, Readable
  <2>2. job.snapshot \in Snapshots /\ job.snapshot # None /\ job.snapshot \in SUBSET Cases
    BY <2>1, NoneAssumption, SnapshotAssumption
  <2>3. CASE job.batch > BatchCount(job.snapshot)
    <3>1. dir' = dir /\ job' = [job EXCEPT !.step = "list"]
      BY <1>3, <2>3 DEF MakeBatch
    <3>2. BatchCount(job.snapshot) \in 0 .. LastCase
      BY <2>2, BatchCountBounds
    <3>3. \A b \in 1 .. BatchCount(job.snapshot) : b \in BatchIds /\ b < job.batch
      BY <2>3, <3>2, CasesAssumption DEF BatchIds
    <3> QED
      BY <2>1, <2>2, <3>1, <3>3 DEF Filling, Filled, HoldsSlice
  <2>4. CASE ~(job.batch > BatchCount(job.snapshot)) /\ dir[job.batch].stage # "absent"
    <3>1. job' = Idle /\ dir' = dir
      BY <1>3, <2>4 DEF MakeBatch
    <3> QED
      BY <2>1, <3>1, IdleType DEF Filling, Filled
  <2>5. CASE ~(job.batch > BatchCount(job.snapshot)) /\ dir[job.batch].stage = "absent"
    <3>1. /\ dir' = [dir EXCEPT ![job.batch].stage = "partial"]
          /\ job' = [job EXCEPT !.step = "write"]
      BY <1>3, <2>5 DEF MakeBatch
    <3>2. \A b \in BatchIds : b < job.batch => dir'[b] = dir[b]
      BY <3>1, CasesAssumption DEF BatchIds
    <3> QED
      BY <2>1, <3>1, <3>2 DEF Filling, Filled, HoldsSlice
  <2> QED
    BY <2>3, <2>4, <2>5
<1>4. CASE WriteBatch
  <2>1. /\ job.step = "write" /\ campaign' = campaign
        /\ Listed = {} /\ Listed' = {}
        /\ \A b \in BatchIds : b < job.batch => HoldsSlice(job.snapshot, b)
    BY <1>4 DEF WriteBatch, Filling, Listed, Readable
  <2>2. /\ dir' = [dir EXCEPT ![job.batch] =
                     [stage |-> "written", cases |-> Slice(job.snapshot, job.batch)]]
        /\ job' = [job EXCEPT !.step = "make", !.batch = job.batch + 1]
    BY <1>4 DEF WriteBatch
  <2>3. ASSUME NEW b \in BatchIds, b < job.batch + 1 PROVE HoldsSlice(job.snapshot, b)'
    <3>1. b < job.batch \/ b = job.batch
      BY <2>3, CasesAssumption DEF BatchIds
    <3>2. CASE b = job.batch
      BY <2>2, <3>2 DEF HoldsSlice, Slice, BatchOf
    <3>3. CASE b < job.batch
      BY <2>1, <2>2, <3>3, CasesAssumption DEF HoldsSlice, BatchIds, Slice, BatchOf
    <3> QED
      BY <3>1, <3>2, <3>3
  <2> QED
    BY <2>1, <2>2, <2>3 DEF Filling, Filled, HoldsSlice
<1>5. CASE ListBatches
  <2>1. /\ job.step = "list" /\ Listed = {}
        /\ campaign' = [snapshot |-> job.snapshot,
                        batches |-> IF job.snapshot = None THEN {}
                                    ELSE 1 .. BatchCount(job.snapshot)]
        /\ job' = Idle /\ dir' = dir
    BY <1>5 DEF ListBatches, Filling
  <2>2. Filling'
    BY <2>1, IdleType DEF Filling
  <2>3. Filled'
    <3>1. SUFFICES ASSUME Listed' # {} PROVE Filled'
      BY DEF Filled
    <3>2. job.snapshot # None
      BY <2>1, <3>1 DEF Listed, Readable
    <3>3. /\ Listed' = 1 .. BatchCount(job.snapshot)
          /\ campaign'.snapshot = job.snapshot
      BY <2>1, <3>1, <3>2 DEF Listed, Readable
    <3>4. \A b \in 1 .. BatchCount(job.snapshot) : HoldsSlice(job.snapshot, b)
      BY <2>1, <3>2 DEF Filling
    <3> QED
      BY <2>1, <3>2, <3>3, <3>4 DEF Filled, HoldsSlice
  <2> QED
    BY <2>1, <2>2, <2>3
<1>6. CASE Kill
  <2>1. job' = Idle /\ dir' = dir
    BY <1>6 DEF Kill, reviews, stores, bounds
  <2>2. CASE job.step = "list"
    <3>1. Listed = {} /\ campaign' \in {campaign, Torn}
      BY <1>6, <2>2 DEF Kill, Filling
    <3>2. Listed' = {}
      BY <3>1 DEF Listed, Readable
    <3> QED
      BY <2>1, <3>1, <3>2, IdleType DEF Filling, Filled
  <2>3. CASE job.step # "list"
    <3>1. campaign' = campaign
      BY <1>6, <2>3 DEF Kill
    <3> QED
      BY <2>1, <3>1, FillStill, IdleType DEF Listed, Readable
  <2> QED
    BY <2>2, <2>3
<1>7. ASSUME UNCHANGED <<campaign, dir>>,
             job'.step \in {"make", "write", "list"} => job' = job
      PROVE  Goal
  BY <1>7, FillStill DEF Listed, Readable
<1>8. CASE StartFinalize
  BY <1>7, <1>8 DEF StartFinalize
<1>9. CASE FinalizeStep
  BY <1>7, <1>9, IdleType DEF FinalizeStep, Preflight, WriteCorpus, WriteSummary,
     WritePool, WriteMetadata, WriteFinal
<1>10. ASSUME NEW w \in Workers, Draw(w) \/ MergeOwn(w) \/ MergeFirst(w) PROVE Goal
  BY <1>7, <1>10 DEF Draw, MergeOwn, MergeFirst, MergeInto
<1>11. ASSUME NEW b \in BatchIds, SaveCheck(b) \/ Repair(b) PROVE Goal
  BY <1>7, <1>11 DEF SaveCheck, Repair
<1>12. ASSUME NEW c \in Cases, Correct(c) PROVE Goal
  BY <1>7, <1>12 DEF Correct
<1>13. CASE UNCHANGED vars
  BY <1>7, <1>13 DEF vars
<1> QED
  BY <1>1, <1>2, <1>3, <1>4, <1>5, <1>6, <1>8, <1>9, <1>10, <1>11,
     <1>12, <1>13 DEF Next, FillStep

(***************************************************************************)
(* Whatever campaign-fill was killed at and whatever it was run with, the  *)
(* batches that campaign.json lists are written and share out the cases    *)
(* of its snapshot, in order, none of them empty or above batch_size.      *)
(***************************************************************************)
THEOREM ListedBatchesAreWritten == Spec => []ListedIsWritten
<1>1. ASSUME FillInv PROVE ListedIsWritten
  <2>1. SUFFICES ASSUME Listed # {} PROVE ListedIsWritten
    BY DEF ListedIsWritten
  <2>2. /\ campaign.snapshot \in SUBSET Cases
        /\ Listed = 1 .. BatchCount(campaign.snapshot)
        /\ \A b \in Listed : HoldsSlice(campaign.snapshot, b)
    BY <1>1, <2>1 DEF FillInv, Filled
  <2>3. \A b \in Listed : /\ dir[b].stage = "written"
                           /\ dir[b].cases = Slice(campaign.snapshot, b)
    <3>1. ASSUME NEW b \in Listed
          PROVE  dir[b].stage = "written" /\ dir[b].cases = Slice(campaign.snapshot, b)
      <4>1. dir[b] = [stage |-> "written", cases |-> Slice(campaign.snapshot, b)]
        BY <2>2 DEF HoldsSlice
      <4> QED
        BY <4>1
    <3> QED
      BY <3>1
  <2>4. {dir[b].cases : b \in Listed} =
          {Slice(campaign.snapshot, b) : b \in 1 .. BatchCount(campaign.snapshot)}
    BY <2>2, <2>3
  <2> QED
    BY <2>2, <2>3, <2>4, SlicesShareOut DEF ListedIsWritten
<1>2. FillInv /\ [Next]_vars => FillInv'
  BY NextFillInv
<1> QED
  BY InitFillInv, <1>1, <1>2, PTL DEF Spec

-----------------------------------------------------------------------------
\* A set of one author at most has only one.
LEMMA AtMostOne ==
    ASSUME NEW S, IsFiniteSet(S), Cardinality(S) <= 1, NEW x \in S, NEW y \in S
    PROVE  x = y
<1> SUFFICES ASSUME x # y PROVE FALSE
  OBVIOUS
<1>1. IsFiniteSet({x}) /\ Cardinality({x}) = 1
  BY FS_Singleton
<1>2. Cardinality({x} \union {y}) = 2
  <2>1. y \notin {x}
    OBVIOUS
  <2>2. Cardinality({x} \union {y}) = Cardinality({x}) + 1
    BY <1>1, <2>1, FS_AddElement
  <2> QED
    BY <1>1, <2>2
<1>3. Cardinality({x} \union {y}) <= Cardinality(S) /\ Cardinality(S) \in Nat
  BY FS_Subset, FS_CardinalityType
<1> QED
  BY <1>2, <1>3

\* The authors of a batch can be counted.
LEMMA AuthorsFinite ==
    ASSUME NEW D \in SUBSET Cases, NEW rows
    PROVE  IsFiniteSet({rows[c].by : c \in D})
<1> DEFINE author == [c \in D |-> rows[c].by]
<1>1. IsFiniteSet(D)
  BY CasesFinite
<1>2. author \in Surjection(D, {rows[c].by : c \in D})
  BY DEF Surjection
<1> QED
  BY <1>1, <1>2, FS_Surjection

\* Two rows that are there after a merge have the same author.
LEMMA SameAuthor ==
    ASSUME NEW merged, NEW rows, NEW cases \in SUBSET Cases,
           DOMAIN rows \in SUBSET Cases, OneAuthor(merged, rows, cases),
           NEW c \in cases, NEW d \in cases,
           merged[c] # None \/ c \in DOMAIN rows,
           merged[d] # None \/ d \in DOMAIN rows
    PROVE  (IF c \in DOMAIN rows THEN rows[c] ELSE merged[c]).by
             = (IF d \in DOMAIN rows THEN rows[d] ELSE merged[d]).by
<1> DEFINE old == {merged[e].by : e \in {f \in cases : merged[f] # None}}
           new == {rows[e].by : e \in DOMAIN rows}
<1>1. IsFiniteSet(old \union new) /\ Cardinality(old \union new) <= 1
  <2>1. IsFiniteSet(old) /\ IsFiniteSet(new)
    BY AuthorsFinite
  <2> QED
    BY <2>1, FS_Union DEF OneAuthor
<1>2. (IF c \in DOMAIN rows THEN rows[c] ELSE merged[c]).by \in old \union new
  OBVIOUS
<1>3. (IF d \in DOMAIN rows THEN rows[d] ELSE merged[d]).by \in old \union new
  OBVIOUS
<1> HIDE DEF old, new
<1> QED
  BY <1>1, <1>2, <1>3, AtMostOne

\* A merge only fills rows that are empty.
LEMMA MergedKeeps ==
    ASSUME NEW merged \in Rows, NEW rows, DOMAIN rows \in SUBSET Cases,
           Agrees(merged, rows), NEW c \in Cases
    PROVE  /\ merged[c] # None => Merged(merged, rows)[c] = merged[c]
           /\ Merged(merged, rows)[c] # None => merged[c] # None \/ c \in DOMAIN rows
           /\ Merged(merged, rows)[c] = IF c \in DOMAIN rows THEN rows[c] ELSE merged[c]
BY DEF Merged, Agrees

\* A step that leaves the reviews and the decisions alone keeps ReviewInv.
LEMMA ReviewsStill ==
    ASSUME ReviewInv, [Next]_vars, UNCHANGED <<complete, decisions>>
    PROVE  ReviewInv'
<1>1. FillInv' /\ Listed \subseteq Listed' /\ \A b \in Listed : dir'[b] = dir[b]
  BY NextFillInv DEF ReviewInv
<1>2. MergedIsListed'
  BY <1>1 DEF ReviewInv, MergedIsListed, Decided
<1>3. OneReviewer'
  <2>1. SUFFICES ASSUME NEW slot \in Slots, NEW b \in Listed',
                        NEW c \in dir'[b].cases, NEW d \in dir'[b].cases,
                        complete[slot][c] # None, complete[slot][d] # None
                 PROVE  complete[slot][c].by = complete[slot][d].by
    BY DEF OneReviewer, Reviewed
  <2>2. Listed' \subseteq BatchIds /\ dir' \in [BatchIds -> [stage : {"absent", "partial", "written"}, cases : SUBSET Cases]]
    BY <1>1 DEF FillInv, TypeInv, TypeOK, Listed, Readable
  <2>3. c \in Cases /\ d \in Cases
    BY <2>1, <2>2
  <2>4. PICK a \in Listed : c \in dir[a].cases
    BY <2>1, <2>3 DEF ReviewInv, MergedIsListed
  <2>5. PICK e \in Listed : d \in dir[e].cases
    BY <2>1, <2>3 DEF ReviewInv, MergedIsListed
  <2>6. \A x \in Listed' : \A f \in dir'[x].cases : BatchOf(campaign'.snapshot, f) = x
    <3>1. ASSUME NEW x \in Listed', NEW f \in dir'[x].cases
          PROVE  BatchOf(campaign'.snapshot, f) = x
      <4>1. dir'[x] = [stage |-> "written", cases |-> Slice(campaign'.snapshot, x)]
        BY <1>1 DEF FillInv, Filled, HoldsSlice, Slice, BatchOf
      <4> QED
        BY <4>1 DEF Slice
    <3> QED
      BY <3>1
  <2>7. a = b /\ e = b
    BY <1>1, <2>1, <2>4, <2>5, <2>6
  <2> QED
    BY <2>1, <2>4, <2>5, <2>7 DEF ReviewInv, OneReviewer, Reviewed
<1>4. DecidedIsReady'
  <2>1. SUFFICES ASSUME NEW b \in BatchIds, Decided(b) # {} PROVE Ready(b)'
    BY DEF DecidedIsReady, Decided, BatchIds
  <2>2. b \in Listed /\ Ready(b)
    BY <2>1 DEF ReviewInv, MergedIsListed, DecidedIsReady
  <2>3. dir'[b] = dir[b]
    BY <1>1, <2>2
  <2> QED
    BY <2>2, <2>3 DEF Ready, Reviewed, ReviewersOf
<1> QED
  BY <1>1, <1>2, <1>3, <1>4 DEF ReviewInv

\* Listed batches have no case in common.
LEMMA ListedDisjoint ==
    ASSUME FillInv, NEW a \in Listed, NEW b \in Listed, NEW c \in dir[a].cases,
           c \in dir[b].cases
    PROVE  a = b
<1>1. ASSUME NEW x \in Listed, c \in dir[x].cases
      PROVE  BatchOf(campaign.snapshot, c) = x
  <2>1. dir[x] = [stage |-> "written", cases |-> Slice(campaign.snapshot, x)]
    BY DEF FillInv, Filled, HoldsSlice
  <2> QED
    BY <1>1, <2>1 DEF Slice
<1> QED
  BY <1>1

\* A merged review is its author's, and the only one of its slot.
LEMMA MergeReviewInv ==
    ASSUME ReviewInv, [Next]_vars, NEW w \in Workers, NEW b \in Listed,
           MergeInto(w, b), MergeReview(w, b)
    PROVE  ReviewInv'
<1> DEFINE slot == Role[w]
           rows == packet[w].rows
<1>1. /\ slot \in Slots /\ DOMAIN rows \subseteq dir[b].cases
      /\ Agrees(complete[slot], rows)
      /\ OneAuthor(complete[slot], rows, dir[b].cases)
      /\ complete' = [complete EXCEPT ![slot] = Merged(@, rows)]
      /\ UNCHANGED <<campaign, dir, decisions>>
  BY DEF MergeReview, MergeInto
<1>2. /\ FillInv' /\ FillInv /\ Listed' = Listed /\ Listed \subseteq BatchIds
      /\ dir[b].cases \in SUBSET Cases
      /\ \A s \in Slots : complete[s] \in Rows
      /\ complete \in [Slots -> Rows]
  BY <1>1, NextFillInv DEF ReviewInv, FillInv, TypeInv, TypeOK, Listed, Readable
<1> HIDE DEF slot, rows
<1>3. ASSUME NEW s \in Slots, NEW c \in Cases
      PROVE  /\ complete[s][c] # None => complete'[s][c] = complete[s][c]
             /\ complete'[s][c] # None =>
                  complete[s][c] # None \/ (s = slot /\ c \in DOMAIN rows)
             /\ s # slot => complete'[s][c] = complete[s][c]
             /\ s = slot => complete'[s][c] = IF c \in DOMAIN rows THEN rows[c]
                                                                  ELSE complete[s][c]
  <2>1. CASE s = slot
    <3>1. complete'[s] = Merged(complete[s], rows)
      BY <1>1, <1>2, <2>1
    <3> QED
      BY <1>1, <1>2, <2>1, <3>1, MergedKeeps
  <2>2. CASE s # slot
    BY <1>1, <1>2, <2>2
  <2> QED
    BY <2>1, <2>2
<1>4. MergedIsListed'
  BY <1>1, <1>2, <1>3 DEF ReviewInv, MergedIsListed, Decided
<1>5. OneReviewer'
  <2>1. SUFFICES ASSUME NEW s \in Slots, NEW a \in Listed,
                        NEW c \in dir[a].cases, NEW d \in dir[a].cases,
                        complete'[s][c] # None, complete'[s][d] # None
                 PROVE  complete'[s][c].by = complete'[s][d].by
    BY <1>1, <1>2 DEF OneReviewer, Reviewed
  <2>2. c \in Cases /\ d \in Cases
    BY <1>2 DEF FillInv, TypeInv, TypeOK
  <2>3. CASE s = slot /\ a = b
    BY <1>1, <1>2, <1>3, <2>1, <2>2, <2>3, SameAuthor
  <2>4. CASE ~(s = slot /\ a = b)
    <3>1. s = slot => c \notin DOMAIN rows /\ d \notin DOMAIN rows
      BY <1>1, <1>2, <2>1, <2>4, ListedDisjoint
    <3>2. complete'[s][c] = complete[s][c] /\ complete'[s][d] = complete[s][d]
      BY <1>3, <2>2, <3>1
    <3> QED
      BY <2>1, <3>2 DEF ReviewInv, OneReviewer, Reviewed
  <2> QED
    BY <2>3, <2>4
<1>6. DecidedIsReady'
  <2>1. SUFFICES ASSUME NEW a \in BatchIds, Decided(a) # {} PROVE Ready(a)'
    BY <1>1 DEF DecidedIsReady, Decided
  <2>2. Ready(a) /\ dir[a].cases \in SUBSET Cases
    BY <2>1 DEF ReviewInv, DecidedIsReady, FillInv, TypeInv, TypeOK
  <2>3. \A s \in Slots, c \in dir[a].cases : complete[s][c] # None
    BY <2>2 DEF Ready, Reviewed
  <2>4. \A s \in Slots, c \in dir[a].cases : complete'[s][c] = complete[s][c]
    BY <1>3, <2>2, <2>3
  <2>5. \A s \in Slots : Reviewed(s, a)' = Reviewed(s, a) /\ ReviewersOf(s, a)' = ReviewersOf(s, a)
    BY <1>1, <2>4 DEF Reviewed, ReviewersOf
  <2> QED
    BY <1>1, <2>2, <2>5 DEF Ready, Slots
<1> QED
  BY <1>2, <1>4, <1>5, <1>6 DEF ReviewInv

\* A step that leaves the reviews and the batches alone, and makes decisions
\* for batches that are ready.
LEMMA DecisionsInv ==
    ASSUME ReviewInv, [Next]_vars, UNCHANGED <<campaign, dir, complete>>,
           NEW b \in Listed, Ready(b),
           \A a \in BatchIds \ {b} : decisions'[a] = decisions[a]
    PROVE  ReviewInv'
<1>1. FillInv' /\ Listed' = Listed /\ Listed \subseteq BatchIds
  BY NextFillInv DEF ReviewInv, FillInv, TypeInv, TypeOK, Listed, Readable
<1>2. \A a \in BatchIds : Ready(a)' = Ready(a)
  BY DEF Ready, Reviewed, ReviewersOf
<1>3. \A a \in BatchIds \ {b} : Decided(a)' = Decided(a)
  BY DEF Decided
<1>4. MergedIsListed'
  BY <1>1, <1>3 DEF ReviewInv, MergedIsListed
<1>5. OneReviewer'
  BY <1>1 DEF ReviewInv, OneReviewer, Reviewed
<1>6. DecidedIsReady'
  BY <1>1, <1>2, <1>3 DEF ReviewInv, DecidedIsReady
<1> QED
  BY <1>1, <1>4, <1>5, <1>6 DEF ReviewInv

\* There are no reviews to begin with.
LEMMA InitReviewInv == Init => ReviewInv
<1> SUFFICES ASSUME Init PROVE ReviewInv
  OBVIOUS
<1>1. \A b \in BatchIds : Decided(b) = {}
  BY DEF Init, Decided
<1>2. Listed = {}
  BY DEF Init, Listed, Readable
<1> QED
  BY <1>1, <1>2, InitFillInv DEF Init, ReviewInv, MergedIsListed, OneReviewer,
     DecidedIsReady

\* Every step keeps the reviews apart.
LEMMA NextReviewInv == ReviewInv /\ [Next]_vars => ReviewInv'
<1> SUFFICES ASSUME ReviewInv, [Next]_vars PROVE ReviewInv'
  OBVIOUS
<1>1. ASSUME NEW w \in Workers, NEW b, MergeInto(w, b) PROVE ReviewInv'
  <2>1. b \in Listed /\ UNCHANGED <<campaign, dir>>
    BY <1>1 DEF MergeInto
  <2>2. CASE MergeReview(w, b)
    BY <1>1, <2>1, <2>2, MergeReviewInv
  <2>3. CASE MergeDecisions(w, b)
    <3>1. /\ Ready(b) /\ complete' = complete
          /\ \A a \in BatchIds \ {b} : decisions'[a] = decisions[a]
      BY <2>3 DEF MergeDecisions, ReviewInv, FillInv, TypeInv, TypeOK
    <3> QED
      BY <2>1, <3>1, DecisionsInv
  <2> QED
    BY <1>1, <2>2, <2>3 DEF MergeInto
<1>2. ASSUME NEW b \in BatchIds, Repair(b) PROVE ReviewInv'
  <2>1. /\ b \in Listed /\ UNCHANGED <<campaign, dir, complete>>
        /\ Select(Having(b, Broken), DecisionMax) # {}
        /\ \A a \in BatchIds \ {b} : decisions'[a] = decisions[a]
    BY <1>2 DEF Repair, ReviewInv, FillInv, TypeInv, TypeOK
  <2>2. Decided(b) # {}
    BY <2>1, SelectFrom DEF Having
  <2>3. Ready(b)
    BY <2>2 DEF ReviewInv, DecidedIsReady
  <2> QED
    BY <2>1, <2>3, DecisionsInv
<1>3. ASSUME UNCHANGED <<complete, decisions>> PROVE ReviewInv'
  BY <1>3, ReviewsStill
<1>4. CASE Create \/ (\E snapshot \in Snapshots : Fill(snapshot)) \/ FillStep
  BY <1>3, <1>4 DEF Create, Fill, FillStep, MakeBatch, WriteBatch, ListBatches, reviews
<1>5. CASE StartFinalize \/ FinalizeStep \/ Kill
  BY <1>3, <1>5 DEF StartFinalize, FinalizeStep, Preflight, WriteCorpus, WriteSummary,
     WritePool, WriteMetadata, WriteFinal, Kill, reviews
<1>6. CASE \E c \in Cases : Correct(c)
  BY <1>3, <1>6 DEF Correct, reviews
<1>7. CASE \E w \in Workers : Draw(w)
  BY <1>3, <1>7 DEF Draw
<1>8. CASE \E b \in BatchIds : SaveCheck(b)
  BY <1>3, <1>8 DEF SaveCheck
<1>9. CASE UNCHANGED vars
  BY <1>3, <1>9 DEF vars, reviews
<1> QED
  BY <1>1, <1>2, <1>4, <1>5, <1>6, <1>7, <1>8, <1>9 DEF Next, MergeOwn, MergeFirst

\* Reviews that are kept apart are independent.
LEMMA ReviewInvImpliesIndependent == ReviewInv => Independent
<1> SUFFICES ASSUME ReviewInv, NEW b \in BatchIds, Decided(b) # {}
             PROVE  /\ \A slot \in Slots :
                          /\ Reviewed(slot, b) = dir[b].cases
                          /\ Cardinality(ReviewersOf(slot, b)) = 1
                    /\ ReviewersOf("A", b) # ReviewersOf("B", b)
  BY DEF Independent
<1>1. Ready(b) /\ b \in Listed
  BY DEF ReviewInv, DecidedIsReady, MergedIsListed
<1>2. PICK c : c \in dir[b].cases
  BY <1>1 DEF Ready, ReviewersOf, Slots
<1>3. ASSUME NEW slot \in Slots PROVE Cardinality(ReviewersOf(slot, b)) = 1
  <2>1. c \in Reviewed(slot, b)
    BY <1>1, <1>2 DEF Ready
  <2>2. ReviewersOf(slot, b) = {complete[slot][c].by}
    BY <1>1, <2>1 DEF ReviewInv, OneReviewer, ReviewersOf
  <2> QED
    BY <2>2, FS_Singleton
<1> QED
  BY <1>1, <1>3 DEF Ready

(***************************************************************************)
(* No batch is ever adjudicated that does not have two complete reviews,   *)
(* each by one reviewer and not by the same: whoever draws and merges      *)
(* packets, in whichever order, under whichever identities and into        *)
(* whichever batch, and whatever the saved checks say.                     *)
(***************************************************************************)
THEOREM ReviewsAreIndependent == Spec => []Independent
BY InitReviewInv, NextReviewInv, ReviewInvImpliesIndependent, PTL DEF Spec

(***************************************************************************)
(* What was merged stays as it is; only a decision that does not validate  *)
(* is ever replaced.                                                       *)
(***************************************************************************)
THEOREM MergedAnswersAreKept == Spec => AnswersKept
<1> DEFINE A ==
      /\ \A slot \in Slots, c \in Cases :
            complete[slot][c] # None => complete'[slot][c] = complete[slot][c]
      /\ \A b \in BatchIds : \A c \in Decided(b) :
            \/ decisions'[b][c] = decisions[b][c]
            \/ decisions[b][c].text = Broken /\ decisions'[b][c] # None
<1>1. ASSUME TypeInv, Next PROVE A
  <2> USE DEF TypeInv, TypeOK
  <2>1. ASSUME NEW w \in Workers, NEW b, MergeInto(w, b) PROVE A
    <3>1. /\ b \in BatchIds /\ DOMAIN packet[w].rows \in SUBSET Cases
      BY <1>1, <2>1 DEF MergeInto, Listed, Readable
    <3>2. CASE MergeReview(w, b)
      BY <1>1, <3>1, <3>2, MergedKeeps DEF MergeReview
    <3>3. CASE MergeDecisions(w, b)
      <4>1. ASSUME NEW c \in Decided(b) PROVE decisions'[b][c] = decisions[b][c]
        <5>1. /\ Agrees(decisions[b], packet[w].rows) /\ decisions[b] \in Rows
              /\ decisions'[b] = Merged(decisions[b], packet[w].rows)
          BY <1>1, <3>1, <3>3 DEF MergeDecisions
        <5> QED
          BY <3>1, <5>1, MergedKeeps DEF Decided
      <4>2. \A a \in BatchIds \ {b} : decisions'[a] = decisions[a]
        BY <1>1, <3>3 DEF MergeDecisions
      <4> QED
        BY <3>3, <4>1, <4>2 DEF MergeDecisions
    <3> QED
      BY <2>1, <3>2, <3>3 DEF MergeInto
  <2>2. ASSUME NEW b \in BatchIds, Repair(b) PROVE A
    <3> DEFINE rows == Select(Having(b, Broken), DecisionMax)
    <3>1. PICK text \in [rows -> Verdicts \ {Broken}],
               w \in {v \in Workers : Role[v] = "adjudicator"} :
                decisions' = [decisions EXCEPT ![b] =
                   [c \in Cases |-> IF c \in rows
                                      THEN [by |-> Identity[w], text |-> text[c]]
                                      ELSE @[c]]]
      BY <2>2 DEF Repair
    <3>2. rows \subseteq Having(b, Broken)
      BY SelectFrom
    <3> HIDE DEF rows
    <3>3. ASSUME NEW c \in Decided(b)
          PROVE  \/ decisions'[b][c] = decisions[b][c]
                 \/ decisions[b][c].text = Broken /\ decisions'[b][c] # None
      <4>1. CASE c \in rows
        <5>1. decisions'[b][c] = [by |-> Identity[w], text |-> text[c]]
          BY <1>1, <3>1, <4>1 DEF Decided
        <5>2. [by |-> Identity[w], text |-> text[c]]
                \in [by : {Identity[v] : v \in Workers}, text : Texts \union Verdicts]
          BY <3>1, <4>1
        <5> QED
          BY <3>2, <4>1, <5>1, <5>2, NoneAssumption DEF Having
      <4>2. CASE c \notin rows
        BY <1>1, <3>1, <4>2 DEF Decided
      <4> QED
        BY <4>1, <4>2
    <3> QED
      BY <1>1, <2>2, <3>1, <3>3 DEF Repair
  <2>3. ASSUME UNCHANGED <<complete, decisions>> PROVE A
    BY <2>3
  <2>4. CASE Create \/ (\E snapshot \in Snapshots : Fill(snapshot)) \/ FillStep
    BY <2>3, <2>4 DEF Create, Fill, FillStep, MakeBatch, WriteBatch, ListBatches, reviews
  <2>5. CASE StartFinalize \/ FinalizeStep \/ Kill
    BY <2>3, <2>5 DEF StartFinalize, FinalizeStep, Preflight, WriteCorpus, WriteSummary,
       WritePool, WriteMetadata, WriteFinal, Kill, reviews
  <2>6. CASE \E c \in Cases : Correct(c)
    BY <2>3, <2>6 DEF Correct, reviews
  <2>7. CASE \E w \in Workers : Draw(w)
    BY <2>3, <2>7 DEF Draw
  <2>8. CASE \E b \in BatchIds : SaveCheck(b)
    BY <2>3, <2>8 DEF SaveCheck
  <2> QED
    BY <1>1, <2>1, <2>2, <2>4, <2>5, <2>6, <2>7, <2>8 DEF Next, MergeOwn, MergeFirst
<1>2. TypeInv /\ [Next]_vars => [A]_vars
  BY <1>1
<1> HIDE DEF A
<1>3. Spec => [][A]_vars
  BY InitTypeInv, NextTypeInv, <1>2, PTL DEF Spec
<1> QED
  BY <1>3 DEF AnswersKept, A

-----------------------------------------------------------------------------
(***************************************************************************)
(* Finalizing.  Once a batch has passed batch_preflight its decisions do   *)
(* not change any more, as long as the adjudicators' results are merged    *)
(* into the batch they were drawn for: merge_adjudication_rows does not    *)
(* look at whose rows they are, so a result that goes to the first batch   *)
(* for want of --batch-id could decide cases that the batch has not got.   *)
(***************************************************************************)
OwnBatch == \A w \in Defaulting : Role[w] # "adjudicator"

Settled(b) ==
    b \in Listed /\ Decided(b) = dir[b].cases /\ Having(b, Broken) = {}

InCorpus(b) == \A c \in Having(b, "accept") : gold[c] # None

PacketsOwn ==
    \A w \in Workers : Role[w] = "adjudicator" /\ packet[w] # None =>
        /\ packet[w].batch \in Listed
        /\ DOMAIN packet[w].rows \subseteq dir[packet[w].batch].cases

Finalizing ==
    /\ job.step \in {"corpus", "summary", "pool", "metadata", "seal"} =>
         Settled(job.batch)
    /\ job.step \in {"summary", "pool", "metadata", "seal"} => InCorpus(job.batch)

Finalized ==
    \A b \in BatchIds : state[b] = "finalized" \/ summary[b] # None =>
        Settled(b) /\ InCorpus(b)

FinalInv == ReviewInv /\ PacketsOwn /\ Finalizing /\ Finalized

\* Nothing is finalized to begin with.
LEMMA InitFinalInv == Init => FinalInv
<1> SUFFICES ASSUME Init PROVE FinalInv
  OBVIOUS
<1>1. PacketsOwn
  BY DEF Init, PacketsOwn
<1>2. Finalizing
  BY IdleType DEF Init, Finalizing
<1>3. Finalized
  BY NoneAssumption DEF Init, Finalized
<1> QED
  BY <1>1, <1>2, <1>3, InitReviewInv DEF FinalInv

\* The batches stay, and so do the decisions of a settled one.
LEMMA SettledStays ==
    ASSUME OwnBatch, FinalInv, [Next]_vars, NEW b \in BatchIds, Settled(b)
    PROVE  /\ Settled(b)'
           /\ decisions'[b] = decisions[b]
           /\ dir'[b] = dir[b]
<1> USE DEF TypeInv, TypeOK
<1>1. TypeInv /\ FillInv
  BY DEF FinalInv, ReviewInv, FillInv
<1>2. b \in Listed' /\ dir'[b] = dir[b]
  BY <1>1, NextFillInv DEF Settled
<1>3. decisions'[b] = decisions[b]
  <2>1. ASSUME NEW w \in Workers, NEW a, MergeInto(w, a),
               Role[w] = "adjudicator" => a = packet[w].batch
        PROVE  decisions'[b] = decisions[b]
    <3>1. CASE MergeReview(w, a)
      BY <3>1 DEF MergeReview
    <3>2. CASE MergeDecisions(w, a) /\ a # b
      BY <1>1, <3>2 DEF MergeDecisions
    <3>3. CASE MergeDecisions(w, a) /\ a = b
      <4>1. /\ Agrees(decisions[b], packet[w].rows)
            /\ decisions'[b] = Merged(decisions[b], packet[w].rows)
            /\ decisions[b] \in Rows
        BY <1>1, <3>3 DEF MergeDecisions
      <4>2. DOMAIN packet[w].rows \subseteq Decided(b)
        BY <2>1, <3>3 DEF MergeInto, MergeDecisions, FinalInv, PacketsOwn, Settled
      <4>3. \A c \in Cases : Merged(decisions[b], packet[w].rows)[c] = decisions[b][c]
        BY <4>1, <4>2 DEF Merged, Agrees, Decided
      <4> QED
        BY <4>1, <4>3 DEF Merged, Rows
    <3> QED
      BY <2>1, <3>1, <3>2, <3>3 DEF MergeInto
  <2>2. ASSUME NEW w \in Workers, MergeOwn(w) PROVE decisions'[b] = decisions[b]
    BY <2>1, <2>2 DEF MergeOwn
  <2>3. ASSUME NEW w \in Workers, MergeFirst(w) PROVE decisions'[b] = decisions[b]
    BY <2>1, <2>3 DEF MergeFirst, OwnBatch
  <2>4. ASSUME NEW a \in BatchIds, Repair(a) PROVE decisions'[b] = decisions[b]
    <3>1. a # b
      BY <2>4, SelectFrom DEF Repair, Settled
    <3> QED
      BY <1>1, <2>4, <3>1 DEF Repair
  <2>5. CASE Create \/ (\E snapshot \in Snapshots : Fill(snapshot)) \/ FillStep
    BY <2>5 DEF Create, Fill, FillStep, MakeBatch, WriteBatch, ListBatches, reviews
  <2>6. CASE StartFinalize \/ FinalizeStep \/ Kill
    BY <2>6 DEF StartFinalize, FinalizeStep, Preflight, WriteCorpus, WriteSummary,
       WritePool, WriteMetadata, WriteFinal, Kill, reviews
  <2>7. CASE \E c \in Cases : Correct(c)
    BY <2>7 DEF Correct, reviews
  <2>8. CASE \E w \in Workers : Draw(w)
    BY <2>8 DEF Draw
  <2>9. CASE \E a \in BatchIds : SaveCheck(a)
    BY <2>9 DEF SaveCheck
  <2>10. CASE UNCHANGED vars
    BY <2>10 DEF vars, reviews
  <2> QED
    BY <2>2, <2>3, <2>4, <2>5, <2>6, <2>7, <2>8, <2>9, <2>10 DEF Next
<1> QED
  BY <1>2, <1>3 DEF Settled, Decided, Having

\* A record stays in the corpus.
LEMMA GoldStays ==
    ASSUME TypeInv, [Next]_vars, NEW c \in Cases, gold[c] # None
    PROVE  gold'[c] # None
<1>1. CASE WriteCorpus
  BY <1>1, NoneAssumption DEF WriteCorpus, Combined
<1>2. ASSUME NEW d \in Cases, Correct(d) PROVE gold'[c] # None
  BY <1>2, NoneAssumption DEF Correct, TypeInv, TypeOK
<1>3. CASE UNCHANGED gold
  BY <1>3
<1> QED
  BY <1>1, <1>2, <1>3 DEF Next, FillStep, FinalizeStep, Create, Fill, MakeBatch,
     WriteBatch, ListBatches, Draw, MergeOwn, MergeFirst, MergeInto, SaveCheck,
     Repair, StartFinalize, Preflight, WriteSummary, WritePool, WriteMetadata,
     WriteFinal, Kill, vars, stores

\* The accepted cases of a settled batch stay in the corpus.
LEMMA InCorpusStays ==
    ASSUME OwnBatch, FinalInv, [Next]_vars, NEW b \in BatchIds, Settled(b), InCorpus(b)
    PROVE  InCorpus(b)'
<1>1. TypeInv /\ decisions'[b] = decisions[b]
  BY SettledStays DEF FinalInv, ReviewInv, FillInv
<1>2. Having(b, "accept")' = Having(b, "accept") /\ Having(b, "accept") \subseteq Cases
  BY <1>1 DEF Having, Decided
<1> QED
  BY <1>1, <1>2, GoldStays DEF InCorpus

\* The cases of a packet stay those of its batch.
LEMMA NextPacketsOwn ==
    ASSUME FinalInv, [Next]_vars
    PROVE  PacketsOwn'
<1> USE DEF TypeInv, TypeOK
<1>1. TypeInv /\ FillInv
  BY DEF FinalInv, ReviewInv, FillInv
<1>2. Listed \subseteq Listed' /\ \A b \in Listed : dir'[b] = dir[b]
  BY <1>1, NextFillInv
<1>3. ASSUME NEW w \in Workers, packet'[w] = packet[w], Role[w] = "adjudicator",
             packet[w] # None
      PROVE  /\ packet'[w].batch \in Listed'
             /\ DOMAIN packet'[w].rows \subseteq dir'[packet'[w].batch].cases
  BY <1>2, <1>3 DEF FinalInv, PacketsOwn
<1>4. ASSUME NEW v \in Workers, Draw(v) PROVE PacketsOwn'
  <2>1. PICK b \in Listed, rows \in SUBSET Cases : Drawn(v, b, rows)
    BY <1>1, <1>4, DrawnPacket
  <2>2. \A w \in Workers \ {v} : packet'[w] = packet[w]
    BY <2>1 DEF Drawn
  <2>3. packet'[v].batch = b /\ DOMAIN packet'[v].rows = rows
    BY <1>1, <2>1 DEF Drawn
  <2>4. rows \subseteq dir[b].cases
    BY <2>1 DEF Drawn
  <2> QED
    BY <1>2, <1>3, <2>2, <2>3, <2>4 DEF PacketsOwn
<1>5. CASE UNCHANGED packet
  BY <1>3, <1>5 DEF PacketsOwn
<1> QED
  BY <1>4, <1>5 DEF Next, FillStep, FinalizeStep, Create, Fill, MakeBatch,
     WriteBatch, ListBatches, MergeOwn, MergeFirst, MergeInto, SaveCheck,
     Repair, StartFinalize, Preflight, WriteCorpus, WriteSummary, WritePool,
     WriteMetadata, WriteFinal, Kill, Correct, vars, reviews

\* Every step keeps what finalization has established.
LEMMA NextFinal ==
    ASSUME OwnBatch, FinalInv, [Next]_vars
    PROVE  Finalizing' /\ Finalized'
<1> USE DEF TypeInv, TypeOK, JobOK, Goto, GotoBatch
<1>1. TypeInv /\ FillInv
  BY DEF FinalInv, ReviewInv, FillInv
<1> DEFINE Busy == {"corpus", "summary", "pool", "metadata", "seal"}
           After == {"summary", "pool", "metadata", "seal"}
<1>2. \A b \in BatchIds : Settled(b) => Settled(b)'
  BY SettledStays
<1>3. \A b \in BatchIds : Settled(b) /\ InCorpus(b) => Settled(b)' /\ InCorpus(b)'
  BY SettledStays, InCorpusStays
<1>4. job.step \in Busy => job.batch \in BatchIds
  BY <1>1
\* A step at which nothing is finalized.
<1>5. ASSUME \A b \in BatchIds : (state'[b] = "finalized" \/ summary'[b] # None) =>
                                   (state[b] = "finalized" \/ summary[b] # None)
      PROVE  Finalized'
  BY <1>3, <1>5 DEF FinalInv, Finalized, BatchIds
<1>6. ASSUME \/ job'.step \notin Busy
             \/ job' = job
      PROVE  Finalizing'
  BY <1>2, <1>3, <1>4, <1>6 DEF FinalInv, Finalizing
<1>7. CASE Preflight
  <2>1. Finalized'
    BY <1>5, <1>7 DEF Preflight, stores
  <2>2. CASE job' = Idle \/ job' = [job EXCEPT !.step = "preflight", !.batch = job.batch + 1]
    BY <1>1, <1>6, <2>1, <2>2, IdleType
  <2>3. CASE /\ job.batch \in Listed /\ ReadyToFinalize(job.batch)
             /\ job' = [job EXCEPT !.step = IF Integrated(job.batch) THEN "pool" ELSE "corpus"]
    <3>1. job.batch \in BatchIds
      BY <1>1, <2>3 DEF Listed, Readable
    <3>2. Settled(job.batch)
      BY <2>3 DEF ReadyToFinalize, Settled
    <3>3. Integrated(job.batch) => InCorpus(job.batch)
      BY <3>1 DEF Integrated, FinalInv, Finalized
    <3>4. Settled(job.batch)' /\ (Integrated(job.batch) => InCorpus(job.batch)')
      <4>1. job'.batch = job.batch
        BY <1>1, <2>3
      <4> QED
        BY <1>2, <1>3, <3>1, <3>2, <3>3, <4>1 DEF Settled, InCorpus, Decided, Having, Listed, Readable
    <3>5. job'.batch = job.batch /\ job'.step = IF Integrated(job.batch) THEN "pool" ELSE "corpus"
      BY <1>1, <2>3
    <3> QED
      BY <2>1, <3>4, <3>5 DEF Finalizing
  <2> QED
    BY <1>7, <2>2, <2>3 DEF Preflight
<1>8. CASE WriteCorpus
  <2>1. /\ job.step = "corpus" /\ job' = [job EXCEPT !.step = "summary"]
        /\ gold' = Combined(job.batch) /\ UNCHANGED <<decisions, state, summary>>
    BY <1>8 DEF WriteCorpus, reviews
  <2>2. Settled(job.batch) /\ job.batch \in BatchIds /\ job'.batch = job.batch
    BY <1>1, <1>4, <2>1 DEF FinalInv, Finalizing
  <2>3. \A c \in Having(job.batch, "accept") : c \in Cases /\ gold'[c] # None
    BY <2>1, NoneAssumption DEF Combined, Having, Decided
  <2>4. InCorpus(job.batch)'
    BY <2>1, <2>2, <2>3 DEF InCorpus, Having, Decided
  <2>5. Settled(job.batch)'
    BY <1>2, <2>2
  <2>6. Finalizing'
    BY <1>1, <2>1, <2>4, <2>5 DEF Finalizing
  <2> QED
    BY <1>5, <2>1, <2>6
\* The later writes, all of them after the corpus has been written.
<1>9. ASSUME job.step \in After,
             job'.step \in After => job'.batch = job.batch,
             job'.step # "corpus",
             \A b \in BatchIds \ {job.batch} :
                state'[b] = state[b] /\ summary'[b] = summary[b]
      PROVE  Finalizing' /\ Finalized'
  <2>1. Settled(job.batch) /\ InCorpus(job.batch) /\ job.batch \in BatchIds
    BY <1>4, <1>9 DEF FinalInv, Finalizing
  <2>2. \A b \in BatchIds : b = job.batch => Settled(b)' /\ InCorpus(b)'
    BY <2>1, <1>3
  <2>3. Finalizing'
    BY <1>9, <2>1, <2>2 DEF Finalizing
  <2>4. ASSUME NEW b \in BatchIds, state'[b] = "finalized" \/ summary'[b] # None
        PROVE  Settled(b)' /\ InCorpus(b)'
    BY <1>3, <1>9, <2>2, <2>4 DEF FinalInv, Finalized
  <2> QED
    BY <2>3, <2>4 DEF Finalized, BatchIds
<1>10. CASE WriteSummary
  BY <1>1, <1>9, <1>10 DEF WriteSummary
<1>11. CASE WritePool
  BY <1>1, <1>9, <1>11 DEF WritePool
<1>12. CASE WriteMetadata
  BY <1>1, <1>9, <1>12 DEF WriteMetadata
<1>13. CASE WriteFinal
  BY <1>1, <1>9, <1>13 DEF WriteFinal
<1>14. CASE WriteBatch
  <2>1. /\ job.step = "write" /\ job'.step = "make"
        /\ state' = [state EXCEPT ![job.batch] = "awaiting_review"] /\ summary' = summary
    BY <1>1, <1>14 DEF WriteBatch
  <2>2. \A b \in BatchIds : state'[b] = "finalized" => state[b] = "finalized"
    BY <1>1, <2>1
  <2> QED
    BY <1>5, <1>6, <2>1, <2>2
<1>15. CASE Create \/ (\E snapshot \in Snapshots : Fill(snapshot)) \/ MakeBatch \/ ListBatches
  <2>1. UNCHANGED <<state, summary>>
    BY <1>15 DEF Create, Fill, MakeBatch, ListBatches, stores
  <2>2. job'.step \notin Busy
    BY <1>1, <1>15, IdleType DEF Create, Fill, MakeBatch, ListBatches
  <2> QED
    BY <1>5, <1>6, <2>1, <2>2
<1>16. CASE StartFinalize \/ Kill
  <2>1. UNCHANGED <<state, summary>>
    BY <1>16 DEF StartFinalize, Kill, stores
  <2>2. job'.step \notin Busy
    BY <1>1, <1>16, IdleType DEF StartFinalize, Kill
  <2> QED
    BY <1>5, <1>6, <2>1, <2>2
<1>17. ASSUME UNCHANGED <<job, state, summary>> PROVE Finalizing' /\ Finalized'
  BY <1>5, <1>6, <1>17
<1>18. CASE \E c \in Cases : Correct(c)
  BY <1>17, <1>18 DEF Correct
<1>19. CASE \E w \in Workers : Draw(w) \/ MergeOwn(w) \/ MergeFirst(w)
  BY <1>17, <1>19 DEF Draw, MergeOwn, MergeFirst, MergeInto, stores
<1>20. CASE \E b \in BatchIds : SaveCheck(b) \/ Repair(b)
  BY <1>17, <1>20 DEF SaveCheck, Repair, stores
<1>21. CASE UNCHANGED vars
  BY <1>17, <1>21 DEF vars, stores
<1> QED
  BY <1>7, <1>8, <1>10, <1>11, <1>12, <1>13, <1>14, <1>15, <1>16, <1>18, <1>19,
     <1>20, <1>21 DEF Next, FillStep, FinalizeStep

(***************************************************************************)
(* When campaign-status says complete, every accepted case has its record  *)
(* in the corpus, whatever was killed, merged again, repaired or corrected *)
(* on the way, as long as adjudicators name the batch they answer.         *)
(***************************************************************************)
THEOREM CompleteMeansIntegrated == OwnBatch => (Spec => []CompleteIsIntegrated)
<1> SUFFICES ASSUME OwnBatch PROVE Spec => []CompleteIsIntegrated
  OBVIOUS
<1>1. FinalInv /\ [Next]_vars => FinalInv'
  BY NextReviewInv, NextPacketsOwn, NextFinal DEF FinalInv
<1>2. ASSUME FinalInv PROVE CompleteIsIntegrated
  <2>1. Listed \subseteq BatchIds
    BY <1>2 DEF FinalInv, ReviewInv, FillInv, TypeInv, TypeOK, Listed, Readable
  <2> QED
    BY <1>2, <2>1 DEF FinalInv, Finalized, Settled, InCorpus, CompleteIsIntegrated, Complete
<1> QED
  BY InitFinalInv, <1>1, <1>2, PTL DEF Spec

-----------------------------------------------------------------------------

\* Of some sets of cases, one has fewest.
LEMMA FewestCases ==
    ASSUME NEW Bad, Bad \subseteq SUBSET Cases, Bad # {}
    PROVE  \E T \in Bad : \A U \in Bad : Cardinality(T) <= Cardinality(U)
<1> DEFINE counts == {Cardinality(T) : T \in Bad}
<1>1. counts \in SUBSET Nat /\ counts # {}
  BY CasesFinite
<1>2. PICK n \in counts : \A k \in counts : n <= k
  <2> HIDE DEF counts
  <2> QED
    BY <1>1, LeastNumber
<1> QED
  BY <1>2

\* Without a case there is one less.
LEMMA OneLess ==
    ASSUME NEW T \in SUBSET Cases, NEW c \in T
    PROVE  /\ T \ {c} \in SUBSET Cases
           /\ Cardinality(T \ {c}) = Cardinality(T) - 1
           /\ Cardinality(T) \in Nat /\ Cardinality(T \ {c}) \in Nat
BY CasesFinite, FS_RemoveElement

-----------------------------------------------------------------------------
\* Bytes, unfolded: the sum of the sizes of the subsets of S, one case less
\* at a time.
More(sum, T) ==
    IF T = {} THEN 0 ELSE LET c == CHOOSE x \in T : TRUE IN Size[c] + sum[T \ {c}]

Sums(S, sum) == sum = [T \in SUBSET S |-> More(sum, T)]

\* Bytes is that function's value for the whole set.
LEMMA BytesIter ==
    ASSUME NEW S
    PROVE  Bytes(S) = (CHOOSE sum : Sums(S, sum))[S]
BY DEF Bytes, FoldSet, MapThenFoldSet, Sums, More

\* There is such a function: it is built for larger and larger subsets.
LEMMA SumsExist ==
    ASSUME NEW S \in SUBSET Cases
    PROVE  \E sum : Sums(S, sum)
<1> DEFINE Layer(n) == {T \in SUBSET S : Cardinality(T) <= n}
           Upto(n, sum) == sum = [T \in Layer(n) |-> More(sum, T)]
           Fails == {n \in Nat : ~ \E sum : Upto(n, sum)}
<1>0. \A T \in SUBSET S : /\ Cardinality(T) \in 0 .. LastCase
                          /\ Cardinality(T) = 0 => T = {}
  <2>1. \A T \in SUBSET S : IsFiniteSet(T) /\ Cardinality(T) \in 0 .. LastCase
    BY CasesFinite
  <2> QED
    BY <2>1, FS_EmptySet
<1>1. ASSUME Fails # {} PROVE FALSE
  <2>1. PICK n \in Fails : \A k \in Fails : n <= k
    <3>1. Fails \in SUBSET Nat
      OBVIOUS
    <3> HIDE DEF Fails
    <3> QED
      BY <1>1, <3>1, LeastNumber
  <2>2. CASE n = 0
    <3> DEFINE zero == [T \in Layer(0) |-> 0]
    <3>1. \A T \in Layer(0) : T = {}
      BY <1>0
    <3>2. \A T \in Layer(0) : More(zero, T) = 0
      BY <3>1 DEF More
    <3>3. Upto(0, zero)
      BY <3>2
    <3> QED
      BY <2>1, <2>2, <3>3
  <2>3. CASE n # 0
    <3>1. n \in Nat /\ n - 1 \in Nat /\ n - 1 \notin Fails
      <4>1. Fails \subseteq Nat
        OBVIOUS
      <4> HIDE DEF Fails
      <4> QED
        BY <2>1, <2>3, <4>1
    <3>2. PICK sum : Upto(n - 1, sum)
      BY <3>1
    <3> DEFINE more == [T \in Layer(n) |-> More(sum, T)]
    <3>3. \A T \in Layer(n - 1) : T \in Layer(n) /\ more[T] = sum[T]
      <4>1. \A T \in Layer(n - 1) : sum[T] = More(sum, T)
        BY <3>2
      <4>2. \A T \in Layer(n - 1) : T \in Layer(n)
        BY <1>0, <3>1
      <4> QED
        BY <4>1, <4>2
    <3>4. ASSUME NEW T \in Layer(n), T # {}, NEW c, c = CHOOSE x \in T : TRUE
          PROVE  c \in T /\ T \ {c} \in Layer(n - 1)
      <4>1. c \in T
        BY <3>4
      <4>2. T \in SUBSET Cases /\ Cardinality(T) <= n
        OBVIOUS
      <4> QED
        BY <3>1, <4>1, <4>2, OneLess
    <3> HIDE DEF more
    <3>5. ASSUME NEW T \in Layer(n) PROVE More(more, T) = More(sum, T)
      <4>1. CASE T = {}
        BY <4>1 DEF More
      <4>2. CASE T # {}
        <5>1. PICK c : c = CHOOSE x \in T : TRUE
          OBVIOUS
        <5>2. more[T \ {c}] = sum[T \ {c}]
          BY <3>3, <3>4, <4>2, <5>1
        <5> QED
          BY <4>2, <5>1, <5>2 DEF More
      <4> QED
        BY <4>1, <4>2
    <3>6. Upto(n, more)
      BY <3>5 DEF more
    <3> QED
      BY <2>1, <3>6
  <2> QED
    BY <2>2, <2>3
<1>2. PICK sum : Upto(LastCase, sum)
  BY <1>1, CasesAssumption
<1>3. Layer(LastCase) = SUBSET S
  BY <1>0
<1>4. Sums(S, sum)
  <2> HIDE DEF Layer
  <2> QED
    BY <1>2, <1>3 DEF Sums
<1> QED
  BY <1>4

\* A subset whose sum depends on the set it is computed for.
Depends(S, sum, T) == Sums(S, sum) /\ T \in SUBSET S /\ sum[T] # Bytes(T)

\* No subset is summed up differently in another set.
LEMMA BytesOfSubset ==
    ASSUME NEW S \in SUBSET Cases, NEW sum
    PROVE  \A T : ~ Depends(S, sum, T)
<1> DEFINE Bad == {T \in SUBSET Cases : \E R \in SUBSET Cases : \E any : Depends(R, any, T)}
<1>1. ASSUME Bad # {} PROVE FALSE
  <2>1. PICK T \in Bad : \A U \in Bad : Cardinality(T) <= Cardinality(U)
    <3>1. Bad \subseteq SUBSET Cases
      OBVIOUS
    <3> HIDE DEF Bad
    <3> QED
      BY <1>1, <3>1, FewestCases
  <2>0. PICK R \in SUBSET Cases : \E any : Depends(R, any, T)
    OBVIOUS
  <2>2. PICK any : Depends(R, any, T)
    BY <2>0
  <2>3. T \in SUBSET Cases /\ T \in SUBSET R /\ any[T] = More(any, T)
    BY <2>2 DEF Depends, Sums
  <2>4. PICK own : Sums(T, own) /\ Bytes(T) = own[T]
    BY <2>3, SumsExist, BytesIter
  <2>5. own[T] = More(own, T)
    BY <2>4 DEF Sums
  <2>6. CASE T = {}
    BY <2>2, <2>3, <2>4, <2>5, <2>6 DEF More, Depends
  <2>7. CASE T # {}
    <3>1. PICK c : c = (CHOOSE x \in T : TRUE) /\ c \in T
      BY <2>7
    <3>2. T \ {c} \notin Bad /\ T \ {c} \in SUBSET Cases
      <4>1. /\ Cardinality(T \ {c}) = Cardinality(T) - 1 /\ T \ {c} \in SUBSET Cases
            /\ Cardinality(T) \in Nat
        BY <2>3, <3>1, OneLess
      <4> HIDE DEF Bad
      <4> QED
        BY <2>1, <4>1
    <3>3. any[T \ {c}] = Bytes(T \ {c})
      BY <2>2, <2>3, <3>2 DEF Depends
    <3>4. own[T \ {c}] = Bytes(T \ {c})
      BY <2>3, <2>4, <3>2 DEF Depends
    <3>5. any[T] = own[T]
      BY <2>3, <2>5, <2>7, <3>1, <3>3, <3>4 DEF More
    <3> QED
      BY <2>2, <2>4, <3>5 DEF Depends
  <2> QED
    BY <2>6, <2>7
<1>2. ASSUME NEW T, Depends(S, sum, T) PROVE T \in Bad
  BY <1>2 DEF Depends
<1> HIDE DEF Bad
<1> QED
  BY <1>1, <1>2

\* What the sum is: nothing, or the size of the case chosen and the rest.
LEMMA BytesIs ==
    ASSUME NEW T \in SUBSET Cases
    PROVE  IF T = {} THEN Bytes(T) = 0
           ELSE LET c == CHOOSE x \in T : TRUE IN Bytes(T) = Size[c] + Bytes(T \ {c})
<1>1. PICK own : Sums(T, own) /\ Bytes(T) = own[T]
  BY SumsExist, BytesIter
<1>2. own[T] = More(own, T)
  BY <1>1 DEF Sums
<1>3. \A U \in SUBSET T : own[U] = Bytes(U)
  BY <1>1, BytesOfSubset DEF Depends
<1> QED
  BY <1>1, <1>2, <1>3 DEF More

\* Sizes add up to a number.
LEMMA BytesType ==
    ASSUME NEW S \in SUBSET Cases
    PROVE  Bytes(S) \in Nat
<1> DEFINE Bad == {T \in SUBSET Cases : Bytes(T) \notin Nat}
<1>1. ASSUME Bad # {} PROVE FALSE
  <2>1. PICK T \in Bad : \A U \in Bad : Cardinality(T) <= Cardinality(U)
    <3>1. Bad \subseteq SUBSET Cases
      OBVIOUS
    <3> HIDE DEF Bad
    <3> QED
      BY <1>1, <3>1, FewestCases
  <2>2. T \in SUBSET Cases /\ Bytes(T) \notin Nat
    OBVIOUS
  <2>3. ASSUME T = {} PROVE FALSE
    <3>1. Bytes(T) = 0
      BY <2>3, <2>2, BytesIs
    <3> QED
      BY <2>2, <3>1
  <2>4. PICK c : c = (CHOOSE x \in T : TRUE) /\ c \in T
    BY <2>3
  <2>5. T \ {c} \notin Bad /\ T \ {c} \in SUBSET Cases
    <3>1. /\ Cardinality(T \ {c}) = Cardinality(T) - 1 /\ T \ {c} \in SUBSET Cases
          /\ Cardinality(T) \in Nat
      BY <2>2, <2>4, OneLess
    <3> HIDE DEF Bad
    <3> QED
      BY <2>1, <3>1
  <2>6. Bytes(T \ {c}) \in Nat /\ Size[c] \in Nat
    BY <2>2, <2>4, <2>5, RowAssumption
  <2>7. Bytes(T) = Size[c] + Bytes(T \ {c})
    BY <2>2, <2>3, <2>4, BytesIs
  <2> QED
    BY <2>2, <2>6, <2>7
<1> QED
  BY <1>1

\* The order does not matter: any case can be taken out first.
LEMMA BytesWithout ==
    ASSUME NEW S \in SUBSET Cases, NEW e \in S
    PROVE  Bytes(S) = Size[e] + Bytes(S \ {e})
<1> DEFINE Bad == {T \in SUBSET Cases : \E d \in T : Bytes(T) # Size[d] + Bytes(T \ {d})}
<1>1. ASSUME Bad # {} PROVE FALSE
  <2>1. PICK T \in Bad : \A U \in Bad : Cardinality(T) <= Cardinality(U)
    <3>1. Bad \subseteq SUBSET Cases
      OBVIOUS
    <3> HIDE DEF Bad
    <3> QED
      BY <1>1, <3>1, FewestCases
  <2>2. PICK d \in T : T \in SUBSET Cases /\ Bytes(T) # Size[d] + Bytes(T \ {d})
    OBVIOUS
  <2>3. PICK c : c = (CHOOSE x \in T : TRUE) /\ c \in T
    BY <2>2
  <2>4. Bytes(T) = Size[c] + Bytes(T \ {c})
    BY <2>2, <2>3, BytesIs
  <2>5. c # d
    BY <2>2, <2>4
  <2>6. ASSUME NEW a \in T, NEW b \in T \ {a}
        PROVE  Bytes(T \ {a}) = Size[b] + Bytes((T \ {a}) \ {b})
    <3>1. /\ Cardinality(T \ {a}) = Cardinality(T) - 1 /\ T \ {a} \in SUBSET Cases
          /\ Cardinality(T) \in Nat
      BY <2>2, OneLess
    <3>2. T \ {a} \notin Bad
      <4> HIDE DEF Bad
      <4> QED
        BY <2>1, <3>1
    <3> QED
      BY <3>1, <3>2
  <2> HIDE DEF Bad
  <2>7. (T \ {c}) \ {d} = (T \ {d}) \ {c}
    OBVIOUS
  <2>8. /\ Size[c] \in Nat /\ Size[d] \in Nat /\ Bytes((T \ {c}) \ {d}) \in Nat
    <3>1. (T \ {c}) \ {d} \in SUBSET Cases
      BY <2>2
    <3> QED
      BY <2>2, <2>3, <3>1, BytesType, RowAssumption
  <2>9. Bytes(T \ {c}) = Size[d] + Bytes((T \ {c}) \ {d}) /\ Bytes(T \ {d}) = Size[c] + Bytes((T \ {c}) \ {d})
    BY <2>3, <2>5, <2>6, <2>7
  <2> QED
    BY <2>2, <2>4, <2>8, <2>9
<1>2. S \notin Bad
  BY <1>1
<1> QED
  BY <1>2

-----------------------------------------------------------------------------
\* The first of the rows, as many as the limits allow.
Fitting(taken, rows, limit) ==
    /\ taken \subseteq rows
    /\ \A c \in taken, d \in rows \ taken : c < d
    /\ Cardinality(taken) <= limit /\ Bytes(taken) <= MaxBytes
    /\ \/ rows \ taken = {}
       \/ Cardinality(taken) = limit
       \/ \E d \in rows \ taken : /\ Bytes(taken \union {d}) > MaxBytes
                                   /\ \A e \in rows \ taken : d <= e

\* What select_packet_rows returns, if it returns rows.
LEMMA SelectionFits ==
    ASSUME NEW rows \in SUBSET Cases, NEW limit \in Nat \ {0},
           NEW taken, taken = Select(rows, limit), taken # {}
    PROVE  Fitting(taken, rows, limit)
<1> DEFINE before(c) == {d \in rows : d < c}
           stops == {c \in rows : Stops(before(c), c, limit)}
<1>1. /\ taken = {c \in rows : \A d \in stops : c < d}
      /\ ~ (/\ Cardinality(taken) < limit
            /\ \E c \in stops : Size[c] > MaxBytes /\ \A d \in stops : c <= d)
  BY DEF Select
<1>2. rows \subseteq Nat /\ Cases \subseteq Nat /\ MaxBytes \in Nat \ {0}
  BY CasesAssumption, LimitAssumption DEF Cases
<1>3. stops \subseteq rows
  OBVIOUS
<1>4. \A c \in rows : c \in stops <=> Stops(before(c), c, limit)
  OBVIOUS
<1> HIDE DEF stops
<1>5. taken \subseteq rows /\ taken \in SUBSET Cases
  BY <1>1
<1>6. \A c \in taken : c \notin stops
  BY <1>1, <1>2, <1>3
<1>7. \A c \in taken, d \in rows \ taken : c < d
  <2> TAKE c \in taken, d \in rows \ taken
  <2>1. PICK e \in stops : ~(d < e)
    BY <1>1
  <2>2. c < e /\ c \in Nat /\ d \in Nat /\ e \in Nat
    BY <1>1, <1>2, <1>3
  <2> QED
    BY <2>1, <2>2
<1>8. Cardinality(taken) <= limit /\ Bytes(taken) <= MaxBytes
  <2>1. PICK m \in taken : \A c \in taken : c <= m
    <3>1. PICK top \in Nat : \A c \in taken : c <= top
      <4>1. LastCase \in Nat /\ \A c \in taken : c <= LastCase
        BY <1>5, CasesAssumption DEF Cases
      <4> QED
        BY <4>1
    <3> DEFINE gaps == {top - c : c \in taken}
    <3>2. gaps \in SUBSET Nat /\ gaps # {}
      <4>1. \A c \in taken : top - c \in Nat
        BY <1>2, <1>5, <3>1
      <4> QED
        BY <4>1
    <3>3. PICK g \in gaps : \A h \in gaps : g <= h
      <4> HIDE DEF gaps
      <4> QED
        BY <3>2, LeastNumber
    <3>4. PICK m \in taken : g = top - m
      OBVIOUS
    <3>5. \A c \in taken : g <= top - c
      BY <3>3
    <3> QED
      BY <1>2, <1>5, <3>1, <3>4, <3>5
  <2>2. before(m) = taken \ {m}
    <3>1. \A c \in taken \ {m} : c \in rows /\ c < m
      BY <1>2, <1>5, <2>1
    <3>2. \A c \in rows : c < m => c \in taken \ {m}
      BY <1>2, <1>5, <1>7, <2>1
    <3> QED
      BY <3>1, <3>2
  <2>3. ~ Stops(taken \ {m}, m, limit)
    BY <1>4, <1>5, <1>6, <2>1, <2>2
  <2>4. /\ Cardinality(taken \ {m}) = Cardinality(taken) - 1
        /\ Cardinality(taken) \in Nat
    BY <1>5, <2>1, OneLess
  <2>5. ~(Cardinality(taken \ {m}) >= limit) /\ ~(Size[m] > MaxBytes)
        /\ (taken \ {m} # {} => ~(Bytes(taken \ {m}) + Size[m] > MaxBytes))
    BY <2>3 DEF Stops
  <2>6. Bytes(taken) = Size[m] + Bytes(taken \ {m}) /\ Bytes(taken \ {m}) \in Nat /\ Size[m] \in Nat
    BY <1>5, <2>1, BytesWithout, BytesType, RowAssumption
  <2>7. taken \ {m} = {} => Bytes(taken \ {m}) = 0
    BY BytesIs
  <2> QED
    BY <1>2, <2>4, <2>5, <2>6, <2>7
<1>9. ASSUME rows \ taken # {}, Cardinality(taken) # limit
      PROVE  \E d \in rows \ taken : /\ Bytes(taken \union {d}) > MaxBytes
                                      /\ \A e \in rows \ taken : d <= e
  <2>1. stops # {}
    BY <1>1, <1>9
  <2>2. PICK d \in stops : \A e \in stops : d <= e
    BY <1>2, <1>3, <2>1, LeastNumber
  <2>3. d \in rows \ taken
    BY <1>3, <1>6, <2>2
  <2>4. \A e \in rows : e < d => e \in taken
    <3> TAKE e \in rows
    <3> HAVE e < d
    <3>1. \A f \in stops : e < f
      BY <1>2, <1>3, <2>2
    <3> QED
      BY <1>1, <3>1
  <2>5. before(d) = taken
    BY <1>5, <1>7, <2>3, <2>4
  <2>6. Stops(taken, d, limit)
    BY <1>3, <1>4, <2>2, <2>5
  <2>7. Cardinality(taken) < limit
    <3>1. Cardinality(taken) \in Nat
      BY <1>5, CasesFinite
    <3> QED
      BY <1>8, <1>9, <3>1
  <2>8. ~(Size[d] > MaxBytes)
    BY <1>1, <2>2, <2>7
  <2>9. Bytes(taken) + Size[d] > MaxBytes
    <3>1. Cardinality(taken) \in Nat
      BY <1>5, CasesFinite
    <3> QED
      BY <2>6, <2>7, <2>8, <3>1 DEF Stops
  <2>10. Bytes(taken \union {d}) = Size[d] + Bytes(taken)
    <3>1. taken \union {d} \in SUBSET Cases /\ (taken \union {d}) \ {d} = taken
      BY <1>5, <2>3
    <3> QED
      BY <3>1, BytesWithout
  <2>11. \A e \in rows \ taken : d <= e
    BY <1>2, <2>3, <2>4
  <2>12. Bytes(taken) \in Nat /\ Size[d] \in Nat
    BY <1>5, <2>3, BytesType, RowAssumption
  <2>13. Bytes(taken \union {d}) > MaxBytes
    BY <2>9, <2>10, <2>12
  <2> QED
    BY <2>3, <2>11, <2>13
<1> QED
  BY <1>5, <1>7, <1>8, <1>9 DEF Fitting

\* What is offered is of the language of each of its rows, and includes some of
\* what is left.
LEMMA OfferedIs ==
    ASSUME TypeInv, NEW role, NEW b \in BatchIds,
           NEW taken, taken \subseteq Offered(role, b), taken # {}
    PROVE  /\ \A c : c \in Offered(role, b) <=>
                       /\ c \in IF Routing /\ role \notin Slots THEN dir[b].cases ELSE Remaining(role, b)
                       /\ Routing => \A r \in taken : Language[c] = Language[r]
           /\ Offered(role, b) \intersect Remaining(role, b) # {}
<1> DEFINE left == Remaining(role, b)
           first == Routed(left)
<1>1. left \in SUBSET Cases /\ dir[b].cases \in SUBSET Cases /\ left \subseteq dir[b].cases
  BY OfferedType, RemainingType DEF TypeInv, TypeOK
<1>2. \A c \in dir[b].cases : Language[c] \in Nat
  BY <1>1, RowAssumption
<1>3. /\ \A c \in first : c \in left /\ (Routing => \A d \in left : Language[c] <= Language[d])
      /\ \A c \in left : (Routing => \A d \in left : Language[c] <= Language[d]) => c \in first
  BY DEF Routed
<1>4. Offered(role, b) =
        IF Routing /\ role \notin Slots
          THEN {c \in dir[b].cases : \E d \in first : Language[c] = Language[d]}
          ELSE first
  BY DEF Offered
<1> HIDE DEF left, first
<1>5. ASSUME Routing, NEW c \in first, NEW d \in first PROVE Language[c] = Language[d]
  <2>1. Language[c] <= Language[d] /\ Language[d] <= Language[c]
    BY <1>3, <1>5
  <2>2. Language[c] \in Nat /\ Language[d] \in Nat
    BY <1>1, <1>2, <1>3
  <2> QED
    BY <2>1, <2>2
<1>6. ASSUME Routing, NEW c \in left, NEW d \in first, Language[c] = Language[d] PROVE c \in first
  BY <1>3, <1>6
<1>7. CASE Routing /\ role \notin Slots
  <2>1. \A c \in Offered(role, b) : c \in dir[b].cases /\ \E d \in first : Language[c] = Language[d]
    BY <1>4, <1>7
  <2>2. \A c \in Offered(role, b), r \in taken : Language[c] = Language[r]
    BY <1>5, <1>7, <2>1
  <2>3. ASSUME NEW c \in dir[b].cases, \A r \in taken : Language[c] = Language[r]
        PROVE  c \in Offered(role, b)
    BY <1>4, <1>7, <2>1, <2>3
  <2>4. PICK d \in first : TRUE
    BY <2>1
  <2>5. d \in Offered(role, b) /\ d \in left
    BY <1>1, <1>3, <1>4, <1>7
  <2> QED
    BY <1>7, <2>1, <2>2, <2>3, <2>5 DEF left
<1>8. CASE ~(Routing /\ role \notin Slots)
  <2>1. Offered(role, b) = first
    BY <1>4, <1>8
  <2>2. ASSUME NEW c \in left, Routing => \A r \in taken : Language[c] = Language[r]
        PROVE  c \in first
    BY <1>3, <1>6, <2>1, <2>2
  <2>3. first = {c \in left : Routing => \A r \in taken : Language[c] = Language[r]}
    BY <1>3, <1>5, <2>1, <2>2
  <2>4. first \intersect left # {}
    BY <1>3, <2>1
  <2> QED
    BY <1>8, <2>1, <2>3, <2>4 DEF left
<1> QED
  BY <1>7, <1>8

(***************************************************************************)
(* PacketsFit: what a worker draws fits, whatever the sizes, the languages *)
(* and the limits; nothing else changes a packet.                          *)
(***************************************************************************)
THEOREM DrawnPacketsFit == Spec => PacketsFit
<1> DEFINE A == \A w \in Workers : packet'[w] # packet[w] =>
                   Fits(w, packet'[w].batch, DOMAIN packet'[w].rows)
<1>1. ASSUME TypeInv, NEW w \in Workers, Draw(w) PROVE A
  <2>1. PICK b \in Listed, rows \in SUBSET Cases : Drawn(w, b, rows)
    BY <1>1, DrawnPacket
  <2>2. \A v \in Workers \ {w} : packet'[v] = packet[v]
    BY <1>1, <2>1 DEF Drawn, TypeInv
  <2>3. packet'[w].batch = b /\ DOMAIN packet'[w].rows = rows
    BY <1>1, <2>1 DEF Drawn, TypeInv
  <2>4. b \in BatchIds /\ Offered(Role[w], b) \in SUBSET Cases
    BY <1>1, OfferedType DEF Listed, Readable, TypeInv, TypeOK
  <2>5. Limit(Role[w]) \in Nat \ {0}
    BY LimitAssumption DEF Limit
  <2>6. PICK from : from = Offered(Role[w], b)
    OBVIOUS
  <2>7. rows = Select(from, Limit(Role[w])) /\ rows # {} /\ Fitting(rows, from, Limit(Role[w]))
    BY <2>1, <2>4, <2>5, <2>6, SelectionFits DEF Drawn
  <2>8. PICK open : open = IF Routing /\ Role[w] \notin Slots THEN dir[b].cases ELSE Remaining(Role[w], b)
    OBVIOUS
  <2>9. /\ from = {c \in open : Routing => \A r \in rows : Language[c] = Language[r]}
        /\ from \intersect Remaining(Role[w], b) # {}
    <3>1. rows \subseteq Offered(Role[w], b)
      BY <2>6, <2>7 DEF Fitting
    <3>2. /\ \A c : c \in from <=> c \in open /\ (Routing => \A r \in rows : Language[c] = Language[r])
          /\ from \intersect Remaining(Role[w], b) # {}
      BY <1>1, <2>4, <2>6, <2>7, <2>8, <3>1, OfferedIs
    <3> QED
      BY <3>2
  <2>10. Fits(w, b, rows)
    BY <2>1, <2>7, <2>8, <2>9 DEF Drawn, Fitting, Fits
  <2> QED
    BY <2>2, <2>3, <2>10
<1>2. ASSUME packet' = packet PROVE A
  BY <1>2
<1>3. ASSUME TypeInv, [Next]_vars PROVE A
  <2>1. CASE \E w \in Workers : Draw(w)
    BY <1>1, <1>3, <2>1
  <2>2. CASE \E w \in Workers : MergeOwn(w) \/ MergeFirst(w)
    BY <1>2, <2>2 DEF MergeOwn, MergeFirst, MergeInto, MergeReview, MergeDecisions
  <2>3. CASE \E b \in BatchIds : SaveCheck(b) \/ Repair(b)
    BY <1>2, <2>3 DEF SaveCheck, Repair
  <2>4. CASE FillStep \/ FinalizeStep
    BY <1>2, <2>4 DEF FillStep, FinalizeStep, MakeBatch, WriteBatch, ListBatches,
          Preflight, WriteCorpus, WriteSummary, WritePool, WriteMetadata, WriteFinal, reviews
  <2>5. CASE \/ Create \/ \E snapshot \in Snapshots : Fill(snapshot)
             \/ StartFinalize \/ Kill \/ \E c \in Cases : Correct(c)
    BY <1>2, <2>5 DEF Create, Fill, StartFinalize, Kill, Correct, reviews
  <2>6. CASE UNCHANGED vars
    BY <1>2, <2>6 DEF vars, reviews
  <2> QED
    BY <1>3, <2>1, <2>2, <2>3, <2>4, <2>5, <2>6 DEF Next
<1>4. Spec => []TypeInv
  BY InitTypeInv, NextTypeInv, PTL DEF Spec
<1>5. Spec => [][A]_vars
  BY <1>3, <1>4, PTL DEF Spec
<1> QED
  BY <1>5 DEF PacketsFit
=============================================================================
