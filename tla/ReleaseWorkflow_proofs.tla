----------------------- MODULE ReleaseWorkflow_proofs -----------------------
(***************************************************************************)
(* Proofs about ReleaseWorkflow, for any number of runs, reruns, commits   *)
(* and released versions, whatever runs are dispatched with.               *)
(***************************************************************************)
EXTENDS ReleaseWorkflow, TLAPS

Version == Nat \X Nat \X Nat
Tag == [base : Version, maturity : Maturities, number : Nat]

(***************************************************************************)
(* What a run hands from job to job: the plan, the candidate made of it,   *)
(* and the release, which nothing takes away or replaces once it is there. *)
(***************************************************************************)
RunInv ==
    /\ Tags \subseteq Tag
    /\ job \in [Runs -> Jobs \union {"success"}]
    /\ plan = [r \in Runs |-> plan[r]] /\ artifact = [r \in Runs |-> artifact[r]]
    /\ \A r \in Runs :
         /\ job[r] # "plan" => plan[r].tag \in Tag
         /\ job[r] \in {"consumer-gate", "publish", "verify-published", "success"} =>
              artifact[r] = plan[r]
         /\ job[r] \in {"verify-published", "success"} =>
              plan[r].tag \in Tags /\ releases[plan[r].tag] = plan[r].commit

(***************************************************************************)
(* The script takes the highest stable base and the highest number of the  *)
(* prereleases of a base.  There are such: tags come one by one.           *)
(***************************************************************************)
HasMax(tags) ==
    /\ StableBases(tags) # {} =>
         \E b \in StableBases(tags) : \A c \in StableBases(tags) : ~ Below(b, c)
    /\ \A t \in tags :
         \E n \in Numbers(tags, t.base, t.maturity) :
           \A k \in Numbers(tags, t.base, t.maturity) : k <= n

MaxInv == HasMax(Tags)

(***************************************************************************)
(* While a run is under way for the first time no other run publishes, so  *)
(* its plan stays above the stable releases until it publishes itself.     *)
(***************************************************************************)
FirstInv ==
    /\ attempts \in [Runs -> Nat] /\ active \subseteq Runs
    /\ \A r, s \in active : r = s
    /\ \A r \in active : attempts[r] > 0
    /\ \A r \in Runs : attempts[r] = 0 => job[r] = "plan"
    /\ \A r \in Runs : job[r] = "plan" => plan[r] = None
    /\ \A r \in active :
         attempts[r] = 1 /\ job[r] \in {"candidate", "consumer-gate", "publish"} =>
           \A b \in StableBases(Tags) : Above(plan[r].tag.base, b)

(***************************************************************************)
(* A run keeps the commit and the inputs it began with.                    *)
(***************************************************************************)
DispatchInv ==
    /\ dispatched = [r \in Runs |-> dispatched[r]]
    /\ \A r \in Runs : attempts[r] # 0 => dispatched[r].input \in Inputs
    /\ \A r \in Runs : job[r] # "plan" => plan[r].commit = dispatched[r].commit

Inv == RunInv /\ MaxInv /\ FirstInv /\ DispatchInv

-----------------------------------------------------------------------------
(***************************************************************************)
(* Versions.                                                               *)
(***************************************************************************)
LEMMA VersionIs ==
    ASSUME NEW v \in Version
    PROVE  /\ v[1] \in Nat /\ v[2] \in Nat /\ v[3] \in Nat
           /\ v = <<v[1], v[2], v[3]>>
BY DEF Version

\* The comparison of version parts agrees with the order of versions.
LEMMA AboveIs ==
    ASSUME NEW a \in Version, NEW b \in Version, Below(b, a)
    PROVE  Above(a, b)
<1>1. a[1] \in Nat /\ a[2] \in Nat /\ a[3] \in Nat /\ b[1] \in Nat /\ b[2] \in Nat /\ b[3] \in Nat
  BY VersionIs
<1>2. CASE b[1] < a[1]
  <2>1. a[1] > b[1] /\ \A j \in 1 .. 1 - 1 : a[j] = b[j]
    BY <1>1, <1>2
  <2> QED
    BY <2>1 DEF Above
<1>3. CASE b[1] = a[1] /\ b[2] < a[2]
  <2>1. a[2] > b[2] /\ \A j \in 1 .. 2 - 1 : a[j] = b[j]
    BY <1>1, <1>3
  <2> QED
    BY <2>1 DEF Above
<1>4. CASE b[1] = a[1] /\ b[2] = a[2] /\ b[3] < a[3]
  <2>1. a[3] > b[3] /\ \A j \in 1 .. 3 - 1 : a[j] = b[j]
    <3>1. \A j \in 1 .. 3 - 1 : j = 1 \/ j = 2
      OBVIOUS
    <3> QED
      BY <1>1, <1>4, <3>1
  <2> QED
    BY <2>1 DEF Above
<1> QED
  BY <1>2, <1>3, <1>4 DEF Below

\* Versions are totally ordered.
LEMMA BelowOrders ==
    ASSUME NEW a \in Version, NEW b \in Version, NEW c \in Version
    PROVE  /\ ~ Below(a, a)
           /\ Below(a, b) /\ ~ Below(a, c) => ~ Below(b, c)
<1>1. /\ a[1] \in Nat /\ a[2] \in Nat /\ a[3] \in Nat /\ b[1] \in Nat /\ b[2] \in Nat /\ b[3] \in Nat
      /\ c[1] \in Nat /\ c[2] \in Nat /\ c[3] \in Nat
  BY VersionIs
<1> QED
  BY <1>1 DEF Below

\* A bumped version is above every version that its base is not below.
LEMMA BumpIs ==
    ASSUME NEW base \in Version, NEW bump \in Bumps, NEW c \in Version, ~ Below(base, c)
    PROVE  Bump(base, bump) \in Version /\ Below(c, Bump(base, bump))
<1>1. /\ base[1] \in Nat /\ base[2] \in Nat /\ base[3] \in Nat
      /\ c[1] \in Nat /\ c[2] \in Nat /\ c[3] \in Nat
  BY VersionIs
<1>2. CASE bump = "major"
  <2>1. Bump(base, bump) = <<base[1] + 1, 0, 0>>
    BY <1>2 DEF Bump
  <2> QED
    BY <1>1, <2>1 DEF Version, Below
<1>3. CASE bump = "minor"
  <2>1. Bump(base, bump) = <<base[1], base[2] + 1, 0>>
    BY <1>3 DEF Bump
  <2> QED
    BY <1>1, <2>1 DEF Version, Below
<1>4. CASE bump = "patch"
  <2>1. Bump(base, bump) = <<base[1], base[2], base[3] + 1>>
    BY <1>4 DEF Bump
  <2> QED
    BY <1>1, <2>1 DEF Version, Below
<1> QED
  BY <1>2, <1>3, <1>4 DEF Bumps

\* The stable bases are versions, and a new tag adds its own at most.
LEMMA StableBasesIs ==
    ASSUME NEW tags \in SUBSET Tag
    PROVE  /\ StableBases(tags) \subseteq Version
           /\ \A t \in Tag : StableBases(tags \union {t})
                               = StableBases(tags) \union (IF t.maturity = "stable" THEN {t.base} ELSE {})
<1>1. StableBases(tags) \subseteq Version
  BY DEF StableBases, Tag
<1>2. ASSUME NEW t \in Tag
      PROVE  StableBases(tags \union {t})
               = StableBases(tags) \union (IF t.maturity = "stable" THEN {t.base} ELSE {})
  BY DEF StableBases
<1> QED
  BY <1>1, <1>2

\* One tag more, and there is still a highest of each.
LEMMA MaxAdd ==
    ASSUME NEW tags \in SUBSET Tag, HasMax(tags), NEW t \in Tag
    PROVE  HasMax(tags \union {t})
<1> DEFINE more == tags \union {t}
<1>1. ASSUME StableBases(more) # {}
      PROVE  \E b \in StableBases(more) : \A c \in StableBases(more) : ~ Below(b, c)
  <2>1. StableBases(more) = StableBases(tags) \union (IF t.maturity = "stable" THEN {t.base} ELSE {})
    BY StableBasesIs
  <2>2. StableBases(tags) \subseteq Version /\ t.base \in Version
    BY StableBasesIs DEF Tag
  <2> HIDE DEF more
  <2>3. CASE t.maturity # "stable"
    BY <1>1, <2>1, <2>3 DEF HasMax
  <2>4. CASE t.maturity = "stable" /\ StableBases(tags) = {}
    <3>1. StableBases(more) = {t.base} /\ ~ Below(t.base, t.base)
      BY <2>1, <2>2, <2>4, BelowOrders
    <3> QED
      BY <3>1
  <2>5. CASE t.maturity = "stable" /\ StableBases(tags) # {}
    <3>1. StableBases(more) = StableBases(tags) \union {t.base}
      BY <2>1, <2>5
    <3>2. PICK b \in StableBases(tags) : \A c \in StableBases(tags) : ~ Below(b, c)
      BY <2>5 DEF HasMax
    <3>3. CASE Below(b, t.base)
      <4>1. \A c \in StableBases(more) : ~ Below(t.base, c)
        BY <2>2, <3>1, <3>2, <3>3, BelowOrders
      <4> QED
        BY <3>1, <4>1
    <3>4. CASE ~ Below(b, t.base)
      <4>1. \A c \in StableBases(more) : ~ Below(b, c)
        BY <3>1, <3>2, <3>4
      <4> QED
        BY <3>1, <4>1
    <3> QED
      BY <3>3, <3>4
  <2> QED
    BY <2>3, <2>4, <2>5
<1>2. ASSUME NEW u \in more
      PROVE  \E n \in Numbers(more, u.base, u.maturity) :
               \A k \in Numbers(more, u.base, u.maturity) : k <= n
  <2> DEFINE before == Numbers(tags, u.base, u.maturity)
             after == Numbers(more, u.base, u.maturity)
  <2>1. before \subseteq Nat /\ t.number \in Nat /\ u.number \in Nat
    BY DEF Numbers, Tag
  <2>2. CASE /\ t.base = u.base /\ t.maturity = u.maturity
            /\ \E v \in tags : v.base = u.base /\ v.maturity = u.maturity
    <3>1. after = before \union {t.number}
      BY <2>2 DEF Numbers
    <3>2. PICK n \in before : \A k \in before : k <= n
      BY <2>2 DEF HasMax
    <3> HIDE DEF before, after
    <3>3. CASE n <= t.number
      <4>1. \A k \in after : k <= t.number
        BY <2>1, <3>1, <3>2, <3>3
      <4> QED
        BY <3>1, <4>1 DEF after
    <3>4. CASE ~ (n <= t.number)
      <4>1. \A k \in after : k <= n
        BY <2>1, <3>1, <3>2, <3>4
      <4> QED
        BY <3>1, <4>1 DEF after
    <3> QED
      BY <3>3, <3>4
  <2>3. CASE u \in tags /\ ~ (t.base = u.base /\ t.maturity = u.maturity)
    <3>1. after = before
      BY <2>3 DEF Numbers
    <3> QED
      BY <2>3, <3>1 DEF HasMax
  <2>4. CASE u = t /\ ~ \E v \in tags : v.base = t.base /\ v.maturity = t.maturity
    <3>1. after = {t.number}
      BY <2>4 DEF Numbers
    <3> QED
      BY <2>1, <3>1
  <2> QED
    BY <2>2, <2>3, <2>4
<1> QED
  BY <1>1, <1>2 DEF HasMax

\* What next_release_version answers.
LEMMA NextVersionIs ==
    ASSUME NEW tags \in SUBSET Tag, HasMax(tags), NEW bump \in Bumps, NEW maturity \in Maturities
    PROVE  LET next == NextVersion(tags, bump, maturity)
           IN  /\ next \in Tag
               /\ \A b \in StableBases(tags) : Above(next.base, b)
               /\ maturity # "stable" => next \notin tags
<1> DEFINE cur == CurrentBase(tags)
           target == Bump(cur, bump)
<1>1. cur \in Version /\ \A c \in StableBases(tags) : ~ Below(cur, c)
  <2>1. CASE StableBases(tags) = {}
    BY <2>1 DEF CurrentBase, Version
  <2>2. CASE StableBases(tags) # {}
    <3>1. \E b \in StableBases(tags) : \A c \in StableBases(tags) : ~ Below(b, c)
      BY <2>2 DEF HasMax
    <3>2. cur \in StableBases(tags) /\ \A c \in StableBases(tags) : ~ Below(cur, c)
      BY <2>2, <3>1 DEF CurrentBase
    <3> QED
      BY <3>2, StableBasesIs
  <2> QED
    BY <2>1, <2>2
<1> HIDE DEF cur
<1>2. target \in Version
  BY <1>1, BelowOrders, BumpIs
<1>3. \A b \in StableBases(tags) : Above(target, b)
  BY <1>1, <1>2, StableBasesIs, BumpIs, AboveIs
<1> HIDE DEF target
<1> DEFINE numbers == Numbers(tags, target, maturity) \union {0}
           top == CHOOSE n \in numbers : \A k \in numbers : k <= n
<1>4. top \in Nat /\ \A k \in Numbers(tags, target, maturity) : k <= top
  <2>1. Numbers(tags, target, maturity) \subseteq Nat
    BY DEF Numbers, Tag
  <2>2. \E n \in numbers : \A k \in numbers : k <= n
    <3>1. CASE Numbers(tags, target, maturity) = {}
      BY <3>1
    <3>2. CASE Numbers(tags, target, maturity) # {}
      <4>1. PICK t \in tags : t.base = target /\ t.maturity = maturity
        BY <3>2 DEF Numbers
      <4>2. PICK n \in Numbers(tags, target, maturity) :
               \A k \in Numbers(tags, target, maturity) : k <= n
        BY <4>1 DEF HasMax
      <4> QED
        BY <2>1, <4>2
    <3> QED
      BY <3>1, <3>2
  <2>3. top \in numbers /\ \A k \in numbers : k <= top
    BY <2>2
  <2> QED
    BY <2>1, <2>3
<1>5. NextNumber(tags, target, maturity) = 1 + top
  BY DEF NextNumber
<1> HIDE DEF top
<1> DEFINE next == NextVersion(tags, bump, maturity)
<1>6. next = [base |-> target, maturity |-> maturity,
              number |-> IF maturity = "stable" THEN 0 ELSE 1 + top]
  BY <1>5 DEF NextVersion, target, cur
<1>7. next \in Tag
  BY <1>2, <1>4, <1>6 DEF Tag
<1>8. ASSUME maturity # "stable", next \in tags PROVE FALSE
  <2>1. next.base = target /\ next.maturity = maturity /\ next.number = 1 + top
    BY <1>6, <1>8
  <2>2. 1 + top \in Numbers(tags, target, maturity)
    BY <1>8, <2>1 DEF Numbers
  <2> QED
    BY <1>4, <2>2
<1> QED
  BY <1>3, <1>6, <1>7, <1>8

-----------------------------------------------------------------------------
\* Nothing is released by a run to begin with.
LEMMA InitInv == Init => Inv
<1> SUFFICES ASSUME Init PROVE Inv
  OBVIOUS
<1>1. Tags = {} /\ StableBases(Tags) = {}
  BY DEF Init, Tags, StableBases
<1>2. RunInv
  BY <1>1 DEF Init, RunInv, Jobs
<1>3. MaxInv
  BY <1>1 DEF MaxInv, HasMax
<1>4. FirstInv
  BY DEF Init, FirstInv
<1>5. DispatchInv
  BY DEF Init, DispatchInv
<1> QED
  BY <1>2, <1>3, <1>4, <1>5 DEF Inv

\* A release is created under a tag there was none of, and the rest stay.
LEMMA CreateIs ==
    ASSUME Inv, NEW r \in Runs, job[r] = "publish", Create(r)
    PROVE  /\ plan[r].tag \in Tag \ Tags
           /\ Tags' = Tags \union {plan[r].tag}
           /\ \A t \in Tags : releases'[t] = releases[t]
           /\ releases'[plan[r].tag] = plan[r].commit
BY DEF Create, Inv, RunInv, Tags

\* Releases are only ever added, by the run under way and from its plan.
LEMMA TagsStep ==
    ASSUME Inv, [Next]_vars
    PROVE  \/ UNCHANGED releases
           \/ \E r \in active :
                /\ job[r] = "publish" /\ Create(r)
                /\ PublishJob(r) \/ Fail(r)
<1>1. CASE UNCHANGED vars
  BY <1>1 DEF vars
<1>2. CASE Push
  BY <1>2 DEF Push
<1>3. ASSUME NEW r \in Runs,
             \/ Enter(r) \/ PlanJob(r) \/ CandidateJob(r) \/ ConsumerGate(r)
             \/ VerifyPublished(r) \/ RerunAll(r)
      PROVE  UNCHANGED releases
  BY <1>3 DEF Enter, PlanJob, CandidateJob, ConsumerGate, VerifyPublished, RerunAll
<1>4. ASSUME NEW r \in Runs, PublishJob(r)
      PROVE  UNCHANGED releases \/ (r \in active /\ job[r] = "publish" /\ Create(r))
  BY <1>4 DEF PublishJob, At
<1>5. ASSUME NEW r \in Runs, Fail(r)
      PROVE  UNCHANGED releases \/ (r \in active /\ job[r] = "publish" /\ Create(r))
  BY <1>5 DEF Fail
<1> QED
  BY <1>1, <1>2, <1>3, <1>4, <1>5 DEF Next

\* What is public stays public.
LEMMA TagsStay ==
    ASSUME Inv, [Next]_vars
    PROVE  /\ Tags' \in SUBSET Tag /\ HasMax(Tags')
           /\ Tags \subseteq Tags' /\ \A t \in Tags : releases'[t] = releases[t]
<1>1. Tags \in SUBSET Tag /\ HasMax(Tags)
  BY DEF Inv, RunInv, MaxInv
<1>2. CASE UNCHANGED releases
  <2>1. Tags' = Tags
    BY <1>2 DEF Tags
  <2> QED
    BY <1>1, <1>2, <2>1
<1>3. CASE \E r \in active : job[r] = "publish" /\ Create(r)
  <2>1. PICK r \in active : job[r] = "publish" /\ Create(r)
    BY <1>3
  <2>2. r \in Runs
    BY <2>1 DEF Inv, FirstInv
  <2>3. /\ plan[r].tag \in Tag /\ Tags' = Tags \union {plan[r].tag}
        /\ \A t \in Tags : releases'[t] = releases[t]
    BY <2>1, <2>2, CreateIs
  <2> QED
    BY <1>1, <2>3, MaxAdd
<1> QED
  BY <1>2, <1>3, TagsStep

\* A plan is made of what the run was dispatched with.
LEMMA PlanJobIs ==
    ASSUME Inv, NEW r \in Runs, PlanJob(r)
    PROVE  \E input \in Inputs :
             /\ input[2] = "stable" => NextVersion(Tags, input[1], input[2]) \notin Tags
             /\ plan' = [plan EXCEPT ![r] = [tag |-> NextVersion(Tags, input[1], input[2]),
                                             commit |-> dispatched[r].commit]]
<1>1. dispatched[r].input \in Inputs
  BY DEF Inv, FirstInv, DispatchInv, PlanJob, At
<1>2. PICK input \in Inputs : input = dispatched[r].input
  BY <1>1
<1>3. /\ input[2] = "stable" => NextVersion(Tags, input[1], input[2]) \notin Tags
      /\ plan' = [plan EXCEPT ![r] = [tag |-> NextVersion(Tags, input[1], input[2]),
                                      commit |-> dispatched[r].commit]]
  BY <1>2 DEF PlanJob
<1> QED
  BY <1>3

\* Every job hands on what its run planned.
LEMMA NextRun == Inv /\ [Next]_vars => RunInv'
<1> SUFFICES ASSUME Inv, [Next]_vars PROVE RunInv'
  OBVIOUS
<1>t. /\ Tags' \in SUBSET Tag /\ Tags \subseteq Tags'
      /\ \A t \in Tags : releases'[t] = releases[t]
  BY TagsStay
<1>f. /\ job \in [Runs -> Jobs \union {"success"}]
      /\ plan = [r \in Runs |-> plan[r]] /\ artifact = [r \in Runs |-> artifact[r]]
  BY DEF Inv, RunInv
<1> DEFINE Good(r) ==
             /\ job[r] # "plan" => plan[r].tag \in Tag
             /\ job[r] \in {"consumer-gate", "publish", "verify-published", "success"} =>
                  artifact[r] = plan[r]
             /\ job[r] \in {"verify-published", "success"} =>
                  plan[r].tag \in Tags /\ releases[plan[r].tag] = plan[r].commit
\* A step leaves the run alone, but for what others publish.
<1>s. ASSUME NEW r \in Runs, job'[r] = job[r], plan'[r] = plan[r], artifact'[r] = artifact[r]
      PROVE  Good(r)'
  BY <1>t, <1>s DEF Inv, RunInv
<1>1. ASSUME UNCHANGED <<job, plan, artifact>> PROVE RunInv'
  <2>1. \A r \in Runs : Good(r)'
    BY <1>1, <1>s
  <2> QED
    BY <1>1, <1>f, <1>t, <2>1 DEF RunInv
<1>2. ASSUME NEW r \in Runs, NEW j \in Jobs \union {"success"}, Goto(r, j),
             UNCHANGED <<plan, artifact>>, Good(r)'
      PROVE  RunInv'
  <2>1. job' \in [Runs -> Jobs \union {"success"}]
    BY <1>2, <1>f DEF Goto
  <2>2. \A s \in Runs \ {r} : job'[s] = job[s]
    BY <1>2, <1>f DEF Goto
  <2>3. \A s \in Runs : Good(s)'
    BY <1>2, <1>s, <2>2
  <2> QED
    BY <1>2, <1>f, <1>t, <2>1, <2>3 DEF RunInv
<1>3. CASE Push
  BY <1>1, <1>3 DEF Push
<1>4. ASSUME NEW r \in Runs, Enter(r) PROVE RunInv'
  BY <1>1, <1>4 DEF Enter
<1>5. ASSUME NEW r \in Runs, PlanJob(r) PROVE RunInv'
  <2>1. PICK input \in Inputs :
           plan' = [plan EXCEPT ![r] = [tag |-> NextVersion(Tags, input[1], input[2]),
                                        commit |-> dispatched[r].commit]]
    BY <1>5, PlanJobIs
  <2>2. NextVersion(Tags, input[1], input[2]) \in Tag
    BY WorkflowAssumption, NextVersionIs DEF Inv, RunInv, MaxInv
  <2>3. job' = [job EXCEPT ![r] = "candidate"] /\ UNCHANGED artifact
    BY <1>5 DEF PlanJob, Goto
  <2>4. job'[r] = "candidate" /\ plan'[r].tag \in Tag
    BY <1>f, <2>1, <2>2, <2>3
  <2>5. \A s \in Runs \ {r} : job'[s] = job[s] /\ plan'[s] = plan[s]
    BY <1>f, <2>1, <2>3
  <2>6. \A s \in Runs : Good(s)'
    BY <1>s, <2>3, <2>4, <2>5
  <2>7. /\ job' \in [Runs -> Jobs \union {"success"}]
        /\ plan' = [s \in Runs |-> plan'[s]] /\ artifact' = [s \in Runs |-> artifact'[s]]
    BY <1>f, <2>1, <2>3 DEF Jobs
  <2> QED
    BY <1>t, <2>6, <2>7 DEF RunInv
<1>6. ASSUME NEW r \in Runs, CandidateJob(r) PROVE RunInv'
  <2>1. /\ job[r] = "candidate" /\ artifact' = [artifact EXCEPT ![r] = plan[r]]
        /\ job' = [job EXCEPT ![r] = "consumer-gate"] /\ UNCHANGED plan
    BY <1>6 DEF CandidateJob, At, Goto
  <2>2. job'[r] = "consumer-gate" /\ artifact'[r] = plan'[r] /\ plan'[r].tag \in Tag
    BY <1>f, <2>1 DEF Inv, RunInv
  <2>3. \A s \in Runs \ {r} : job'[s] = job[s] /\ artifact'[s] = artifact[s]
    BY <1>f, <2>1
  <2>4. \A s \in Runs : Good(s)'
    BY <1>s, <2>1, <2>2, <2>3
  <2>5. /\ job' \in [Runs -> Jobs \union {"success"}]
        /\ plan' = [s \in Runs |-> plan'[s]] /\ artifact' = [s \in Runs |-> artifact'[s]]
    BY <1>f, <2>1 DEF Jobs
  <2> QED
    BY <1>t, <2>4, <2>5 DEF RunInv
<1>7. ASSUME NEW r \in Runs, ConsumerGate(r) PROVE RunInv'
  <2>1. job[r] = "consumer-gate" /\ Goto(r, "publish") /\ UNCHANGED <<plan, artifact>>
    BY <1>7 DEF ConsumerGate, At
  <2>2. job'[r] = "publish"
    BY <1>f, <2>1 DEF Goto
  <2>3. Good(r)'
    BY <2>1, <2>2 DEF Inv, RunInv
  <2> QED
    BY <1>2, <2>1, <2>3 DEF Jobs
<1>8. ASSUME NEW r \in Runs, PublishJob(r) PROVE RunInv'
  <2>1. job[r] = "publish" /\ Goto(r, "verify-published") /\ UNCHANGED <<plan, artifact>>
    BY <1>8 DEF PublishJob, At
  <2>2. job'[r] = "verify-published" /\ artifact[r] = plan[r] /\ plan[r].tag \in Tag
    BY <1>f, <2>1 DEF Goto, Inv, RunInv
  <2>3. plan[r].tag \in Tags' /\ releases'[plan[r].tag] = plan[r].commit
    <3>1. CASE Create(r)
      BY <2>1, <3>1, CreateIs
    <3>2. CASE /\ plan[r].tag \in Tags
               /\ releases[plan[r].tag] = artifact[r].commit
      BY <1>t, <2>2, <3>2
    <3> QED
      BY <1>8, <3>1, <3>2 DEF PublishJob
  <2>4. Good(r)'
    BY <2>1, <2>2, <2>3
  <2> QED
    BY <1>2, <2>1, <2>4 DEF Jobs
<1>9. ASSUME NEW r \in Runs, VerifyPublished(r) PROVE RunInv'
  <2>1. job[r] = "verify-published" /\ Goto(r, "success") /\ UNCHANGED <<plan, artifact>>
    BY <1>9 DEF VerifyPublished, At
  <2>2. job'[r] = "success"
    BY <1>f, <2>1 DEF Goto
  <2>3. Good(r)'
    BY <1>t, <2>1, <2>2 DEF Inv, RunInv
  <2> QED
    BY <1>2, <2>1, <2>3
<1>10. ASSUME NEW r \in Runs, Fail(r) PROVE RunInv'
  BY <1>1, <1>10 DEF Fail
<1>11. ASSUME NEW r \in Runs, RerunAll(r) PROVE RunInv'
  <2>1. /\ job' = [job EXCEPT ![r] = "plan"] /\ plan' = [plan EXCEPT ![r] = None]
        /\ artifact' = [artifact EXCEPT ![r] = None]
    BY <1>11 DEF RerunAll, Goto
  <2>2. job'[r] = "plan"
    BY <1>f, <2>1
  <2>3. \A s \in Runs \ {r} : job'[s] = job[s] /\ plan'[s] = plan[s] /\ artifact'[s] = artifact[s]
    BY <1>f, <2>1
  <2>4. \A s \in Runs : Good(s)'
    BY <1>s, <2>2, <2>3
  <2>5. /\ job' \in [Runs -> Jobs \union {"success"}]
        /\ plan' = [s \in Runs |-> plan'[s]] /\ artifact' = [s \in Runs |-> artifact'[s]]
    BY <1>f, <2>1 DEF Jobs
  <2> QED
    BY <1>t, <2>4, <2>5 DEF RunInv
<1>12. CASE UNCHANGED vars
  BY <1>1, <1>12 DEF vars
<1> QED
  BY <1>3, <1>4, <1>5, <1>6, <1>7, <1>8, <1>9, <1>10, <1>11, <1>12 DEF Next

\* The first attempt of a run starts with its plan.
LEMMA NextFirst == Inv /\ [Next]_vars => FirstInv'
<1> SUFFICES ASSUME Inv, [Next]_vars PROVE FirstInv'
  OBVIOUS
<1>f. /\ job \in [Runs -> Jobs \union {"success"}] /\ plan = [r \in Runs |-> plan[r]]
      /\ attempts \in [Runs -> Nat] /\ active \subseteq Runs
      /\ \A r, s \in active : r = s
      /\ \A r \in active : attempts[r] > 0
      /\ \A r \in Runs : attempts[r] = 0 => job[r] = "plan"
      /\ \A r \in Runs : job[r] = "plan" => plan[r] = None
  BY DEF Inv, RunInv, FirstInv
<1> DEFINE Ascends(r) ==
             attempts[r] = 1 /\ job[r] \in {"candidate", "consumer-gate", "publish"} =>
               \A b \in StableBases(Tags) : Above(plan[r].tag.base, b)
<1>a. \A r \in active : Ascends(r)
  BY DEF Inv, FirstInv
<1>t. ASSUME UNCHANGED releases PROVE Tags' = Tags
  BY <1>t DEF Tags
<1>1. CASE Push
  <2>1. UNCHANGED <<releases, plan, job, attempts, active>>
    BY <1>1 DEF Push
  <2>2. \A r \in active : Ascends(r)'
    BY <1>a, <1>t, <2>1
  <2> QED
    BY <1>f, <2>1, <2>2 DEF FirstInv
<1>2. ASSUME NEW r \in Runs, Enter(r) PROVE FirstInv'
  <2>1. /\ job[r] \in Jobs /\ MayEnter(r) /\ active' = {r}
        /\ attempts' = [attempts EXCEPT ![r] = attempts[r] + 1]
        /\ UNCHANGED <<releases, plan, job>>
    BY <1>2 DEF Enter
  <2>2. /\ attempts' \in [Runs -> Nat] /\ attempts'[r] = attempts[r] + 1
        /\ \A s \in Runs \ {r} : attempts'[s] = attempts[s]
    BY <1>f, <2>1
  <2>3. attempts'[r] = 1 => job'[r] = "plan"
    BY <1>f, <2>1, <2>2
  <2>4. \A s \in Runs : attempts'[s] = 0 => job'[s] = "plan"
    BY <1>f, <2>1, <2>2
  <2>5. attempts'[r] > 0
    BY <1>f, <2>2
  <2> QED
    BY <1>f, <2>1, <2>2, <2>3, <2>4, <2>5 DEF FirstInv
\* The run under way goes from one job to the next.
<1>3. ASSUME NEW r \in active, active' \subseteq active, UNCHANGED attempts,
             NEW j \in {"candidate", "consumer-gate", "publish", "verify-published", "success"},
             Goto(r, j), \A s \in Runs \ {r} : plan'[s] = plan[s],
             Ascends(r)'
      PROVE  FirstInv'
  <2>1. job'[r] = j /\ \A s \in Runs \ {r} : job'[s] = job[s]
    BY <1>3, <1>f DEF Goto
  <2>2. \A s \in Runs : attempts'[s] = 0 => job'[s] = "plan"
    BY <1>3, <1>f, <2>1
  <2>3. \A s \in Runs : job'[s] = "plan" => plan'[s] = None
    BY <1>3, <1>f, <2>1
  <2>4. \A s \in active' : s = r
    BY <1>3, <1>f
  <2> QED
    BY <1>3, <1>f, <2>2, <2>3, <2>4 DEF FirstInv
<1>4. ASSUME NEW r \in Runs, PlanJob(r) PROVE FirstInv'
  <2>1. /\ r \in active /\ Goto(r, "candidate") /\ job[r] = "plan"
        /\ UNCHANGED <<releases, attempts, active>>
    BY <1>4 DEF PlanJob, At
  <2>2. PICK input \in Inputs :
           plan' = [plan EXCEPT ![r] = [tag |-> NextVersion(Tags, input[1], input[2]),
                                        commit |-> dispatched[r].commit]]
    BY <1>4, PlanJobIs
  <2>3. plan'[r].tag = NextVersion(Tags, input[1], input[2]) /\ \A s \in Runs \ {r} : plan'[s] = plan[s]
    BY <1>f, <2>2
  <2>4. \A b \in StableBases(Tags) : Above(plan'[r].tag.base, b)
    BY <2>3, WorkflowAssumption, NextVersionIs DEF Inv, RunInv, MaxInv
  <2>5. Ascends(r)'
    BY <1>t, <2>1, <2>4
  <2> QED
    BY <1>3, <2>1, <2>3, <2>5
<1>5. ASSUME NEW r \in Runs, CandidateJob(r) PROVE FirstInv'
  <2>1. /\ r \in active /\ Goto(r, "consumer-gate") /\ job[r] = "candidate"
        /\ UNCHANGED <<releases, plan, attempts, active>>
    BY <1>5 DEF CandidateJob, At
  <2>2. Ascends(r)'
    BY <1>a, <1>t, <2>1
  <2> QED
    BY <1>3, <2>1, <2>2
<1>6. ASSUME NEW r \in Runs, ConsumerGate(r) PROVE FirstInv'
  <2>1. /\ r \in active /\ Goto(r, "publish") /\ job[r] = "consumer-gate"
        /\ UNCHANGED <<releases, plan, attempts, active>>
    BY <1>6 DEF ConsumerGate, At
  <2>2. Ascends(r)'
    BY <1>a, <1>t, <2>1
  <2> QED
    BY <1>3, <2>1, <2>2
<1>7. ASSUME NEW r \in Runs, PublishJob(r) PROVE FirstInv'
  <2>1. /\ r \in active /\ Goto(r, "verify-published")
        /\ UNCHANGED <<plan, attempts, active>>
    BY <1>7 DEF PublishJob, At
  <2>2. job'[r] = "verify-published"
    BY <1>f, <2>1 DEF Goto
  <2> QED
    BY <1>3, <2>1, <2>2
<1>8. ASSUME NEW r \in Runs, VerifyPublished(r) PROVE FirstInv'
  <2>1. /\ r \in active /\ Goto(r, "success") /\ active' = active \ {r}
        /\ UNCHANGED <<plan, attempts>>
    BY <1>8 DEF VerifyPublished, At
  <2>2. job'[r] = "success"
    BY <1>f, <2>1 DEF Goto
  <2> QED
    BY <1>3, <2>1, <2>2
<1>9. ASSUME NEW r \in Runs, Fail(r) PROVE FirstInv'
  <2>1. r \in active /\ active' = active \ {r} /\ UNCHANGED <<plan, job, attempts>>
    BY <1>9 DEF Fail
  <2>2. active' = {}
    BY <1>f, <2>1
  <2> QED
    BY <1>f, <2>1, <2>2 DEF FirstInv
<1>10. ASSUME NEW r \in Runs, RerunAll(r) PROVE FirstInv'
  <2>1. /\ active = {} /\ job[r] # "plan" /\ UNCHANGED <<attempts, active>>
        /\ job' = [job EXCEPT ![r] = "plan"] /\ plan' = [plan EXCEPT ![r] = None]
    BY <1>10 DEF RerunAll, Goto
  <2>2. \A s \in Runs : attempts[s] = 0 => job'[s] = "plan"
    BY <1>f, <2>1
  <2>3. \A s \in Runs : job'[s] = "plan" => plan'[s] = None
    BY <1>f, <2>1
  <2> QED
    BY <1>f, <2>1, <2>2, <2>3 DEF FirstInv
<1>11. CASE UNCHANGED vars
  <2>1. UNCHANGED <<releases, plan, job, attempts, active>>
    BY <1>11 DEF vars
  <2>2. \A r \in active : Ascends(r)'
    BY <1>a, <1>t, <2>1
  <2> QED
    BY <1>f, <2>1, <2>2 DEF FirstInv
<1> QED
  BY <1>1, <1>2, <1>4, <1>5, <1>6, <1>7, <1>8, <1>9, <1>10, <1>11 DEF Next

\* What a run was dispatched with changes only when it begins.
LEMMA NextDispatch == Inv /\ [Next]_vars => DispatchInv'
<1> SUFFICES ASSUME Inv, [Next]_vars PROVE DispatchInv'
  OBVIOUS
<1>f. /\ job \in [Runs -> Jobs \union {"success"}] /\ plan = [r \in Runs |-> plan[r]]
      /\ attempts \in [Runs -> Nat]
      /\ dispatched = [r \in Runs |-> dispatched[r]]
      /\ \A r \in Runs : attempts[r] = 0 => job[r] = "plan"
      /\ \A r \in Runs : attempts[r] # 0 => dispatched[r].input \in Inputs
      /\ \A r \in Runs : job[r] # "plan" => plan[r].commit = dispatched[r].commit
  BY DEF Inv, RunInv, FirstInv, DispatchInv
<1>1. CASE UNCHANGED <<dispatched, plan, job, attempts>>
  BY <1>1, <1>f DEF DispatchInv
<1>2. ASSUME NEW r \in Runs, Enter(r) PROVE DispatchInv'
  <2>1. /\ attempts' = [attempts EXCEPT ![r] = attempts[r] + 1]
        /\ KeepsDispatch(r) /\ UNCHANGED <<plan, job>>
    BY <1>2 DEF Enter
  <2>2. \A s \in Runs \ {r} : attempts'[s] = attempts[s]
    BY <1>f, <2>1
  <2>3. CASE attempts[r] # 0 /\ UNCHANGED dispatched
    <3>1. \A s \in Runs : attempts'[s] # 0 => attempts[s] # 0
      BY <2>2, <2>3
    <3> QED
      BY <1>f, <2>1, <2>3, <3>1 DEF DispatchInv
  <2>4. ASSUME attempts[r] = 0, NEW commit, NEW input \in Inputs,
               dispatched' = [dispatched EXCEPT ![r] = [commit |-> commit, input |-> input]]
        PROVE  DispatchInv'
    <3>1. /\ dispatched' = [s \in Runs |-> dispatched'[s]]
          /\ dispatched'[r].input \in Inputs
          /\ \A s \in Runs \ {r} : dispatched'[s] = dispatched[s]
      BY <1>f, <2>4
    <3>2. job'[r] = "plan"
      BY <1>f, <2>1, <2>4
    <3> QED
      BY <1>f, <2>1, <2>2, <3>1, <3>2 DEF DispatchInv
  <2> QED
    BY <2>1, <2>3, <2>4 DEF KeepsDispatch
<1>3. ASSUME NEW r \in Runs, PlanJob(r) PROVE DispatchInv'
  <2>1. PICK input \in Inputs :
           plan' = [plan EXCEPT ![r] = [tag |-> NextVersion(Tags, input[1], input[2]),
                                        commit |-> dispatched[r].commit]]
    BY <1>3, PlanJobIs
  <2>2. job' = [job EXCEPT ![r] = "candidate"] /\ UNCHANGED <<dispatched, attempts>>
    BY <1>3 DEF PlanJob, Goto
  <2>3. plan'[r].commit = dispatched'[r].commit
    BY <1>f, <2>1, <2>2
  <2>4. \A s \in Runs \ {r} : job'[s] = job[s] /\ plan'[s] = plan[s]
    BY <1>f, <2>1, <2>2
  <2> QED
    BY <1>f, <2>2, <2>3, <2>4 DEF DispatchInv
\* The other jobs start when there is a plan.
<1>4. ASSUME NEW r \in Runs, NEW j, Goto(r, j), job[r] # "plan", UNCHANGED <<dispatched, plan, attempts>>
      PROVE  DispatchInv'
  <2>1. \A s \in Runs \ {r} : job'[s] = job[s]
    BY <1>4, <1>f DEF Goto
  <2> QED
    BY <1>4, <1>f, <2>1 DEF DispatchInv
<1>5. ASSUME NEW r \in Runs, CandidateJob(r) \/ ConsumerGate(r) \/ PublishJob(r) \/ VerifyPublished(r)
      PROVE  DispatchInv'
  <2>1. /\ \E j : Goto(r, j)
        /\ job[r] # "plan" /\ UNCHANGED <<dispatched, plan, attempts>>
    BY <1>5 DEF CandidateJob, ConsumerGate, PublishJob, VerifyPublished, At
  <2> QED
    BY <1>4, <2>1
<1>6. ASSUME NEW r \in Runs, RerunAll(r) PROVE DispatchInv'
  <2>1. /\ job' = [job EXCEPT ![r] = "plan"] /\ plan' = [plan EXCEPT ![r] = None]
        /\ UNCHANGED <<dispatched, attempts>>
    BY <1>6 DEF RerunAll, Goto
  <2>2. job'[r] = "plan" /\ \A s \in Runs \ {r} : job'[s] = job[s] /\ plan'[s] = plan[s]
    BY <1>f, <2>1
  <2> QED
    BY <1>f, <2>1, <2>2 DEF DispatchInv
<1> QED
  BY <1>1, <1>2, <1>3, <1>5, <1>6 DEF Next, Push, Fail, vars

\* Every step keeps the invariant.
LEMMA NextInv == Inv /\ [Next]_vars => Inv'
BY NextRun, NextFirst, NextDispatch, TagsStay DEF Inv, MaxInv

(***************************************************************************)
(* What is public under the tag of a run that ended in success is the      *)
(* candidate of the commit it was dispatched with, whatever has been run   *)
(* since.                                                                  *)
(***************************************************************************)
THEOREM SuccessStaysPublished == Spec => []SuccessIsPublished
<1>1. Inv => SuccessIsPublished
  BY DEF Inv, RunInv, DispatchInv, SuccessIsPublished
<1> QED
  BY InitInv, NextInv, <1>1, PTL DEF Spec

(***************************************************************************)
(* A plan never names a version there is a tag of, and its base is above   *)
(* every stable release: the guard of the plan job is for stable versions  *)
(* only, the number takes care of the others.                              *)
(***************************************************************************)
THEOREM PlansAreNew == Spec => PlansAreFresh
<1>1. ASSUME Inv, [Next]_vars
      PROVE  [\A r \in Runs :
                plan'[r] \notin {plan[r], None} =>
                  /\ plan'[r].tag \notin Tags
                  /\ \A b \in StableBases(Tags) : Above(plan'[r].tag.base, b)]_vars
  <2> SUFFICES ASSUME NEW r \in Runs, plan'[r] \notin {plan[r], None}
               PROVE  /\ plan'[r].tag \notin Tags
                      /\ \A b \in StableBases(Tags) : Above(plan'[r].tag.base, b)
    OBVIOUS
  <2>1. plan = [s \in Runs |-> plan[s]]
    BY <1>1 DEF Inv, RunInv
  <2>2. CASE \E s \in Runs : PlanJob(s)
    <3>1. PICK s \in Runs, input \in Inputs :
             /\ input[2] = "stable" => NextVersion(Tags, input[1], input[2]) \notin Tags
             /\ plan' = [plan EXCEPT ![s] = [tag |-> NextVersion(Tags, input[1], input[2]),
                                             commit |-> dispatched[s].commit]]
      BY <1>1, <2>2, PlanJobIs
    <3> DEFINE next == NextVersion(Tags, input[1], input[2])
    <3>2. s = r /\ plan'[r].tag = next
      BY <2>1, <3>1
    <3>3. /\ \A b \in StableBases(Tags) : Above(next.base, b)
          /\ input[2] # "stable" => next \notin Tags
      BY <1>1, WorkflowAssumption, NextVersionIs DEF Inv, RunInv, MaxInv
    <3> QED
      BY <3>1, <3>2, <3>3
  <2>3. CASE \E s \in Runs : RerunAll(s)
    BY <2>1, <2>3 DEF RerunAll
  <2>4. CASE UNCHANGED plan
    BY <2>4
  <2> QED
    BY <1>1, <2>2, <2>3, <2>4
       DEF Next, vars, Push, Enter, CandidateJob, ConsumerGate, PublishJob, VerifyPublished, Fail
<1> QED
  BY InitInv, NextInv, <1>1, PTL DEF Spec, PlansAreFresh

(***************************************************************************)
(* Runs being serialized, what the first attempt of a run publishes is     *)
(* above every stable release there is.                                    *)
(***************************************************************************)
THEOREM FirstAttemptsGoUp == Spec => FirstAttemptsAscend
<1>1. ASSUME Inv, [Next]_vars
      PROVE  [\A t \in DOMAIN releases' \ Tags :
                (\E r \in active : attempts[r] = 1 /\ plan[r] # None /\ plan[r].tag = t) =>
                  \A b \in StableBases(Tags) : Above(t.base, b)]_vars
  <2> SUFFICES ASSUME NEW t \in DOMAIN releases' \ Tags,
                      NEW r \in active, attempts[r] = 1, plan[r].tag = t
               PROVE  \A b \in StableBases(Tags) : Above(t.base, b)
    OBVIOUS
  <2>1. releases' # releases
    BY DEF Tags
  <2>2. PICK s \in active : job[s] = "publish"
    BY <1>1, <2>1, TagsStep
  <2>3. r = s
    BY <1>1, <2>2 DEF Inv, FirstInv
  <2> QED
    BY <1>1, <2>2, <2>3 DEF Inv, FirstInv
<1> QED
  BY InitInv, NextInv, <1>1, PTL DEF Spec, FirstAttemptsAscend
=============================================================================
