-------------------------- MODULE ReleaseWorkflow --------------------------
(***************************************************************************)
(* scripts/next_release_version.py, package_release.py and compare_release_*)
(* candidate.py, run by .github/workflows/release.yml: a dispatched run    *)
(* plans a version from the tags, builds and packages a candidate from the *)
(* commit it saw, has the consumer try it, and publishes it.  One run at a *)
(* time (the concurrency group); a job that failed can be run again later, *)
(* with the plan and the candidate of its own run, after other runs have   *)
(* published.                                                              *)
(*                                                                         *)
(* A release is deterministic: its content is the commit it was built from *)
(* and the version it carries.                                             *)
(***************************************************************************)
EXTENDS Naturals, FiniteSets

CONSTANTS Runs,          \* dispatched runs
          Inputs,        \* the bumps and maturities runs are dispatched with
          None,
          MaxCommit,     \* bound: commits after the first
          MaxReruns      \* bound: runs of which jobs are run again

Bumps == {"major", "minor", "patch"}
Maturities == {"experimental", "candidate", "stable"}

ASSUME WorkflowAssumption ==
    Inputs \subseteq Bumps \X Maturities /\ {MaxCommit, MaxReruns} \subseteq Nat

VARIABLES head,          \* the commit a run that is dispatched now gets
          releases,      \* tag -> what was published under it
          dispatched,    \* the commit and the inputs of a run, once it has begun
          plan,          \* outputs of the plan job
          job,           \* the job a run is at, or where it ended
          attempts,
          artifact,      \* the uploaded candidate
          active         \* the runs under way

vars == <<head, releases, dispatched, plan, job, attempts, artifact, active>>

Jobs == {"plan", "candidate", "consumer-gate", "publish", "verify-published"}

\* Mutant of Below: the patch number is not compared.
BelowMinor(a, b) == a[1] < b[1] \/ (a[1] = b[1] /\ a[2] < b[2])

\* A tag names a base version, a maturity, and a number if it is a prerelease.
Below(a, b) ==
    \/ a[1] < b[1]
    \/ a[1] = b[1] /\ a[2] < b[2]
    \/ a[1] = b[1] /\ a[2] = b[2] /\ a[3] < b[3]

Bump(base, bump) ==
    CASE bump = "major" -> <<base[1] + 1, 0, 0>>
      [] bump = "minor" -> <<base[1], base[2] + 1, 0>>
      [] bump = "patch" -> <<base[1], base[2], base[3] + 1>>

Tags == DOMAIN releases
StableBases(tags) == {t.base : t \in {u \in tags : u.maturity = "stable"}}

CurrentBase(tags) ==
    IF StableBases(tags) = {}
      THEN <<0, 0, 0>>
      ELSE CHOOSE b \in StableBases(tags) : \A c \in StableBases(tags) : ~Below(b, c)

Numbers(tags, base, maturity) ==
    {t.number : t \in {u \in tags : u.base = base /\ u.maturity = maturity}}

NextNumber(tags, base, maturity) ==
    LET numbers == Numbers(tags, base, maturity) \union {0}
    IN  1 + CHOOSE n \in numbers : \A k \in numbers : k <= n

\* next_release_version.
NextVersion(tags, bump, maturity) ==
    LET target == Bump(CurrentBase(tags), bump)
    IN  [base |-> target, maturity |-> maturity,
         number |-> IF maturity = "stable" THEN 0 ELSE NextNumber(tags, target, maturity)]

-----------------------------------------------------------------------------
Init ==
    /\ head = 0
    /\ releases = << >>
    /\ dispatched = [r \in Runs |-> None]
    /\ plan = [r \in Runs |-> None]
    /\ job = [r \in Runs |-> "plan"]
    /\ attempts = [r \in Runs |-> 0]
    /\ artifact = [r \in Runs |-> None]
    /\ active = {}

Push ==
    /\ head < MaxCommit
    /\ head' = head + 1
    /\ UNCHANGED <<releases, dispatched, plan, job, attempts, artifact, active>>

\* Bound: a run is entered again once, and MaxReruns runs are.
MayEnter(r) ==
    \/ attempts[r] = 0
    \/ attempts[r] = 1 /\ Cardinality({s \in Runs : attempts[s] = 2}) < MaxReruns

\* A run has the commit and the inputs it was dispatched with, which it may have
\* waited with for the runs before it, and keeps them when it is run again.
KeepsDispatch(r) ==
    \/ /\ attempts[r] = 0
       /\ \E commit \in 0 .. head, input \in Inputs :
            dispatched' = [dispatched EXCEPT ![r] = [commit |-> commit, input |-> input]]
    \/ attempts[r] # 0 /\ UNCHANGED dispatched

\* Mutant of Enter: there is no concurrency group.
EnterAnytime(r) ==
    /\ job[r] \in Jobs
    /\ MayEnter(r)
    /\ KeepsDispatch(r)
    /\ active' = active \union {r}
    /\ attempts' = [attempts EXCEPT ![r] = @ + 1]
    /\ UNCHANGED <<head, releases, plan, job, artifact>>

\* A dispatched run begins, or its failed jobs are run again, when the
\* concurrency group has no other run under way.
Enter(r) ==
    /\ active = {}
    /\ job[r] \in Jobs
    /\ MayEnter(r)
    /\ KeepsDispatch(r)
    /\ active' = {r}
    /\ attempts' = [attempts EXCEPT ![r] = @ + 1]
    /\ UNCHANGED <<head, releases, plan, job, artifact>>

At(r, j) == r \in active /\ job[r] = j
Goto(r, j) == job' = [job EXCEPT ![r] = j]

\* The tags are those of the moment, the commit and the inputs the run's own.
PlanJob(r) ==
    /\ At(r, "plan")
    /\ LET input == dispatched[r].input
           next == NextVersion(Tags, input[1], input[2])
       IN  /\ input[2] = "stable" => next \notin Tags
           /\ plan' = [plan EXCEPT ![r] = [tag |-> next, commit |-> dispatched[r].commit]]
    /\ Goto(r, "candidate")
    /\ UNCHANGED <<head, releases, dispatched, attempts, artifact, active>>

\* Preflight, release, package_release, verify_release, upload.
CandidateJob(r) ==
    /\ At(r, "candidate")
    /\ artifact' = [artifact EXCEPT ![r] = plan[r]]
    /\ Goto(r, "consumer-gate")
    /\ UNCHANGED <<head, releases, dispatched, plan, attempts, active>>

\* The consumer takes the downloaded candidate.
ConsumerGate(r) ==
    /\ At(r, "consumer-gate")
    /\ Goto(r, "publish")
    /\ UNCHANGED <<head, releases, dispatched, plan, attempts, artifact, active>>

\* gh release create, which makes the tag.
Create(r) ==
    /\ plan[r].tag \notin Tags
    /\ releases' = [t \in Tags \union {plan[r].tag} |->
                      IF t \in Tags THEN releases[t] ELSE artifact[r].commit]

\* Mutant of PublishJob: what is there under the tag is taken as published.
PublishJobUncompared(r) ==
    /\ At(r, "publish")
    /\ Create(r) \/ (plan[r].tag \in Tags /\ UNCHANGED releases)
    /\ Goto(r, "verify-published")
    /\ UNCHANGED <<head, dispatched, plan, attempts, artifact, active>>

\* "Publish or verify immutable release".  Manifest and archive checksums
\* are equal when the commit is.
PublishJob(r) ==
    /\ At(r, "publish")
    /\ \/ Create(r)
       \/ /\ plan[r].tag \in Tags
          /\ releases[plan[r].tag] = artifact[r].commit
          /\ UNCHANGED releases
    /\ Goto(r, "verify-published")
    /\ UNCHANGED <<head, dispatched, plan, attempts, artifact, active>>

VerifyPublished(r) ==
    /\ At(r, "verify-published")
    /\ Goto(r, "success")
    /\ active' = active \ {r}
    /\ UNCHANGED <<head, releases, dispatched, plan, attempts, artifact>>

\* A job fails: checks, network, the runner, a candidate that differs.  The
\* publish job may fail after its release was created.
Fail(r) ==
    /\ r \in active
    /\ active' = active \ {r}
    /\ UNCHANGED releases \/ (job[r] = "publish" /\ Create(r))
    /\ UNCHANGED <<head, dispatched, plan, job, attempts, artifact>>

\* All jobs of the run are run again, the plan too.
RerunAll(r) ==
    /\ active = {}
    /\ job[r] # "plan"
    /\ MayEnter(r)
    /\ Goto(r, "plan")
    /\ plan' = [plan EXCEPT ![r] = None]
    /\ artifact' = [artifact EXCEPT ![r] = None]
    /\ UNCHANGED <<head, releases, dispatched, attempts, active>>

Next ==
    \/ Push
    \/ \E r \in Runs :
         \/ Enter(r) \/ PlanJob(r) \/ CandidateJob(r) \/ ConsumerGate(r) \/ PublishJob(r)
         \/ VerifyPublished(r) \/ Fail(r) \/ RerunAll(r)

Spec == Init /\ [][Next]_vars
-----------------------------------------------------------------------------
Above(a, b) == \E i \in 1 .. 3 : a[i] > b[i] /\ \A j \in 1 .. i - 1 : a[j] = b[j]

(***************************************************************************)
(* SuccessIsPublished: what is public under the tag of a run that ended in *)
(* success is the candidate of the commit that run was dispatched with,    *)
(* whichever run published it and whatever has been pushed, published or   *)
(* run again since.                                                        *)
(***************************************************************************)
SuccessIsPublished ==
    \A r \in Runs :
        job[r] = "success" =>
            /\ plan[r].tag \in Tags
            /\ releases[plan[r].tag] = dispatched[r].commit

(***************************************************************************)
(* PlansAreFresh: a plan never names a version there is a tag of, and its  *)
(* base is above every stable release there is.                            *)
(***************************************************************************)
PlansAreFresh ==
    [][\A r \in Runs :
         plan'[r] \notin {plan[r], None} =>
             /\ plan'[r].tag \notin Tags
             /\ \A b \in StableBases(Tags) : Above(plan'[r].tag.base, b)]_vars

(***************************************************************************)
(* FirstAttemptsAscend: runs being serialized, a release published by the  *)
(* first attempt of a run is above every stable release there is.  (A      *)
(* failed run that is run again publishes its old plan, after others may   *)
(* have gone past it.)                                                     *)
(***************************************************************************)
FirstAttemptsAscend ==
    [][\A t \in DOMAIN releases' \ Tags :
         (\E r \in active : attempts[r] = 1 /\ plan[r] # None /\ plan[r].tag = t) =>
             \A b \in StableBases(Tags) : Above(t.base, b)]_vars
=============================================================================
