---------------------------- MODULE Publication ----------------------------
(***************************************************************************)
(* release.py, build_corpus_release and release-preflight: every canonical *)
(* record gets one public form or a reason to be left out, and a release   *)
(* directory is filled with the result.  The maintainer goes on deciding   *)
(* source policy (SourcePolicy) while a release is built; the build may be *)
(* killed at any file.                                                     *)
(***************************************************************************)
EXTENDS SourcePolicy, SequencesExt

CONSTANTS Records,       \* ids of the canonical records
          Observations,  \* each record's source_observations, in order
          AllowLists,    \* values of --release-sources; {} is none
          Torn,          \* a file cut short
          MaxBuilds,     \* bound: releases built into the directory
          MaxCrashes     \* bound: killed builds

ASSUME PublicationBounds == {MaxBuilds, MaxCrashes} \subseteq Nat

ASSUME ObservationAssumption ==
    \A r \in Records : Observations[r] \in Seq([source : Sources, mode : Modes])

VARIABLES out,           \* the release directory: each file and the build that wrote it
          hashes,        \* file_hashes of the directory's manifest.json
          builds,        \* what each build read and decided, in order
          step,          \* where the running build is
          crashes

vars == <<manifest, decisions, changes, out, hashes, builds, step, crashes>>

-----------------------------------------------------------------------------
SourcesOf(r) == {o.source : o \in ToSet(Observations[r])}

\* _source_capabilities.
Capabilities(e, ds) ==
    LET granted == IF ds # {} THEN (CHOOSE d \in ds : TRUE).outcome
                   ELSE IF e.ready THEN Normalized(e) ELSE "review_required"
    IN  CASE granted = "embedded_public"   -> Modes
          [] granted = "external_ref_only" -> {"external_ref"}
          [] OTHER                         -> {}

\* What one observation contributes: a mode, "excluded" or "blocked".
Share(o, m, ds, allow) ==
    LET mine == DecisionOn(o.source, ds)
        can  == Capabilities(Effective(m, ds)[o.source], mine)
        blocked == \/ allow # {} /\ o.source \notin allow
                   \/ \E d \in mine : ~Applicable(d, m)
    IN  IF blocked THEN "blocked"
        ELSE IF \E d \in mine : d.outcome = "exclude_public" THEN "excluded"
        ELSE IF o.mode \in can THEN o.mode
        ELSE IF "embedded" \in can THEN "embedded"
        ELSE IF "external_ref" \in can THEN "external_ref"
        ELSE "blocked"

With(r, shares, share) == {Observations[r][i].source : i \in {j \in DOMAIN shares : shares[j] = share}}

\* The excluded sources are counted, and compared with the observations.
ModeOf(r, shares) ==
    LET embedded    == With(r, shares, "embedded") # {}
        externalRef == With(r, shares, "external_ref") # {}
        excluded    == /\ With(r, shares, "excluded") # {}
                       /\ With(r, shares, "blocked") = {}
                       /\ Cardinality(With(r, shares, "excluded")) = Len(Observations[r])
    IN  IF embedded THEN "embedded"
        ELSE IF externalRef THEN "external_ref"
        ELSE IF excluded THEN "excluded"
        ELSE "blocked"

\* plan_publication_records: mode and publication basis of every record.
Plan(m, ds, allow) ==
    [r \in Records |->
       LET shares == [i \in DOMAIN Observations[r] |-> Share(Observations[r][i], m, ds, allow)]
           mode   == ModeOf(r, shares)
       IN  [mode |-> mode, basis |-> IF mode \in Modes THEN With(r, shares, mode) ELSE {}]]

\* Mutant of Overlay: the text stays in.
OverlayWithText(observation) ==
    [text |-> TRUE, observations |-> {[observation EXCEPT !.mode = "external_ref"]}]

\* build_v2_external_overlay: no input text, and one observation.
Overlay(observation) ==
    [text |-> FALSE, observations |-> {[observation EXCEPT !.mode = "external_ref"]}]

\* _materialize_publication_plan, of one published record: its observations
\* in the sources of the basis, or the first one in one of these sources.
Materialized(r, row) ==
    IF row.mode = "embedded"
      THEN [text |-> TRUE,
            observations |-> {o \in ToSet(Observations[r]) : o.source \in row.basis}]
      ELSE LET source == CHOOSE s \in row.basis : TRUE
               first  == Min({i \in DOMAIN Observations[r] : Observations[r][i].source = source})
           IN  Overlay(Observations[r][first])

\* _select_release_records: with an allowlist, records go out as they are.
Selected(allow) ==
    [r \in {x \in Records : SourcesOf(x) # {} /\ SourcesOf(x) \subseteq allow} |->
       [text |-> TRUE, observations |-> ToSet(Observations[r])]]

\* The records of corpus.jsonl.
Published(m, ds, allow) ==
    IF allow # {}
      THEN Selected(allow)
      ELSE LET plan == Plan(m, ds, {})
           IN  [r \in {x \in Records : plan[x].mode \in Modes} |-> Materialized(r, plan[r])]

\* Mutant of Enforced: the form an observation is published in is not looked at.
EnforcedInAnyForm(published, entry) ==
    \A r \in DOMAIN published : \A o \in published[r].observations :
        /\ entry[o.source].ready
        /\ Normalized(entry[o.source]) \in {"embedded_public", "external_ref_only"}

\* _enforce_source_materialization, on the manifest the release will carry.
Enforced(published, entry) ==
    \A r \in DOMAIN published : \A o \in published[r].observations :
        /\ entry[o.source].ready
        /\ \/ Normalized(entry[o.source]) = "embedded_public"
           \/ o.mode = "external_ref" /\ Normalized(entry[o.source]) = "external_ref_only"

\* Mutant of Gate: blocked records are left out instead of refused.
GateSkipsBlocked(m, ds, allow) ==
    /\ ValidManifest(m.entry)
    /\ AllApplicable(ds, m)
    /\ Enforced(Published(m, ds, allow), Effective(m, ds))

\* What build_corpus_release checks of policy before it writes a file.
Gate(m, ds, allow) ==
    /\ ValidManifest(m.entry)
    /\ AllApplicable(ds, m)
    /\ allow = {} => \A r \in Records : Plan(m, ds, {})[r].mode # "blocked"
    /\ Enforced(Published(m, ds, allow), Effective(m, ds))

\* build_release_preflight: `ready`, of what it says about policy.
PreflightReady(m, ds, allow) ==
    /\ ValidManifest(m.entry)
    /\ AllApplicable(ds, m)
    /\ \A r \in Records : Plan(m, ds, allow)[r].mode # "blocked"

-----------------------------------------------------------------------------
\* The files of a release, in the order they are written; publication_plan
\* .json is there only without an allowlist.
Payload == <<"sources", "corpus", "plan">>
Files == ToSet(Payload) \union {"manifest", "sums"}
Empty == [f \in Files |-> 0]
Running == Len(builds)
Wanted(f) == f = "plan" => builds[Running].allow = {}

Steps == {"idle", "read", "decide", "sources", "corpus", "plan", "manifest", "sums"}
Follows == [read |-> "decide", decide |-> "sources", sources |-> "corpus", corpus |-> "plan",
            plan |-> "manifest", manifest |-> "sums", sums |-> "idle"]

Init ==
    /\ PolicyInit
    /\ out = Empty
    /\ hashes = Empty
    /\ builds = <<>>
    /\ step = "idle"
    /\ crashes = 0

\* Mutant of Start: the directory is filled over what it holds.
StartOver(allow) ==
    /\ step = "idle"
    /\ Len(builds) < MaxBuilds
    /\ builds' = Append(builds, [allow |-> allow, base |-> None, decisions |-> {}])
    /\ step' = "read"
    /\ UNCHANGED <<policyVars, out, hashes, crashes>>

\* The old directory goes first, before anything is read.
Start(allow) ==
    /\ step = "idle"
    /\ Len(builds) < MaxBuilds
    /\ builds' = Append(builds, [allow |-> allow, base |-> None, decisions |-> {}])
    /\ out' = Empty
    /\ hashes' = Empty
    /\ step' = "read"
    /\ UNCHANGED <<policyVars, crashes>>

\* base_manifest = read_json(...).
Read ==
    /\ step = "read"
    /\ builds' = [builds EXCEPT ![Running].base = manifest]
    /\ step' = "decide"
    /\ UNCHANGED <<policyVars, out, hashes, crashes>>

\* The decisions file is read, and everything is checked; a build that is
\* refused has written nothing and is forgotten.
Check ==
    /\ step = "decide"
    /\ IF Gate(builds[Running].base, decisions, builds[Running].allow)
         THEN /\ builds' = [builds EXCEPT ![Running].decisions = decisions]
              /\ step' = "sources"
         ELSE /\ builds' = Front(builds)
              /\ step' = "idle"
    /\ UNCHANGED <<policyVars, out, hashes, crashes>>

WriteFile(f) ==
    /\ step = f
    /\ f \in ToSet(Payload)
    /\ out' = IF Wanted(f) THEN [out EXCEPT ![f] = Running] ELSE out
    /\ step' = Follows[f]
    /\ UNCHANGED <<policyVars, hashes, builds, crashes>>

\* file_hashes is taken of every file found, those of other builds too.
WriteManifest ==
    /\ step = "manifest"
    /\ out' = [out EXCEPT !["manifest"] = Running]
    /\ hashes' = [f \in Files |-> IF f \in ToSet(Payload) THEN out[f] ELSE 0]
    /\ step' = "sums"
    /\ UNCHANGED <<policyVars, builds, crashes>>

WriteSums ==
    /\ step = "sums"
    /\ out' = [out EXCEPT !["sums"] = Running]
    /\ step' = "idle"
    /\ UNCHANGED <<policyVars, hashes, builds, crashes>>

\* The build is killed, in the middle of a file or of rmtree.
Crash ==
    /\ step # "idle"
    /\ crashes < MaxCrashes
    /\ crashes' = crashes + 1
    /\ step' = "idle"
    /\ out' \in {out} \union
         (IF step \in Files THEN {[out EXCEPT ![step] = Torn]} ELSE {})
    /\ UNCHANGED <<policyVars, hashes, builds>>

\* A build killed in its rmtree: any of the files may be left.
CrashInClear ==
    /\ step = "idle"
    /\ Len(builds) < MaxBuilds
    /\ crashes < MaxCrashes
    /\ crashes' = crashes + 1
    /\ \E gone \in SUBSET Files : out' = [f \in Files |-> IF f \in gone THEN 0 ELSE out[f]]
    /\ UNCHANGED <<policyVars, hashes, builds, step>>

Next ==
    \/ PolicyNext /\ UNCHANGED <<out, hashes, builds, step, crashes>>
    \/ \E allow \in AllowLists : Start(allow)
    \/ Read
    \/ Check
    \/ \E f \in ToSet(Payload) : WriteFile(f)
    \/ WriteManifest
    \/ WriteSums
    \/ Crash
    \/ CrashInClear

Spec == Init /\ [][Next]_vars
-----------------------------------------------------------------------------
\* verify_release: every file manifest.json lists is there with its hash.
Verified ==
    /\ out["manifest"] \notin {0, Torn}
    /\ \A f \in ToSet(Payload) : hashes[f] # 0 => out[f] = hashes[f]

Built == builds[out["manifest"]]
Release == Published(Built.base, Built.decisions, Built.allow)

\* What the decisions and, where there is none, the manifest allow.
Authorized(s, mode) ==
    LET ds == DecisionOn(s, Built.decisions)
        e  == Built.base.entry[s]
        policy == IF ds = {} THEN (IF e.ready THEN Normalized(e) ELSE "review_required")
                  ELSE (CHOOSE d \in ds : TRUE).outcome
    IN  policy = "embedded_public" \/ (mode = "external_ref" /\ policy = "external_ref_only")

(***************************************************************************)
(* TypeOK: manifests stay consistent, decisions are about editions there   *)
(* have been, and a build writes its files in order into a directory that  *)
(* holds no other build's files but those a killed rmtree left.            *)
(***************************************************************************)
TypeOK ==
    /\ changes \in 0 .. MaxChanges
    /\ manifest.edition \in 0 .. changes
    /\ \A s \in Sources : manifest.entry[s] \in Entry
    /\ ValidManifest(manifest.entry)
    /\ \A d \in decisions : d \in Decision /\ d.edition <= manifest.edition
    /\ step \in Steps
    /\ out \in [Files -> (0 .. Len(builds)) \union {Torn}]
    /\ hashes \in [Files -> 0 .. Len(builds)]
    /\ step # "idle" => \A f \in Files : out[f] \in {0, Running}
    /\ crashes \in 0 .. MaxCrashes

(***************************************************************************)
(* VerifiedIsOneBuild: a directory verify_release accepts holds the files  *)
(* of one build, all of them and no other's, whatever was killed while it  *)
(* or an earlier release was written there.                                *)
(***************************************************************************)
VerifiedIsOneBuild ==
    Verified =>
        \A f \in ToSet(Payload) :
            hashes[f] = IF f = "plan" /\ Built.allow # {} THEN 0 ELSE out["manifest"]

(***************************************************************************)
(* ReferencesAreAuthorized: in a verified release, every source reference  *)
(* a record keeps is in a form that the source's decision, or without one  *)
(* the manifest the build read, allows: however the policy has changed     *)
(* since, and whatever other sources the record has.                       *)
(***************************************************************************)
ReferencesAreAuthorized ==
    Verified =>
        LET release == Release
        IN  \A r \in DOMAIN release : \A o \in release[r].observations :
                Authorized(o.source, o.mode)

(***************************************************************************)
(* TextIsAuthorized: where no allowlist is given, a record is published    *)
(* with its text only if a source of it may be embedded.                   *)
(***************************************************************************)
TextIsAuthorized ==
    Verified /\ Built.allow = {} =>
        LET release == Release
        IN  \A r \in DOMAIN release :
                release[r].text =>
                    \E o \in release[r].observations : Authorized(o.source, "embedded")

(***************************************************************************)
(* OmittedIsExcluded: a record is missing from a verified release without  *)
(* allowlist only if every source it was observed in was excluded by       *)
(* decision (SOURCE_POLICY.md: "deliberately omit affected records").      *)
(***************************************************************************)
OmittedIsExcluded ==
    Verified /\ Built.allow = {} =>
        \A r \in Records \ DOMAIN Release : \A s \in SourcesOf(r) :
            \E d \in Built.decisions : d.source = s /\ d.outcome = "exclude_public"

(***************************************************************************)
(* ExclusionsDoNotBlock: what SOURCE_POLICY.md says of the same decision,  *)
(* "may deliberately omit affected records without blocking the release":  *)
(* a record whose every source is excluded is left out, not blocked.       *)
(***************************************************************************)
ExclusionsDoNotBlock ==
    ValidManifest(manifest.entry) /\ AllApplicable(decisions, manifest) =>
        \A r \in Records :
            (\A s \in SourcesOf(r) : \E d \in decisions : d.source = s /\ d.outcome = "exclude_public") =>
                Plan(manifest, decisions, {})[r].mode = "excluded"

(***************************************************************************)
(* PreflightPredicts: what release-preflight reports ready, the release    *)
(* does not refuse for policy: plan, materialization and the enforcement   *)
(* on the filtered manifest agree for every manifest and decisions file.   *)
(***************************************************************************)
PreflightPredicts ==
    PreflightReady(manifest, decisions, {}) => Gate(manifest, decisions, {})
=============================================================================
