---------------------------- MODULE SourcePolicy ----------------------------
(***************************************************************************)
(* source_policy.py and source_manifest.py: what may be published of each  *)
(* upstream source.  The manifest states a policy for every source; a      *)
(* decision made by the maintainer against one edition of the manifest     *)
(* either overrides it for one release (effective_source_manifest) or is   *)
(* written into it (apply_source_decision).                                *)
(*                                                                         *)
(* source_manifest_hash is the number of the manifest's edition: two       *)
(* editions never have the same content, since an applied decision leaves  *)
(* its own hash in the entry.                                              *)
(***************************************************************************)
EXTENDS Naturals, FiniteSets, Sequences

CONSTANTS Sources,       \* names of the upstream sources
          Entries,       \* the manifest entries a source may start with
          Outcomes,      \* the decisions a maintainer makes
          None,
          MaxChanges     \* bound: decisions made, withdrawn and applied, and new revisions

ASSUME PolicyBounds == MaxChanges \in Nat

VARIABLES manifest,      \* sources/manifest.json
          decisions,     \* release/source-release-decisions.json
          changes

policyVars == <<manifest, decisions, changes>>

Policies == {"embedded_public", "external_ref_only", "importer_only", "review_required"}
Redistributions ==
    {"allowed", "metadata_only", "importer_only", "review_required", "not_redistributable"}
Modes == {"embedded", "external_ref"}

\* `policy` is None where the entry has no materialization_policy; `applied`
\* is the outcome of the decision whose hash the entry carries, with the
\* edition it was made against.
Entry == [revision : Nat \ {0}, ready : BOOLEAN, policy : Policies \union {None},
          redistribution : Redistributions, applied : {None} \union (Nat \X Outcomes)]

ASSUME EntryAssumption == Entries \subseteq Entry /\ None \notin Policies

Decision == [source : Sources, revision : Nat \ {0}, edition : Nat, outcome : Outcomes,
             complete : BOOLEAN]

-----------------------------------------------------------------------------
Normalized(e) ==
    CASE e.policy # None -> e.policy
      [] e.policy = None /\ e.redistribution = "allowed" -> "embedded_public"
      [] e.policy = None /\ e.redistribution \in {"metadata_only", "not_redistributable"}
           -> "external_ref_only"
      [] e.policy = None /\ e.redistribution = "importer_only" -> "importer_only"
      [] OTHER -> "review_required"

\* validate_source_manifest, of what it says about policy.
Consistent(e) ==
    LET policy == Normalized(e)
    IN  /\ e.redistribution = "allowed" => policy = "embedded_public"
        /\ e.redistribution \in {"metadata_only", "not_redistributable"} =>
             policy # "embedded_public"
        /\ e.redistribution = "importer_only" => policy = "importer_only"

ValidManifest(entry) == \A s \in DOMAIN entry : Consistent(entry[s])

PolicyOf(outcome) ==
    IF outcome \in {"embedded_public", "external_ref_only"} THEN outcome ELSE "review_required"

RedistributionOf(outcome) ==
    CASE outcome = "embedded_public"   -> "allowed"
      [] outcome = "external_ref_only" -> "metadata_only"
      [] OTHER                         -> "not_redistributable"

\* validate_source_decision.  `complete`: the maintainer approved, and
\* reviewers A and B agree or the decision carries an adjudication.
Applicable(d, m) ==
    /\ d.revision = m.entry[d.source].revision
    /\ d.edition = m.edition
    /\ d.complete

\* validate_source_decisions: one decision per source, each of them applicable.
AllApplicable(ds, m) ==
    /\ \A d, e \in ds : d.source = e.source => d = e
    /\ \A d \in ds : Applicable(d, m)

DecisionOn(s, ds) == {d \in ds : d.source = s}

\* Mutant of Effective: the decision sets the source ready and leaves its policy.
EffectiveReadyOnly(m, ds) ==
    [s \in Sources |->
       IF DecisionOn(s, ds) = {} THEN m.entry[s] ELSE [m.entry[s] EXCEPT !.ready = TRUE]]

\* effective_source_manifest; used only when AllApplicable(ds, m).
Effective(m, ds) ==
    [s \in Sources |->
       IF DecisionOn(s, ds) = {}
         THEN m.entry[s]
         ELSE LET outcome == (CHOOSE d \in ds : d.source = s).outcome
              IN  [m.entry[s] EXCEPT
                     !.ready = outcome # "needs_human_legal_review",
                     !.policy = PolicyOf(outcome),
                     !.redistribution = RedistributionOf(outcome)]]

\* Mutant of Settled: the redistribution status is left behind.
SettledPolicyOnly(e, d) ==
    [e EXCEPT !.ready = d.outcome \in {"embedded_public", "external_ref_only"},
              !.policy = PolicyOf(d.outcome),
              !.applied = <<d.edition, d.outcome>>]

\* The entry apply_source_decision writes: unlike Effective it leaves an
\* excluded source not ready.
Settled(e, d) ==
    [e EXCEPT !.ready = d.outcome \in {"embedded_public", "external_ref_only"},
              !.policy = PolicyOf(d.outcome),
              !.redistribution = RedistributionOf(d.outcome),
              !.applied = <<d.edition, d.outcome>>]

-----------------------------------------------------------------------------
PolicyInit ==
    /\ manifest \in [edition : {0}, entry : [Sources -> Entries]]
    /\ ValidManifest(manifest.entry)
    /\ decisions = {}
    /\ changes = 0

Change == changes < MaxChanges /\ changes' = changes + 1

\* make_source_decision, entered in the decisions file.
Decide(s, outcome, complete) ==
    /\ Change
    /\ decisions' = decisions \union
         {[source |-> s, revision |-> manifest.entry[s].revision,
           edition |-> manifest.edition, outcome |-> outcome, complete |-> complete]}
    /\ UNCHANGED manifest

Withdraw(d) ==
    /\ Change
    /\ d \in decisions
    /\ decisions' = decisions \ {d}
    /\ UNCHANGED manifest

Edit(entry) ==
    /\ Change
    /\ manifest' = [edition |-> manifest.edition + 1, entry |-> entry]
    /\ UNCHANGED decisions

\* source-policy-apply --write.  A decision that is already in the entry is
\* answered without a write.
Apply(d) ==
    /\ d \in decisions
    /\ manifest.entry[d.source].applied # <<d.edition, d.outcome>>
    /\ Applicable(d, manifest)
    /\ Edit([manifest.entry EXCEPT ![d.source] = Settled(@, d)])

\* The maintainer pins a new upstream revision.
Repin(s) == Edit([manifest.entry EXCEPT ![s].revision = @ + 1])

PolicyNext ==
    \/ \E s \in Sources, outcome \in Outcomes, complete \in BOOLEAN :
         Decide(s, outcome, complete)
    \/ \E d \in decisions : Withdraw(d) \/ Apply(d)
    \/ \E s \in Sources : Repin(s)
=============================================================================
