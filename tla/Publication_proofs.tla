------------------------- MODULE Publication_proofs -------------------------
(***************************************************************************)
(* Proofs about Publication, for any sources, policies, decisions, records *)
(* and allowlists, and any number of builds and killed builds.             *)
(***************************************************************************)
EXTENDS Publication, SequenceTheorems, WellFoundedInduction, TLAPS

Manifest == [edition : Nat, entry : [Sources -> Entry]]
Build == [allow : AllowLists, base : Manifest \union {None}, decisions : SUBSET Decision]

(***************************************************************************)
(* The policy, which changes whatever a build is doing.                    *)
(***************************************************************************)
PolicyInv ==
    /\ manifest \in Manifest /\ ValidManifest(manifest.entry)
    /\ changes \in 0 .. MaxChanges /\ manifest.edition <= changes
    /\ decisions \subseteq Decision
    /\ \A d \in decisions : d.edition <= manifest.edition

(***************************************************************************)
(* The directory.  What a running build has written is given by its step:  *)
(* it began with an empty directory.  Once there is a manifest it belongs  *)
(* to a build that was not refused, and lists that build's files.          *)
(***************************************************************************)
Filled(files, n) == [f \in Files |-> IF f \in files THEN n ELSE 0]

\* The files of a release that its manifest lists.
Listed(allow) == {f \in ToSet(Payload) : f = "plan" => allow = {}}

Before(s, allow) ==
    CASE s \in {"read", "decide", "sources"} -> {}
      [] s = "corpus"   -> {"sources"}
      [] s = "plan"     -> {"sources", "corpus"}
      [] s = "manifest" -> Listed(allow)
      [] s = "sums"     -> Listed(allow) \union {"manifest"}

Passed(build) == build.base \in Manifest /\ Gate(build.base, build.decisions, build.allow)

TypeInv ==
    /\ builds \in Seq(Build) /\ step \in Steps /\ crashes \in 0 .. MaxCrashes
    /\ out \in [Files -> (0 .. Len(builds)) \union {Torn}]
    /\ hashes \in [Files -> 0 .. Len(builds)]

RunningInv ==
    /\ step # "idle" =>
         /\ Running > 0
         /\ out = Filled(Before(step, builds[Running].allow), Running)
         /\ hashes = IF step = "sums" THEN Filled(Listed(builds[Running].allow), Running) ELSE Empty
    /\ step = "decide" => builds[Running].base \in Manifest
    /\ step \in Files => Passed(builds[Running])

DoneInv ==
    out["manifest"] \notin {0, Torn} =>
        /\ out["manifest"] \in 1 .. Len(builds)
        /\ hashes = Filled(Listed(Built.allow), out["manifest"])
        /\ Passed(Built)

Inv == PolicyInv /\ TypeInv /\ RunningInv /\ DoneInv

-----------------------------------------------------------------------------
(***************************************************************************)
(* Policy.                                                                 *)
(***************************************************************************)
\* Of what redistribution stands for, only the policy counts once it is set.
LEMMA NormalizedIs ==
    ASSUME NEW e \in Entry
    PROVE  e.policy \in Policies => Normalized(e) = e.policy
BY EntryAssumption DEF Normalized

\* An applied decision leaves a consistent entry.
LEMMA SettledIs ==
    ASSUME NEW e \in Entry, NEW d \in Decision
    PROVE  Settled(e, d) \in Entry /\ Consistent(Settled(e, d))
<1> DEFINE new == Settled(e, d)
<1>1. /\ PolicyOf(d.outcome) \in Policies
      /\ RedistributionOf(d.outcome) \in Redistributions
      /\ <<d.edition, d.outcome>> \in Nat \X Outcomes
  BY DEF PolicyOf, RedistributionOf, Policies, Redistributions, Decision
<1>2. /\ new \in Entry
      /\ new.policy = PolicyOf(d.outcome) /\ new.redistribution = RedistributionOf(d.outcome)
  <2> DEFINE ready == d.outcome \in {"embedded_public", "external_ref_only"}
  <2>1. ready \in BOOLEAN
    OBVIOUS
  <2>2. new = [e EXCEPT !.ready = ready, !.policy = PolicyOf(d.outcome),
                        !.redistribution = RedistributionOf(d.outcome),
                        !.applied = <<d.edition, d.outcome>>]
    BY DEF Settled
  <2> HIDE DEF ready, new
  <2> QED
    BY <1>1, <2>1, <2>2 DEF Entry
<1>3. Normalized(new) = PolicyOf(d.outcome)
  BY <1>1, <1>2, NormalizedIs
<1> HIDE DEF new
<1>4. Consistent(new)
  BY <1>2, <1>3 DEF Consistent, PolicyOf, RedistributionOf
<1> QED
  BY <1>2, <1>4 DEF new

\* The manifest with one entry replaced.
LEMMA EditInv ==
    ASSUME PolicyInv, NEW s \in Sources, NEW e \in Entry, Consistent(e),
           Edit([manifest.entry EXCEPT ![s] = e])
    PROVE  PolicyInv'
<1> DEFINE entry == [manifest.entry EXCEPT ![s] = e]
<1>1. manifest.edition \in Nat /\ manifest.entry \in [Sources -> Entry]
  BY DEF PolicyInv, Manifest
<1>2. entry \in [Sources -> Entry] /\ ValidManifest(entry)
  BY <1>1 DEF PolicyInv, ValidManifest
<1> HIDE DEF entry
<1>3. manifest' = [edition |-> manifest.edition + 1, entry |-> entry]
  BY DEF Edit, entry
<1>4. manifest' \in Manifest /\ manifest'.edition = manifest.edition + 1 /\ ValidManifest(manifest'.entry)
  BY <1>1, <1>2, <1>3 DEF Manifest
<1>5. changes < MaxChanges /\ changes' = changes + 1 /\ decisions' = decisions
  BY DEF Edit, Change
<1>6. changes' \in 0 .. MaxChanges /\ manifest'.edition <= changes'
  BY <1>1, <1>4, <1>5, PolicyBounds DEF PolicyInv
<1>7. \A d \in decisions : d.edition <= manifest'.edition
  <2>1. \A d \in decisions : d.edition \in Nat
    BY DEF PolicyInv, Decision
  <2> QED
    BY <1>1, <1>4, <2>1 DEF PolicyInv
<1> QED
  BY <1>4, <1>5, <1>6, <1>7 DEF PolicyInv

\* The policy stays valid, whatever is decided and applied.
LEMMA NextPolicy ==
    ASSUME PolicyInv, PolicyNext \/ UNCHANGED policyVars
    PROVE  PolicyInv'
<1>0. manifest.edition \in Nat /\ manifest.entry \in [Sources -> Entry]
  BY DEF PolicyInv, Manifest
<1>1. ASSUME NEW s \in Sources, NEW outcome \in Outcomes, NEW complete \in BOOLEAN,
             Decide(s, outcome, complete)
      PROVE  PolicyInv'
  <2> DEFINE d == [source |-> s, revision |-> manifest.entry[s].revision,
                   edition |-> manifest.edition, outcome |-> outcome, complete |-> complete]
  <2>1. manifest.entry[s].revision \in Nat \ {0}
    BY <1>0 DEF Entry
  <2>2. d \in Decision /\ d.edition = manifest.edition
    BY <1>0, <2>1 DEF Decision
  <2> HIDE DEF d
  <2>3. decisions' = decisions \union {d} /\ manifest' = manifest
    BY <1>1 DEF Decide, d
  <2>4. decisions' \subseteq Decision /\ \A x \in decisions' : x.edition <= manifest.edition
    BY <1>0, <2>2, <2>3 DEF PolicyInv
  <2>5. changes' \in 0 .. MaxChanges /\ manifest.edition <= changes'
    BY <1>0, <1>1, PolicyBounds DEF Decide, Change, PolicyInv
  <2> QED
    BY <2>3, <2>4, <2>5 DEF PolicyInv
<1>2. ASSUME NEW d \in decisions, Withdraw(d) PROVE PolicyInv'
  <2>1. decisions' \subseteq decisions /\ manifest' = manifest
    BY <1>2 DEF Withdraw
  <2>2. changes' \in 0 .. MaxChanges /\ manifest.edition <= changes'
    BY <1>0, <1>2, PolicyBounds DEF Withdraw, Change, PolicyInv
  <2> QED
    BY <2>1, <2>2 DEF PolicyInv
<1>3. ASSUME NEW d \in decisions, Apply(d) PROVE PolicyInv'
  <2>1. d \in Decision /\ d.source \in Sources
    BY DEF PolicyInv, Decision
  <2>2. Settled(manifest.entry[d.source], d) \in Entry /\ Consistent(Settled(manifest.entry[d.source], d))
    BY <1>0, <2>1, SettledIs
  <2>3. Edit([manifest.entry EXCEPT ![d.source] = Settled(manifest.entry[d.source], d)])
    BY <1>3 DEF Apply
  <2> QED
    BY <2>1, <2>2, <2>3, EditInv
<1>4. ASSUME NEW s \in Sources, Repin(s) PROVE PolicyInv'
  <2> DEFINE old == manifest.entry[s]
             new == [old EXCEPT !.revision = old.revision + 1]
  <2>1. old \in Entry /\ Consistent(old)
    BY <1>0 DEF PolicyInv, ValidManifest
  <2>2. new \in Entry /\ new.policy = old.policy /\ new.redistribution = old.redistribution
    BY <2>1 DEF Entry
  <2>3. [manifest.entry EXCEPT ![s].revision = @ + 1] = [manifest.entry EXCEPT ![s] = new]
    BY <1>0
  <2> HIDE DEF new
  <2>4. Consistent(new)
    BY <2>1, <2>2 DEF Consistent, Normalized
  <2>5. Edit([manifest.entry EXCEPT ![s] = new])
    BY <1>4, <2>3 DEF Repin
  <2> QED
    BY <2>2, <2>4, <2>5, EditInv
<1>5. CASE UNCHANGED policyVars
  BY <1>5 DEF policyVars, PolicyInv
<1> QED
  BY <1>1, <1>2, <1>3, <1>4, <1>5 DEF PolicyNext

-----------------------------------------------------------------------------
(***************************************************************************)
(* The directory.                                                          *)
(***************************************************************************)
LEMMA FilesAre ==
    /\ ToSet(Payload) = {"sources", "corpus", "plan"}
    /\ Files = {"sources", "corpus", "plan", "manifest", "sums"}
    /\ \A allow : Listed(allow) = {"sources", "corpus"} \union (IF allow = {} THEN {"plan"} ELSE {})
<1>1. ToSet(Payload) = {"sources", "corpus", "plan"}
  <2>1. DOMAIN Payload = 1 .. 3 /\ Payload[1] = "sources" /\ Payload[2] = "corpus" /\ Payload[3] = "plan"
    BY DEF Payload
  <2>2. 1 .. 3 = {1, 2, 3}
    OBVIOUS
  <2> QED
    BY <2>1, <2>2 DEF ToSet
<1>2. Files = {"sources", "corpus", "plan", "manifest", "sums"}
  BY <1>1 DEF Files
<1> QED
  BY <1>1, <1>2 DEF Listed

\* The invariant holds initially.
LEMMA InitInv == Init => Inv
<1> SUFFICES ASSUME Init PROVE Inv
  OBVIOUS
<1>1. PolicyInv
  <2>1. manifest.edition = 0 /\ manifest.entry \in [Sources -> Entries] /\ manifest \in Manifest
    BY EntryAssumption DEF Init, PolicyInit, Manifest
  <2> QED
    BY <2>1, PolicyBounds DEF Init, PolicyInit, PolicyInv
<1>2. TypeInv
  <2>1. << >> \in Seq(Build) /\ Len(<< >>) = 0
    BY EmptySeq
  <2> QED
    BY <2>1, PublicationBounds DEF Init, TypeInv, Steps, Empty
<1>3. RunningInv
  BY FilesAre DEF Init, RunningInv
<1>4. DoneInv
  BY FilesAre DEF Init, DoneInv, Empty
<1> QED
  BY <1>1, <1>2, <1>3, <1>4 DEF Inv

\* While a build is under way and has not written the manifest, there is none.
LEMMA NoManifestYet ==
    ASSUME Inv
    PROVE  /\ step \in {"read", "decide", "sources"} => out = Empty /\ hashes = Empty
           /\ step \in {"corpus", "plan", "manifest"} => out["manifest"] = 0
<1>1. step \in {"read", "decide", "sources"} => out = Empty /\ hashes = Empty
  BY DEF Inv, RunningInv, Before, Filled, Empty
<1>2. step \in {"corpus", "plan", "manifest"} => "manifest" \notin Before(step, builds[Running].allow)
  BY FilesAre DEF Before
<1>3. step \in {"corpus", "plan", "manifest"} => out["manifest"] = 0
  BY <1>2, FilesAre DEF Inv, RunningInv, Filled
<1> QED
  BY <1>1, <1>3

\* The running build's record, when it is filled in.
LEMMA RunningRecord ==
    ASSUME Inv, Running > 0, NEW build \in Build, builds' = [builds EXCEPT ![Running] = build]
    PROVE  builds' \in Seq(Build) /\ Len(builds') = Len(builds) /\ builds'[Running] = build
<1>1. builds \in Seq(Build) /\ Running \in 1 .. Len(builds)
  BY LenProperties DEF Inv, TypeInv, Running
<1> QED
  BY <1>1, ExceptSeq

\* Policy changes leave the directory alone.
LEMMA PolicyStep ==
    ASSUME Inv, PolicyNext, UNCHANGED <<out, hashes, builds, step, crashes>>
    PROVE  Inv'
<1>1. PolicyInv'
  BY NextPolicy DEF Inv
<1>2. TypeInv' /\ RunningInv' /\ DoneInv'
  BY DEF Inv, TypeInv, RunningInv, DoneInv, Built, Running
<1> QED
  BY <1>1, <1>2 DEF Inv

\* A build begins with an empty directory.
LEMMA StartStep ==
    ASSUME Inv, NEW allow \in AllowLists, Start(allow)
    PROVE  Inv'
<1> DEFINE build == [allow |-> allow, base |-> None, decisions |-> {}]
<1>1. /\ builds' = Append(builds, build) /\ out' = Empty /\ hashes' = Empty
      /\ step' = "read" /\ UNCHANGED <<policyVars, crashes>>
  BY DEF Start
<1>2. build \in Build
  BY DEF Build
<1>3. builds' \in Seq(Build) /\ Len(builds') = Len(builds) + 1 /\ Len(builds) \in Nat
  BY <1>1, <1>2, AppendProperties, LenProperties DEF Inv, TypeInv
<1>4. PolicyInv'
  BY <1>1, NextPolicy DEF Inv
<1>5. TypeInv'
  BY <1>1, <1>3 DEF Inv, TypeInv, Steps, Empty
<1>6. RunningInv'
  BY <1>1, <1>3, FilesAre DEF RunningInv, Running, Before, Filled, Empty
<1>7. DoneInv'
  BY <1>1, FilesAre DEF DoneInv, Empty
<1> QED
  BY <1>4, <1>5, <1>6, <1>7 DEF Inv

\* A build reads a valid manifest.
LEMMA ReadStep ==
    ASSUME Inv, Read
    PROVE  Inv'
<1> DEFINE old == builds[Running]
           new == [old EXCEPT !.base = manifest]
<1>1. step = "read" /\ step' = "decide" /\ UNCHANGED <<policyVars, out, hashes, crashes>>
  BY DEF Read
<1>2. builds \in Seq(Build) /\ Running \in 1 .. Len(builds) /\ Running > 0
  BY <1>1, LenProperties DEF Inv, TypeInv, RunningInv, Running
<1>3. old \in Build
  BY <1>2, ElementOfSeq
<1>4. new \in Build /\ new.base = manifest /\ new.allow = old.allow
  BY <1>3 DEF Build, Inv, PolicyInv
<1>5. builds' = [builds EXCEPT ![Running] = new]
  BY <1>2 DEF Read
<1> HIDE DEF new
<1>6. builds' \in Seq(Build) /\ Len(builds') = Len(builds) /\ builds'[Running] = new
  BY <1>2, <1>4, <1>5, RunningRecord
<1>7. Running' = Running
  BY <1>6 DEF Running
<1>8. out = Empty /\ hashes = Empty
  BY <1>1, NoManifestYet
<1>9. PolicyInv' /\ manifest \in Manifest
  BY <1>1, NextPolicy DEF Inv, PolicyInv
<1>10. TypeInv'
  BY <1>1, <1>6 DEF Inv, TypeInv, Steps
<1>11. RunningInv'
  BY <1>1, <1>2, <1>4, <1>6, <1>7, <1>8, <1>9, FilesAre DEF RunningInv, Before, Filled, Empty
<1>12. DoneInv'
  BY <1>1, <1>8, FilesAre DEF DoneInv, Empty
<1> QED
  BY <1>9, <1>10, <1>11, <1>12 DEF Inv

\* A build goes on only if its gate is passed.
LEMMA CheckStep ==
    ASSUME Inv, Check
    PROVE  Inv'
<1> DEFINE old == builds[Running]
           new == [old EXCEPT !.decisions = decisions]
<1>1. step = "decide" /\ UNCHANGED <<policyVars, out, hashes, crashes>>
  BY DEF Check
<1>2. builds \in Seq(Build) /\ Running \in 1 .. Len(builds) /\ Running > 0
  BY <1>1, LenProperties DEF Inv, TypeInv, RunningInv, Running
<1>3. old \in Build /\ old.base \in Manifest
  BY <1>1, <1>2, ElementOfSeq DEF Inv, RunningInv
<1>4. out = Empty /\ hashes = Empty
  BY <1>1, NoManifestYet
<1>5. PolicyInv'
  BY <1>1, NextPolicy DEF Inv
<1>6. DoneInv'
  BY <1>1, <1>4, FilesAre DEF DoneInv, Empty
<1>7. CASE Gate(old.base, decisions, old.allow)
  <2>1. new \in Build /\ new.base = old.base /\ new.allow = old.allow /\ new.decisions = decisions
    BY <1>3 DEF Build, Inv, PolicyInv
  <2>2. builds' = [builds EXCEPT ![Running] = new] /\ step' = "sources"
    BY <1>2, <1>7 DEF Check
  <2> HIDE DEF new
  <2>3. builds' \in Seq(Build) /\ Len(builds') = Len(builds) /\ builds'[Running] = new
    BY <1>2, <2>1, <2>2, RunningRecord
  <2>4. Running' = Running
    BY <2>3 DEF Running
  <2>5. TypeInv'
    BY <1>1, <2>2, <2>3 DEF Inv, TypeInv, Steps
  <2>6. Passed(new)
    BY <1>3, <1>7, <2>1 DEF Passed
  <2>7. RunningInv'
    BY <1>1, <1>2, <1>4, <2>2, <2>3, <2>4, <2>6, FilesAre DEF RunningInv, Before, Filled, Empty
  <2> QED
    BY <1>5, <1>6, <2>5, <2>7 DEF Inv
<1>8. CASE ~ Gate(old.base, decisions, old.allow)
  <2>1. builds' = SubSeq(builds, 1, Len(builds) - 1) /\ step' = "idle"
    BY <1>8 DEF Check, Front
  <2>2. Len(builds) \in Nat /\ Len(builds) > 0 /\ \A i \in 1 .. Len(builds) - 1 : builds[i] \in Build
    BY <1>2, ElementOfSeq, LenProperties DEF Running
  <2>3. builds' \in Seq(Build)
    BY <2>1, <2>2, SubSeqProperties, Len(builds) - 1 \in Int
  <2>4. TypeInv'
    BY <1>1, <1>4, <2>1, <2>3, LenProperties DEF Inv, TypeInv, Steps, Empty
  <2>5. RunningInv'
    BY <2>1, FilesAre DEF RunningInv
  <2> QED
    BY <1>5, <1>6, <2>4, <2>5 DEF Inv
<1> QED
  BY <1>7, <1>8

\* The next file of the payload is written.
LEMMA WriteFileStep ==
    ASSUME Inv, NEW f \in ToSet(Payload), WriteFile(f)
    PROVE  Inv'
<1> DEFINE allow == builds[Running].allow
<1>1. /\ step = f /\ step' = Follows[f] /\ UNCHANGED <<policyVars, hashes, builds, crashes>>
      /\ out' = IF f = "plan" => allow = {} THEN [out EXCEPT ![f] = Running] ELSE out
  BY DEF WriteFile, Wanted
<1>2. f \in {"sources", "corpus", "plan"} /\ f \in Files /\ step # "idle"
  BY <1>1, FilesAre
<1>3. /\ Running > 0 /\ Running \in 1 .. Len(builds) /\ Running' = Running
      /\ out = Filled(Before(f, allow), Running) /\ hashes = Empty
      /\ Passed(builds[Running])
  BY <1>1, <1>2, LenProperties DEF Inv, TypeInv, RunningInv, Running
<1> HIDE DEF allow
<1>4. out' = Filled(Before(f, allow) \union (IF f = "plan" => allow = {} THEN {f} ELSE {}), Running)
  BY <1>1, <1>2, <1>3 DEF Filled
<1>5. Before(Follows[f], allow) = Before(f, allow) \union (IF f = "plan" => allow = {} THEN {f} ELSE {})
  <2>1. CASE f = "sources"
    BY <2>1 DEF Follows, Before
  <2>2. CASE f = "corpus"
    BY <2>2 DEF Follows, Before
  <2>3. CASE f = "plan"
    BY <2>3, FilesAre DEF Follows, Before
  <2> QED
    BY <1>2, <2>1, <2>2, <2>3
<1>6. Follows[f] \in {"corpus", "plan", "manifest"}
  BY <1>2 DEF Follows
<1>7. out'["manifest"] = 0
  BY <1>4, <1>5, <1>6, FilesAre DEF Filled, Before
<1>8. PolicyInv'
  BY <1>1, NextPolicy DEF Inv
<1>9. TypeInv'
  <2>1. out' \in [Files -> (0 .. Len(builds)) \union {Torn}]
    BY <1>3, <1>4 DEF Filled
  <2> QED
    BY <1>1, <1>6, <2>1 DEF Inv, TypeInv, Steps
<1>10. RunningInv'
  BY <1>1, <1>3, <1>4, <1>5, <1>6 DEF RunningInv, allow
<1>11. DoneInv'
  BY <1>7 DEF DoneInv
<1> QED
  BY <1>8, <1>9, <1>10, <1>11 DEF Inv

\* The manifest lists the files of its own build.
LEMMA WriteManifestStep ==
    ASSUME Inv, WriteManifest
    PROVE  Inv'
<1> DEFINE allow == builds[Running].allow
<1>1. /\ step = "manifest" /\ step' = "sums" /\ UNCHANGED <<policyVars, builds, crashes>>
      /\ out' = [out EXCEPT !["manifest"] = Running]
      /\ hashes' = [f \in Files |-> IF f \in ToSet(Payload) THEN out[f] ELSE 0]
  BY DEF WriteManifest
<1>2. /\ Running > 0 /\ Running \in 1 .. Len(builds) /\ Running' = Running
      /\ out = Filled(Listed(allow), Running)
      /\ Passed(builds[Running])
  BY <1>1, FilesAre, LenProperties DEF Inv, TypeInv, RunningInv, Running, Before
<1> HIDE DEF allow
<1>3. out' = Filled(Listed(allow) \union {"manifest"}, Running) /\ out'["manifest"] = Running
  BY <1>1, <1>2, FilesAre DEF Filled
<1>4. hashes' = Filled(Listed(allow), Running)
  <2>1. Listed(allow) \subseteq ToSet(Payload)
    BY DEF Listed
  <2> QED
    BY <1>1, <1>2, <2>1 DEF Filled
<1>5. PolicyInv'
  BY <1>1, NextPolicy DEF Inv
<1>6. TypeInv'
  <2>1. /\ out' \in [Files -> (0 .. Len(builds)) \union {Torn}]
        /\ hashes' \in [Files -> 0 .. Len(builds)]
    BY <1>2, <1>3, <1>4 DEF Filled
  <2> QED
    BY <1>1, <2>1 DEF Inv, TypeInv, Steps
<1>7. RunningInv'
  BY <1>1, <1>2, <1>3, <1>4 DEF RunningInv, Before, allow
<1>8. DoneInv'
  BY <1>1, <1>2, <1>3, <1>4 DEF DoneInv, Built, allow
<1> QED
  BY <1>5, <1>6, <1>7, <1>8 DEF Inv

\* The checksums complete the directory of one build.
LEMMA WriteSumsStep ==
    ASSUME Inv, WriteSums
    PROVE  Inv'
<1>1. /\ step = "sums" /\ step' = "idle" /\ UNCHANGED <<policyVars, hashes, builds, crashes>>
      /\ out' = [out EXCEPT !["sums"] = Running]
  BY DEF WriteSums
<1>2. Running \in 1 .. Len(builds)
  BY <1>1, LenProperties DEF Inv, TypeInv, RunningInv, Running
<1>3. out'["manifest"] = out["manifest"]
  BY <1>1, FilesAre DEF Inv, TypeInv
<1>4. PolicyInv'
  BY <1>1, NextPolicy DEF Inv
<1>5. TypeInv'
  <2>1. out' \in [Files -> (0 .. Len(builds)) \union {Torn}]
    <3>1. Running \in (0 .. Len(builds)) \union {Torn}
      BY <1>2
    <3> QED
      BY <1>1, <3>1 DEF Inv, TypeInv
  <2> QED
    BY <1>1, <2>1 DEF Inv, TypeInv, Steps
<1>6. RunningInv'
  BY <1>1, FilesAre DEF RunningInv
<1>7. DoneInv'
  BY <1>1, <1>3 DEF Inv, DoneInv, Built
<1> QED
  BY <1>4, <1>5, <1>6, <1>7 DEF Inv

\* A build is killed: a file may be torn, or some of the files may be gone.
LEMMA CrashSteps ==
    ASSUME Inv, Crash \/ CrashInClear
    PROVE  Inv'
<1>1. /\ step' = "idle" /\ UNCHANGED <<policyVars, hashes, builds>>
      /\ crashes' \in 0 .. MaxCrashes
  BY PublicationBounds DEF Crash, CrashInClear, Inv, TypeInv
<1>2. /\ out' \in [Files -> (0 .. Len(builds)) \union {Torn}]
      /\ out'["manifest"] \in {out["manifest"], 0, Torn}
  <2>1. out \in [Files -> (0 .. Len(builds)) \union {Torn}] /\ "manifest" \in Files
    BY FilesAre DEF Inv, TypeInv
  <2>2. CASE Crash
    <3>1. CASE out' = out
      BY <2>1, <3>1
    <3>2. CASE out' = [out EXCEPT ![step] = Torn]
      BY <2>1, <3>2
    <3> QED
      BY <2>2, <3>1, <3>2 DEF Crash
  <2>3. CASE CrashInClear
    <3>1. PICK gone \in SUBSET Files : out' = [f \in Files |-> IF f \in gone THEN 0 ELSE out[f]]
      BY <2>3 DEF CrashInClear
    <3>2. Len(builds) \in Nat
      BY LenProperties DEF Inv, TypeInv
    <3> QED
      BY <2>1, <3>1, <3>2
  <2> QED
    BY <2>2, <2>3
<1>3. PolicyInv'
  BY <1>1, NextPolicy DEF Inv
<1>4. TypeInv'
  BY <1>1, <1>2 DEF Inv, TypeInv, Steps
<1>5. RunningInv'
  BY <1>1, FilesAre DEF RunningInv
<1>6. DoneInv'
  BY <1>1, <1>2 DEF Inv, DoneInv, Built
<1> QED
  BY <1>3, <1>4, <1>5, <1>6 DEF Inv

\* Every step keeps the invariant.
LEMMA NextInv == Inv /\ [Next]_vars => Inv'
<1> SUFFICES ASSUME Inv, [Next]_vars PROVE Inv'
  OBVIOUS
<1>1. CASE UNCHANGED vars
  <2>1. PolicyInv'
    BY <1>1, NextPolicy DEF vars, policyVars, Inv
  <2>2. TypeInv' /\ RunningInv' /\ DoneInv'
    BY <1>1 DEF vars, Inv, TypeInv, RunningInv, DoneInv, Built, Running
  <2> QED
    BY <2>1, <2>2 DEF Inv
<1> QED
  BY <1>1, PolicyStep, StartStep, ReadStep, CheckStep, WriteFileStep, WriteManifestStep,
     WriteSumsStep, CrashSteps DEF Next

\* The invariant holds throughout.
THEOREM Invariance == Spec => []Inv
<1>1. Init => Inv
  BY InitInv
<1>2. Inv /\ [Next]_vars => Inv'
  BY NextInv
<1> QED
  BY <1>1, <1>2, PTL DEF Spec

(***************************************************************************)
(* TypeOK: manifests stay consistent whatever decisions are applied to     *)
(* them, and a running build's files are its own.                          *)
(***************************************************************************)
THEOREM TypeCorrect == Spec => []TypeOK
<1>1. Inv => TypeOK
  <2> SUFFICES ASSUME Inv PROVE TypeOK
    OBVIOUS
  <2>1. /\ changes \in 0 .. MaxChanges /\ manifest.edition \in 0 .. changes
        /\ \A s \in Sources : manifest.entry[s] \in Entry
        /\ ValidManifest(manifest.entry)
        /\ \A d \in decisions : d \in Decision /\ d.edition <= manifest.edition
    BY DEF Inv, PolicyInv, Manifest
  <2>2. step # "idle" => \A f \in Files : out[f] \in {0, Running}
    BY DEF Inv, RunningInv, Filled
  <2> QED
    BY <2>1, <2>2 DEF Inv, TypeInv, TypeOK
<1> QED
  BY <1>1, Invariance, PTL

(***************************************************************************)
(* VerifiedIsOneBuild: what verify_release accepts is one build's files.   *)
(***************************************************************************)
THEOREM VerifiedReleasesAreWhole == Spec => []VerifiedIsOneBuild
<1>1. Inv => VerifiedIsOneBuild
  <2> SUFFICES ASSUME Inv, Verified, NEW f \in ToSet(Payload)
               PROVE  hashes[f] = IF f = "plan" /\ Built.allow # {} THEN 0 ELSE out["manifest"]
    BY DEF VerifiedIsOneBuild
  <2>1. hashes = Filled(Listed(Built.allow), out["manifest"]) /\ f \in Files
    BY DEF Inv, DoneInv, Verified, Files
  <2>2. f \in Listed(Built.allow) <=> (f = "plan" => Built.allow = {})
    BY DEF Listed
  <2> QED
    BY <2>1, <2>2 DEF Filled
<1> QED
  BY <1>1, Invariance, PTL

-----------------------------------------------------------------------------
(***************************************************************************)
(* What the plan, the materialization and the enforcement make of one      *)
(* manifest and one set of decisions.                                      *)
(***************************************************************************)
Typed(m, ds) == m \in Manifest /\ ds \subseteq Decision /\ AllApplicable(ds, m)

\* The policy a source's decision, or its entry, grants.
Grant(s, m, ds) ==
    IF DecisionOn(s, ds) = {}
      THEN IF m.entry[s].ready THEN Normalized(m.entry[s]) ELSE "review_required"
      ELSE (CHOOSE d \in DecisionOn(s, ds) : TRUE).outcome

\* A source is ready, under a public policy, exactly if that was granted.
LEMMA EffectiveIs ==
    ASSUME NEW m, NEW ds, Typed(m, ds), NEW s \in Sources,
           NEW policy \in {"embedded_public", "external_ref_only"}
    PROVE  LET e == Effective(m, ds)[s]
           IN  e.ready /\ Normalized(e) = policy <=> Grant(s, m, ds) = policy
<1> DEFINE e == Effective(m, ds)[s]
           mine == DecisionOn(s, ds)
<1>1. CASE mine = {}
  <2>1. e = m.entry[s] /\ Grant(s, m, ds) = (IF e.ready THEN Normalized(e) ELSE "review_required")
    BY <1>1 DEF Effective, Grant
  <2>2. e.ready \in BOOLEAN
    BY <2>1 DEF Typed, Manifest, Entry
  <2> QED
    BY <2>1, <2>2
<1>2. CASE mine # {}
  <2>1. PICK d \in ds : d.source = s /\ \A x \in ds : x.source = s => x = d
    BY <1>2 DEF DecisionOn, Typed, AllApplicable
  <2>2. mine = {d} /\ (CHOOSE x \in mine : TRUE) = d /\ (CHOOSE x \in ds : x.source = s) = d
    BY <2>1 DEF DecisionOn
  <2>3. m.entry[s] \in Entry
    BY DEF Typed, Manifest
  <2>4. e = [m.entry[s] EXCEPT !.ready = d.outcome # "needs_human_legal_review",
                               !.policy = PolicyOf(d.outcome),
                               !.redistribution = RedistributionOf(d.outcome)]
    BY <1>2, <2>2 DEF Effective
  <2>5. e.ready = (d.outcome # "needs_human_legal_review") /\ e.policy = PolicyOf(d.outcome)
    BY <2>3, <2>4 DEF Entry
  <2>6. PolicyOf(d.outcome) # None
    BY EntryAssumption DEF PolicyOf, Policies
  <2>7. Normalized(e) = PolicyOf(d.outcome)
    BY <2>5, <2>6 DEF Normalized
  <2>8. Grant(s, m, ds) = d.outcome
    BY <1>2, <2>2 DEF Grant
  <2> QED
    BY <2>5, <2>7, <2>8 DEF PolicyOf
<1> QED
  BY <1>1, <1>2

\* What a share says of the source it is taken from.
LEMMA ShareIs ==
    ASSUME NEW m, NEW ds, Typed(m, ds), NEW o \in [source : Sources, mode : Modes]
    PROVE  LET share == Share(o, m, ds, {})
               grant == Grant(o.source, m, ds)
           IN  /\ share \in {"embedded", "external_ref", "excluded", "blocked"}
               /\ share = "embedded" => grant = "embedded_public"
               /\ share = "external_ref" => grant \in {"embedded_public", "external_ref_only"}
               /\ share = "excluded" => \E d \in ds : d.source = o.source /\ d.outcome = "exclude_public"
<1> DEFINE s == o.source
           e == Effective(m, ds)[s]
           mine == DecisionOn(s, ds)
           can == Capabilities(e, mine)
           grant == Grant(s, m, ds)
           share == Share(o, m, ds, {})
<1>1. s \in Sources /\ o.mode \in {"embedded", "external_ref"}
  BY DEF Modes
<1>2. can = CASE grant = "embedded_public" -> Modes
              [] grant = "external_ref_only" -> {"external_ref"}
              [] OTHER -> {}
  <2>1. CASE mine = {}
    <3>1. e = m.entry[s]
      BY <1>1, <2>1 DEF Effective
    <3> QED
      BY <2>1, <3>1 DEF Grant, Capabilities
  <2>2. CASE mine # {}
    BY <2>2 DEF Grant, Capabilities
  <2> QED
    BY <2>1, <2>2
<1>3. share = IF \E d \in mine : ~Applicable(d, m) THEN "blocked"
              ELSE IF \E d \in mine : d.outcome = "exclude_public" THEN "excluded"
              ELSE IF o.mode \in can THEN o.mode
              ELSE IF "embedded" \in can THEN "embedded"
              ELSE IF "external_ref" \in can THEN "external_ref"
              ELSE "blocked"
  BY DEF Share
<1>4. "embedded" \in can => grant = "embedded_public"
  BY <1>2 DEF Modes
<1>5. "external_ref" \in can => grant \in {"embedded_public", "external_ref_only"}
  BY <1>2 DEF Modes
<1>6. \A d \in mine : d \in ds /\ d.source = s
  BY DEF DecisionOn
<1> HIDE DEF can, grant, share, mine
<1> QED
  BY <1>1, <1>3, <1>4, <1>5, <1>6 DEF can, grant, share, mine

\* The observations of a record, and the plan for it.
LEMMA ObservationsAre ==
    ASSUME NEW r \in Records
    PROVE  /\ \A i \in DOMAIN Observations[r] : /\ Observations[r][i] \in [source : Sources, mode : Modes]
                                                /\ Observations[r][i] \in ToSet(Observations[r])
           /\ \A o \in ToSet(Observations[r]) :
                \E i \in DOMAIN Observations[r] : o = Observations[r][i]
           /\ DOMAIN Observations[r] \subseteq Nat
<1>1. Observations[r] \in Seq([source : Sources, mode : Modes])
  BY ObservationAssumption
<1>2. DOMAIN Observations[r] = 1 .. Len(Observations[r])
  BY <1>1, LenProperties
<1>3. \A i \in DOMAIN Observations[r] : Observations[r][i] \in [source : Sources, mode : Modes]
  BY <1>1, <1>2, ElementOfSeq
<1> QED
  BY <1>2, <1>3 DEF ToSet

Shares(r, m, ds) == [i \in DOMAIN Observations[r] |-> Share(Observations[r][i], m, ds, {})]

\* The mode and the basis the plan has for a record.
LEMMA PlanIs ==
    ASSUME NEW m, NEW ds, NEW r \in Records
    PROVE  LET row == Plan(m, ds, {})[r]
           IN  /\ row.mode = ModeOf(r, Shares(r, m, ds))
               /\ row.mode \in Modes =>
                    /\ row.basis = With(r, Shares(r, m, ds), row.mode)
                    /\ row.basis # {}
               /\ row.mode \in {"embedded", "external_ref", "excluded", "blocked"}
               /\ row.mode = "excluded" =>
                    \A share \in {"embedded", "external_ref", "blocked"} :
                        With(r, Shares(r, m, ds), share) = {}
<1> DEFINE row == Plan(m, ds, {})[r]
           shares == Shares(r, m, ds)
<1>1. row = [mode |-> ModeOf(r, shares),
             basis |-> IF ModeOf(r, shares) \in Modes THEN With(r, shares, ModeOf(r, shares)) ELSE {}]
  BY DEF Plan, Shares
<1> HIDE DEF row, shares
<1>2. row.mode = ModeOf(r, shares)
  BY <1>1
<1>3. row.mode \in Modes => row.basis = With(r, shares, row.mode)
  BY <1>1
<1>4. /\ row.mode \in {"embedded", "external_ref", "excluded", "blocked"}
      /\ row.mode \in {"embedded", "external_ref"} => With(r, shares, row.mode) # {}
      /\ row.mode = "excluded" => /\ With(r, shares, "embedded") = {}
                                 /\ With(r, shares, "external_ref") = {}
                                 /\ With(r, shares, "blocked") = {}
  <2>1. CASE With(r, shares, "embedded") # {}
    BY <1>2, <2>1 DEF ModeOf
  <2>2. CASE With(r, shares, "embedded") = {} /\ With(r, shares, "external_ref") # {}
    BY <1>2, <2>2 DEF ModeOf
  <2>3. CASE With(r, shares, "embedded") = {} /\ With(r, shares, "external_ref") = {}
    BY <1>2, <2>3 DEF ModeOf
  <2> QED
    BY <2>1, <2>2, <2>3
<1> QED
  BY <1>2, <1>3, <1>4 DEF Modes, row, shares

\* A source with a share has an observation with that share.
LEMMA WithIs ==
    ASSUME NEW m, NEW ds, NEW r \in Records, NEW share, NEW s
    PROVE  s \in With(r, Shares(r, m, ds), share) <=>
             \E i \in DOMAIN Observations[r] :
                /\ Observations[r][i].source = s
                /\ Share(Observations[r][i], m, ds, {}) = share
BY DEF With, Shares

\* The sources of a basis have been granted its mode.
LEMMA BasisIsGranted ==
    ASSUME NEW m, NEW ds, Typed(m, ds), NEW r \in Records, NEW s \in Plan(m, ds, {})[r].basis,
           Plan(m, ds, {})[r].mode \in Modes
    PROVE  /\ s \in Sources
           /\ Grant(s, m, ds) \in {"embedded_public", "external_ref_only"}
           /\ Plan(m, ds, {})[r].mode = "embedded" => Grant(s, m, ds) = "embedded_public"
<1> DEFINE mode == Plan(m, ds, {})[r].mode
<1>1. s \in With(r, Shares(r, m, ds), mode)
  BY PlanIs
<1> HIDE DEF mode
<1>2. PICK i \in DOMAIN Observations[r] : /\ Observations[r][i].source = s
                                          /\ Share(Observations[r][i], m, ds, {}) = mode
  BY <1>1, WithIs
<1> DEFINE o == Observations[r][i]
<1>3. o \in [source : Sources, mode : Modes]
  BY ObservationsAre
<1> HIDE DEF o
<1>4. o.source = s /\ Share(o, m, ds, {}) = mode /\ mode \in {"embedded", "external_ref"}
  BY <1>2 DEF o, mode, Modes
<1> QED
  BY <1>3, <1>4, ShareIs DEF mode

\* A nonempty set of numbers has a least one.
LEMMA LeastNumber ==
    ASSUME NEW S \in SUBSET Nat, S # {}
    PROVE  Min(S) \in S
<1>1. \E m \in S : \A k \in S : <<k, m>> \notin OpToRel(<, Nat)
  BY NatLessThanWellFounded, WFMin
<1>2. PICK m \in S : \A k \in S : <<k, m>> \notin OpToRel(<, Nat)
  BY <1>1
<1>3. \A k \in S : ~(k < m)
  BY <1>2 DEF OpToRel
<1>4. ASSUME NEW k \in S PROVE m <= k
  <2>1. k \in Int /\ m \in Int /\ ~(k < m)
    BY <1>3
  <2> QED
    BY <2>1
<1> QED
  BY <1>4 DEF Min

\* The references a record of the plan keeps: all those in the basis, or one
\* of them as an external reference.
LEMMA MaterializedIs ==
    ASSUME NEW m, NEW ds, NEW r \in Records, Plan(m, ds, {})[r].mode \in Modes,
           NEW o \in Materialized(r, Plan(m, ds, {})[r]).observations
    PROVE  /\ o.source \in Plan(m, ds, {})[r].basis
           /\ o.mode \in Modes
           /\ Plan(m, ds, {})[r].mode = "embedded" \/ o.mode = "external_ref"
<1> DEFINE row == Plan(m, ds, {})[r]
<1>0. row.basis # {} /\ row.mode \in Modes
  BY PlanIs
<1>1. CASE row.mode = "embedded"
  <2>1. o \in ToSet(Observations[r]) /\ o.source \in row.basis
    BY <1>1 DEF Materialized
  <2>2. o.mode \in Modes
    BY <2>1, ObservationsAre
  <2> QED
    BY <1>1, <2>1, <2>2
<1>2. CASE row.mode # "embedded"
  <2> DEFINE source == CHOOSE s \in row.basis : TRUE
             places == {i \in DOMAIN Observations[r] : Observations[r][i].source = source}
             first == Min(places)
  <2>1. source \in row.basis /\ row.basis = With(r, Shares(r, m, ds), row.mode)
    BY <1>0, PlanIs
  <2>2. \E i \in DOMAIN Observations[r] : Observations[r][i].source = source
    <3> HIDE DEF source, row
    <3> QED
      BY <2>1, WithIs
  <2>3. places \in SUBSET Nat /\ places # {}
    BY <2>2, ObservationsAre
  <2>4. first \in places
    <3> HIDE DEF places
    <3> QED
      BY <2>3, LeastNumber
  <2>5. o = [Observations[r][first] EXCEPT !.mode = "external_ref"]
    BY <1>2 DEF Materialized, Overlay
  <2>6. Observations[r][first] \in [source : Sources, mode : Modes] /\ Observations[r][first].source = source
    BY <2>4, ObservationsAre
  <2> HIDE DEF first
  <2>7. o.source = source /\ o.mode = "external_ref"
    BY <2>5, <2>6
  <2> QED
    BY <2>1, <2>7 DEF Modes
<1> QED
  BY <1>1, <1>2

-----------------------------------------------------------------------------
(***************************************************************************)
(* PreflightPredicts: a plan without a blocked record materializes into    *)
(* references the enforcement lets pass.                                   *)
(***************************************************************************)
LEMMA PlannedIsEnforced ==
    ASSUME NEW m, NEW ds, Typed(m, ds)
    PROVE  Enforced(Published(m, ds, {}), Effective(m, ds))
<1> SUFFICES ASSUME NEW r \in DOMAIN Published(m, ds, {}),
                    NEW o \in Published(m, ds, {})[r].observations
             PROVE  /\ Effective(m, ds)[o.source].ready
                    /\ \/ Normalized(Effective(m, ds)[o.source]) = "embedded_public"
                       \/ /\ o.mode = "external_ref"
                          /\ Normalized(Effective(m, ds)[o.source]) = "external_ref_only"
  BY DEF Enforced
<1>1. /\ r \in Records /\ Plan(m, ds, {})[r].mode \in Modes
      /\ o \in Materialized(r, Plan(m, ds, {})[r]).observations
  BY DEF Published
<1>2. /\ o.source \in Plan(m, ds, {})[r].basis
      /\ Plan(m, ds, {})[r].mode = "embedded" \/ o.mode = "external_ref"
  BY <1>1, MaterializedIs
<1> DEFINE s == o.source
<1>3. /\ s \in Sources
      /\ Grant(s, m, ds) \in {"embedded_public", "external_ref_only"}
      /\ Plan(m, ds, {})[r].mode = "embedded" => Grant(s, m, ds) = "embedded_public"
  BY <1>1, <1>2, BasisIsGranted
<1> HIDE DEF s
<1>4. Effective(m, ds)[s].ready /\ Normalized(Effective(m, ds)[s]) = Grant(s, m, ds)
  BY <1>3, EffectiveIs
<1> QED
  BY <1>2, <1>3, <1>4 DEF s

\* PreflightPredicts: what the preflight calls ready is not refused by the
\* build, as long as nothing changes in between.
THEOREM PreflightAgrees == Spec => []PreflightPredicts
<1>1. Inv => PreflightPredicts
  <2> SUFFICES ASSUME Inv, PreflightReady(manifest, decisions, {})
               PROVE  Gate(manifest, decisions, {})
    BY DEF PreflightPredicts
  <2>1. Typed(manifest, decisions)
    BY DEF Typed, Inv, PolicyInv, PreflightReady
  <2> QED
    BY <2>1, PlannedIsEnforced DEF Gate, PreflightReady
<1> QED
  BY <1>1, Invariance, PTL

(***************************************************************************)
(* What was granted when a verified release was built.                     *)
(***************************************************************************)
LEMMA BuiltIs ==
    ASSUME Inv, Verified
    PROVE  /\ Typed(Built.base, Built.decisions)
           /\ Gate(Built.base, Built.decisions, Built.allow)
           /\ \A s \in Sources :
                /\ Grant(s, Built.base, Built.decisions) = "embedded_public" =>
                     \A mode \in Modes : Authorized(s, mode)
                /\ Grant(s, Built.base, Built.decisions) = "external_ref_only" =>
                     Authorized(s, "external_ref")
<1>1. Passed(Built) /\ Built \in Build
  <2>1. out["manifest"] \in 1 .. Len(builds) /\ builds \in Seq(Build)
    BY DEF Inv, TypeInv, DoneInv, Verified
  <2> QED
    BY <2>1, ElementOfSeq DEF Inv, DoneInv, Verified, Built
<1>2. Typed(Built.base, Built.decisions)
  BY <1>1 DEF Passed, Gate, Typed, Build
<1> QED
  BY <1>1, <1>2 DEF Passed, Authorized, Grant

(***************************************************************************)
(* ReferencesAreAuthorized: the enforcement reads the effective manifest,  *)
(* which says of every source what was granted.                            *)
(***************************************************************************)
LEMMA PublishedIsTyped ==
    ASSUME NEW m, NEW ds, NEW allow, NEW r \in DOMAIN Published(m, ds, allow), Typed(m, ds),
           NEW o \in Published(m, ds, allow)[r].observations
    PROVE  o.source \in Sources /\ o.mode \in Modes
<1>1. CASE allow # {}
  <2>1. r \in Records /\ o \in ToSet(Observations[r])
    BY <1>1 DEF Published, Selected
  <2> QED
    BY <2>1, ObservationsAre
<1>2. CASE allow = {}
  <2>1. /\ r \in Records /\ Plan(m, ds, {})[r].mode \in Modes
        /\ o \in Materialized(r, Plan(m, ds, {})[r]).observations
    BY <1>2 DEF Published
  <2>2. o.source \in Plan(m, ds, {})[r].basis /\ o.mode \in Modes
    BY <2>1, MaterializedIs
  <2>3. \A s \in Plan(m, ds, {})[r].basis : s \in Sources
    BY <2>1, BasisIsGranted
  <2> QED
    BY <2>2, <2>3
<1> QED
  BY <1>1, <1>2

\* ReferencesAreAuthorized: every observation that a release cites is one its
\* source permits to cite.
THEOREM ReferencesStayAuthorized == Spec => []ReferencesAreAuthorized
<1>1. Inv => ReferencesAreAuthorized
  <2> SUFFICES ASSUME Inv, Verified, NEW r \in DOMAIN Release, NEW o \in Release[r].observations
               PROVE  Authorized(o.source, o.mode)
    BY DEF ReferencesAreAuthorized
  <2> DEFINE s == o.source
             e == Effective(Built.base, Built.decisions)[s]
             grant == Grant(s, Built.base, Built.decisions)
  <2>1. Typed(Built.base, Built.decisions) /\ Gate(Built.base, Built.decisions, Built.allow)
    BY BuiltIs
  <2>2. s \in Sources /\ o.mode \in Modes
    BY <2>1, PublishedIsTyped DEF Release
  <2>3. /\ e.ready
        /\ \/ Normalized(e) = "embedded_public"
           \/ o.mode = "external_ref" /\ Normalized(e) = "external_ref_only"
    BY <2>1 DEF Gate, Enforced, Release
  <2> HIDE DEF s
  <2>4. /\ e.ready /\ Normalized(e) = "embedded_public" => grant = "embedded_public"
        /\ e.ready /\ Normalized(e) = "external_ref_only" => grant = "external_ref_only"
    BY <2>1, <2>2, EffectiveIs
  <2> HIDE DEF e, grant
  <2>5. CASE grant = "embedded_public"
    BY <2>2, <2>5, BuiltIs DEF grant, s
  <2>6. CASE grant = "external_ref_only" /\ o.mode = "external_ref"
    BY <2>2, <2>6, BuiltIs DEF grant, s
  <2> QED
    BY <2>3, <2>4, <2>5, <2>6
<1> QED
  BY <1>1, Invariance, PTL

(***************************************************************************)
(* TextIsAuthorized: text goes out with the observations whose share it    *)
(* is to be embedded.                                                      *)
(***************************************************************************)
THEOREM TextStaysAuthorized == Spec => []TextIsAuthorized
<1>1. Inv => TextIsAuthorized
  <2> SUFFICES ASSUME Inv, Verified, Built.allow = {}, NEW r \in DOMAIN Release, Release[r].text
               PROVE  \E o \in Release[r].observations : Authorized(o.source, "embedded")
    BY DEF TextIsAuthorized
  <2> DEFINE m == Built.base
             ds == Built.decisions
             row == Plan(m, ds, {})[r]
  <2>1. Typed(m, ds)
    BY BuiltIs
  <2>2. r \in Records /\ row.mode \in Modes /\ Release[r] = Materialized(r, row)
    BY DEF Release, Published
  <2>3. row.mode = "embedded"
    <3>1. CASE row.mode # "embedded"
      <4>1. PICK o : Release[r] = Overlay(o)
        BY <2>2, <3>1 DEF Materialized
      <4> QED
        BY <4>1 DEF Overlay
    <3> QED
      BY <3>1
  <2>4. Release[r].observations = {o \in ToSet(Observations[r]) : o.source \in row.basis}
    BY <2>2, <2>3 DEF Materialized
  <2>5. row.basis # {} /\ row.basis = With(r, Shares(r, m, ds), row.mode)
    BY <2>2, PlanIs
  <2>6. PICK s \in row.basis : TRUE
    BY <2>5
  <2>7. s \in Sources /\ Grant(s, m, ds) = "embedded_public"
    BY <2>1, <2>2, <2>3, <2>6, BasisIsGranted
  <2>8. Authorized(s, "embedded")
    BY <2>7, BuiltIs DEF Modes
  <2>9. PICK i \in DOMAIN Observations[r] : Observations[r][i].source = s
    <3> HIDE DEF row, m, ds
    <3> QED
      BY <2>2, <2>5, <2>6, WithIs
  <2>10. Observations[r][i] \in Release[r].observations
    BY <2>2, <2>4, <2>6, <2>9, ObservationsAre
  <2> QED
    BY <2>8, <2>9, <2>10
<1> QED
  BY <1>1, Invariance, PTL

(***************************************************************************)
(* OmittedIsExcluded: a record that is neither published nor blocked has   *)
(* no share but exclusions.                                                *)
(***************************************************************************)
THEOREM OmissionsAreDecided == Spec => []OmittedIsExcluded
<1>1. Inv => OmittedIsExcluded
  <2> SUFFICES ASSUME Inv, Verified, Built.allow = {}, NEW r \in Records \ DOMAIN Release,
                      NEW s \in SourcesOf(r)
               PROVE  \E d \in Built.decisions : d.source = s /\ d.outcome = "exclude_public"
    BY DEF OmittedIsExcluded
  <2> DEFINE m == Built.base
             ds == Built.decisions
             row == Plan(m, ds, {})[r]
  <2>1. Typed(m, ds) /\ Gate(m, ds, {})
    BY BuiltIs
  <2>2. row.mode \notin Modes /\ row.mode # "blocked"
    BY <2>1 DEF Release, Published, Gate
  <2>3. \A share \in {"embedded", "external_ref", "blocked"} : With(r, Shares(r, m, ds), share) = {}
    BY <2>2, PlanIs DEF Modes
  <2>4. PICK i \in DOMAIN Observations[r] : Observations[r][i].source = s
    BY ObservationsAre DEF SourcesOf
  <2> DEFINE o == Observations[r][i]
             share == Share(o, m, ds, {})
  <2>5. o \in [source : Sources, mode : Modes] /\ o.source = s
    BY <2>4, ObservationsAre
  <2> HIDE DEF m, ds, o
  <2>6. /\ share \in {"embedded", "external_ref", "excluded", "blocked"}
        /\ share = "excluded" => \E d \in ds : d.source = o.source /\ d.outcome = "exclude_public"
    BY <2>1, <2>5, ShareIs
  <2>7. s \in With(r, Shares(r, m, ds), share)
    BY <2>4, WithIs DEF o
  <2> HIDE DEF share
  <2>8. share = "excluded"
    BY <2>3, <2>6, <2>7
  <2> QED
    BY <2>5, <2>6, <2>8 DEF ds
<1> QED
  BY <1>1, Invariance, PTL
=============================================================================
