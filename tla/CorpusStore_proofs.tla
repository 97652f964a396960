-------------------------- MODULE CorpusStore_proofs --------------------------
(***************************************************************************)
(* Proofs about CorpusStore, for any number of commands, shards, updates   *)
(* and killed processes.                                                   *)
(***************************************************************************)
EXTENDS CorpusStore, FiniteSetTheorems, TLAPS

\* A running command has a change to make.
Busy == \A c \in Commands : pc[c] # "idle" => update[c] \in Updates

TypeInv == TypeOK /\ Busy

\* An empty directory is a directory, not a missing one.
LEMMA EmptyDirType == EmptyDir \in Directory /\ EmptyDir # NoDir
BY NoDirAssumption DEF EmptyDir, Directory

\* A directory with one more update is a directory.
LEMMA WithType ==
    ASSUME NEW dir \in Directory, NEW u \in Updates
    PROVE  With(dir, u) \in Directory /\ With(dir, u) # NoDir
BY NoDirAssumption, LanguageAssumption DEF With, Directory

\* The type invariant holds initially.
LEMMA InitTypeInv == Init => TypeInv
<1> SUFFICES ASSUME Init PROVE TypeInv
  OBVIOUS
<1>1. corpus \in Path
  BY SeedAssumption DEF Init, Path, Directory
<1>2. view \in [Commands -> Directory]
  BY EmptyDirType DEF Init
<1> QED
  BY <1>1, <1>2, SeedAssumption DEF Init, TypeInv, TypeOK, Busy, Path

\* Every step keeps the type invariant.
LEMMA NextTypeInv == TypeInv /\ [Next]_vars => TypeInv'
<1> SUFFICES ASSUME TypeInv, [Next]_vars PROVE TypeInv'
  OBVIOUS
<1> USE DEF TypeInv, TypeOK, Busy, Path, Goto, disk, memory
<1>1. ASSUME NEW c \in Commands, NEW u \in Updates, Begin(c, u) PROVE TypeInv'
  BY <1>1 DEF Begin
<1>2. ASSUME NEW c \in Commands, Open(c) PROVE TypeInv'
  BY <1>2, EmptyDirType DEF Open, Shards
<1>3. ASSUME NEW c \in Commands, NEW l \in Languages, ReadShard(c, l)
      PROVE  TypeInv'
  <2>1. CASE corpus = NoDir \/ (corpus # NoDir /\ corpus[l] = {})
    BY <1>3, <2>1 DEF ReadShard
  <2>2. CASE ~(corpus = NoDir \/ (corpus # NoDir /\ corpus[l] = {}))
    <3>1. /\ view' = [view EXCEPT ![c][l] = corpus[l]]
          /\ unread' = [unread EXCEPT ![c] = @ \ {l}]
          /\ UNCHANGED <<pc, disk, update, committed, errors, crashes>>
      BY <1>3, <2>2 DEF ReadShard
    <3>2. corpus[l] \in SUBSET Updates
      BY <2>2 DEF Directory
    <3>3. view' \in [Commands -> Directory]
      BY <3>1, <3>2 DEF Directory
    <3>4. unread' \in [Commands -> SUBSET Languages]
      BY <3>1
    <3> QED
      BY <3>1, <3>3, <3>4
  <2> QED
    BY <2>1, <2>2
<1>4. ASSUME NEW c \in Commands, Stage(c) PROVE TypeInv'
  <2>1. update[c] \in Updates /\ view[c] \in Directory
    BY <1>4 DEF Stage
  <2>2. With(view[c], update[c]) \in Directory
    BY <2>1, WithType
  <2> QED
    BY <1>4, <2>2 DEF Stage
<1>5. ASSUME NEW c \in Commands, CheckTarget(c) PROVE TypeInv'
  BY <1>5 DEF CheckTarget
<1>6. ASSUME NEW c \in Commands, MoveAside(c) PROVE TypeInv'
  BY <1>6 DEF MoveAside
<1>7. ASSUME NEW c \in Commands, Install(c) PROVE TypeInv'
  BY <1>7 DEF Install
<1>8. ASSUME NEW c \in Commands, Probe(c) PROVE TypeInv'
  BY <1>8 DEF Probe
<1>9. ASSUME NEW c \in Commands, Restore(c) PROVE TypeInv'
  BY <1>9 DEF Restore
<1>10. ASSUME NEW c \in Commands, Finish(c) PROVE TypeInv'
  BY <1>10 DEF Finish
<1>11. ASSUME NEW c \in Commands, Raise(c) PROVE TypeInv'
  BY <1>11 DEF Raise, Handlers
<1>12. ASSUME NEW c \in Commands, Crash(c) PROVE TypeInv'
  <2>1. litter' \subseteq [kind : {"next", "previous"}, dir : Directory]
    BY <1>12 DEF Crash
  <2> QED
    BY <1>12, <2>1 DEF Crash
<1>13. CASE UNCHANGED vars
  BY <1>13 DEF vars
<1> QED
  BY <1>1, <1>2, <1>3, <1>4, <1>5, <1>6, <1>7, <1>8, <1>9, <1>10, <1>11,
     <1>12, <1>13 DEF Next, Step, Fault

(***************************************************************************)
(* Every path always holds nothing or a directory of language shards, and  *)
(* every command is at a step of write_corpus_atomic or before it.         *)
(***************************************************************************)
THEOREM TypeCorrect == Spec => []TypeOK
<1>1. TypeInv => TypeOK
  BY DEF TypeInv
<1> QED
  BY InitTypeInv, NextTypeInv, <1>1, PTL DEF Spec

-----------------------------------------------------------------------------
(***************************************************************************)
(* Why the corpus never vanishes.  A call that is about to install has a   *)
(* staging directory, a call about to restore has a backup, and when the   *)
(* corpus is away after a first installation, its last version is in a     *)
(* killed call's litter, or with a call that is about to install, or, once *)
(* an exception has been raised, with a call that is about to install, to  *)
(* look for a backup, or to put it back.  The last two are kept apart      *)
(* because a second exception could hit the restore itself.                *)
(***************************************************************************)
Staged == \A c \in Commands :
    pc[c] \in {"check", "aside", "install"} => staging[c] # NoDir

HasBackup == \A c \in Commands : pc[c] = "restore" => backup[c] # NoDir

Born == committed # {} \/ \E c \in Commands : pc[c] = "installed"

Holder(c, labels) == backup[c] # NoDir /\ pc[c] \in labels

InLitter == \E left \in litter : left.kind = "previous"

AtInstall == \E c \in Commands : Holder(c, {"install"})

OnItsWayBack == \E c \in Commands : Holder(c, {"install", "probe", "restore"})

Away ==
    corpus = NoDir /\ Born =>
        \/ InLitter
        \/ AtInstall
        \/ errors # 0 /\ OnItsWayBack

IInv == TypeInv /\ Staged /\ HasBackup /\ Away

\* The inductive invariant says where the corpus is.
LEMMA IInvImpliesNeverVanishes == IInv => NeverVanishes
<1> SUFFICES ASSUME IInv, committed # {}, corpus = NoDir
             PROVE  Previous # {}
  BY DEF NeverVanishes
<1>1. InLitter \/ \E c \in Commands : backup[c] # NoDir
  BY DEF IInv, Away, Born, AtInstall, OnItsWayBack, Holder
<1>2. CASE InLitter
  <2>1. PICK left \in litter : left.kind = "previous"
    BY <1>2 DEF InLitter
  <2>2. left.dir # NoDir
    BY <2>1, NoDirAssumption DEF IInv, TypeInv, TypeOK
  <2> QED
    BY <2>1, <2>2 DEF Previous, Kept
<1>3. CASE \E c \in Commands : backup[c] # NoDir
  BY <1>3 DEF Previous, Kept
<1> QED
  BY <1>1, <1>2, <1>3

\* The inductive invariant holds initially.
LEMMA InitIInv == Init => IInv
<1> SUFFICES ASSUME Init PROVE IInv
  OBVIOUS
<1>1. TypeInv
  BY InitTypeInv
<1>2. Staged /\ HasBackup
  BY DEF Init, Staged, HasBackup
<1>3. Away
  <2>1. CASE Seed = {}
    BY <2>1 DEF Init, Away, Born
  <2>2. CASE Seed # {}
    <3>1. [l \in Languages |-> {u \in Seed : LanguageOf[u] = l}] \in Directory
      BY SeedAssumption DEF Directory
    <3> QED
      BY <2>2, <3>1, NoDirAssumption DEF Init, Away
  <2> QED
    BY <2>1, <2>2
<1> QED
  BY <1>1, <1>2, <1>3 DEF IInv

\* Only the call itself writes its staging and its backup directory.
LEMMA NextPrivate ==
    ASSUME TypeInv, Staged, HasBackup, [Next]_vars
    PROVE  Staged' /\ HasBackup'
<1> USE DEF TypeInv, TypeOK, Busy, Path, Staged, HasBackup, Goto, disk, memory
<1>1. ASSUME NEW c \in Commands, NEW u \in Updates, Begin(c, u)
      PROVE  Staged' /\ HasBackup'
  BY <1>1 DEF Begin
<1>2. ASSUME NEW c \in Commands, Open(c) PROVE Staged' /\ HasBackup'
  BY <1>2 DEF Open
<1>3. ASSUME NEW c \in Commands, NEW l \in Languages, ReadShard(c, l)
      PROVE  Staged' /\ HasBackup'
  BY <1>3 DEF ReadShard
<1>4. ASSUME NEW c \in Commands, Stage(c) PROVE Staged' /\ HasBackup'
  <2>1. update[c] \in Updates /\ view[c] \in Directory
    BY <1>4 DEF Stage
  <2>2. With(view[c], update[c]) # NoDir
    BY <2>1, WithType
  <2> QED
    BY <1>4, <2>2 DEF Stage
<1>5. ASSUME NEW c \in Commands, CheckTarget(c) PROVE Staged' /\ HasBackup'
  BY <1>5 DEF CheckTarget
<1>6. ASSUME NEW c \in Commands, MoveAside(c) PROVE Staged' /\ HasBackup'
  BY <1>6 DEF MoveAside
<1>7. ASSUME NEW c \in Commands, Install(c) PROVE Staged' /\ HasBackup'
  BY <1>7 DEF Install
<1>8. ASSUME NEW c \in Commands, Probe(c) PROVE Staged' /\ HasBackup'
  BY <1>8 DEF Probe
<1>9. ASSUME NEW c \in Commands, Restore(c) PROVE Staged' /\ HasBackup'
  BY <1>9 DEF Restore
<1>10. ASSUME NEW c \in Commands, Finish(c) PROVE Staged' /\ HasBackup'
  BY <1>10 DEF Finish
<1>11. ASSUME NEW c \in Commands, Raise(c) PROVE Staged' /\ HasBackup'
  BY <1>11 DEF Raise, Handlers
<1>12. ASSUME NEW c \in Commands, Crash(c) PROVE Staged' /\ HasBackup'
  BY <1>12 DEF Crash
<1>13. CASE UNCHANGED vars
  BY <1>13 DEF vars
<1> QED
  BY <1>1, <1>2, <1>3, <1>4, <1>5, <1>6, <1>7, <1>8, <1>9, <1>10, <1>11,
     <1>12, <1>13 DEF Next, Step, Fault

\* A step that leaves every call at a label it does not hold the corpus at,
\* or where it was, and leaves the disk alone, keeps Away.
LEMMA QuietStep ==
    ASSUME Away, UNCHANGED disk, errors' = errors,
           Born' => Born,
           \A c \in Commands :
              pc[c] \in {"install", "probe", "restore"} => pc'[c] = pc[c]
    PROVE  Away'
BY DEF Away, InLitter, AtInstall, OnItsWayBack, Holder, disk

\* The step that matters: with at most one exception, none of them in the
\* gap, the last version of the corpus passes from hand to hand.
LEMMA NextAway ==
    ASSUME MaxErrors \in {0, 1}, ~InGap, IInv, [Next]_vars
    PROVE  Away'
<1> USE DEF IInv, TypeInv, TypeOK, Path, Goto
<1>1. ASSUME NEW c \in Commands, NEW u \in Updates, Begin(c, u) PROVE Away'
  BY <1>1, QuietStep DEF Begin, Born
<1>2. ASSUME NEW c \in Commands, Open(c) PROVE Away'
  BY <1>2, QuietStep DEF Open, Born
<1>3. ASSUME NEW c \in Commands, NEW l \in Languages, ReadShard(c, l)
      PROVE  Away'
  <2>1. UNCHANGED <<disk, committed, errors>> /\ pc[c] = "read"
    BY <1>3 DEF ReadShard
  <2>2. pc' = pc \/ pc' = [pc EXCEPT ![c] = "idle"]
    BY <1>3 DEF ReadShard
  <2> QED
    BY <2>1, <2>2, QuietStep DEF Born
<1>4. ASSUME NEW c \in Commands, Stage(c) PROVE Away'
  BY <1>4 DEF Stage, Away, Born, InLitter, AtInstall, OnItsWayBack, Holder
<1>5. ASSUME NEW c \in Commands, CheckTarget(c) PROVE Away'
  BY <1>5, QuietStep DEF CheckTarget, Born
<1>6. ASSUME NEW c \in Commands, MoveAside(c) PROVE Away'
  <2>1. CASE corpus = NoDir
    BY <1>6, <2>1 DEF MoveAside, Away, Born, InLitter, AtInstall,
                      OnItsWayBack, Holder
  <2>2. CASE corpus # NoDir
    <3>1. Holder(c, {"install"})'
      BY <1>6, <2>2 DEF MoveAside, Holder
    <3> QED
      BY <3>1 DEF Away, AtInstall
  <2> QED
    BY <2>1, <2>2
<1>7. ASSUME NEW c \in Commands, Install(c) PROVE Away'
  <2>1. corpus' # NoDir
    BY <1>7 DEF Install, Vacant, Staged
  <2> QED
    BY <2>1 DEF Away
<1>8. ASSUME NEW c \in Commands, Probe(c) PROVE Away'
  BY <1>8 DEF Probe, disk, Away, Born, InLitter, AtInstall, OnItsWayBack, Holder
<1>9. ASSUME NEW c \in Commands, Restore(c) PROVE Away'
  <2>1. corpus' # NoDir
    BY <1>9 DEF Restore, Vacant, HasBackup
  <2> QED
    BY <2>1 DEF Away
<1>10. ASSUME NEW c \in Commands, Finish(c) PROVE Away'
  <2>1. Born' => Born
    BY <1>10 DEF Finish, Born
  <2> QED
    BY <1>10, <2>1 DEF Finish, memory, Away, InLitter, AtInstall, OnItsWayBack,
                       Holder
<1>11. ASSUME NEW c \in Commands, Raise(c) PROVE Away'
  <2>1. errors = 0 /\ errors' = 1 /\ UNCHANGED <<disk, committed>>
    BY <1>11 DEF Raise
  <2>2. Born' => Born
    BY <1>11 DEF Raise, Born, Handlers
  <2>3. ASSUME Born, corpus = NoDir, ~InLitter
        PROVE  OnItsWayBack'
    <3>1. PICK h \in Commands : Holder(h, {"install"})
      BY <2>1, <2>3 DEF Away, AtInstall
    <3>2. pc'[h] \in {"install", "probe"}
      BY <1>11, <3>1 DEF Raise, Handlers, Holder
    <3> QED
      BY <2>1, <3>1, <3>2 DEF OnItsWayBack, Holder, disk
  <2> QED
    BY <2>1, <2>2, <2>3 DEF Away, InLitter, disk
<1>12. ASSUME NEW c \in Commands, Crash(c) PROVE Away'
  <2>1. Born' => Born
    BY <1>12 DEF Crash, Born, memory
  <2>2. litter \subseteq litter'
    BY <1>12 DEF Crash
  <2>3. CASE backup[c] # NoDir
    <3>1. [kind |-> "previous", dir |-> backup[c]] \in litter'
      BY <1>12, <2>3 DEF Crash
    <3> QED
      BY <3>1 DEF Away, InLitter
  <2>4. CASE backup[c] = NoDir
    BY <1>12, <2>1, <2>2, <2>4 DEF Crash, memory, Away, InLitter, AtInstall,
                                   OnItsWayBack, Holder
  <2> QED
    BY <2>3, <2>4
<1>13. CASE UNCHANGED vars
  BY <1>13 DEF vars, Away, Born, InLitter, AtInstall, OnItsWayBack, Holder
<1> QED
  BY <1>1, <1>2, <1>3, <1>4, <1>5, <1>6, <1>7, <1>8, <1>9, <1>10, <1>11,
     <1>12, <1>13 DEF Next, Step, Fault

(***************************************************************************)
(* Whatever commands run together on the corpus, whatever they change and  *)
(* however many of them are killed: if at most one exception is raised,    *)
(* and not in the gap before the inner try, some complete version of a     *)
(* corpus that a command reported as written is always on disk.            *)
(***************************************************************************)
THEOREM CorpusNeverVanishes ==
    MaxErrors \in {0, 1} /\ ~InGap => (Spec => []NeverVanishes)
<1> SUFFICES ASSUME MaxErrors \in {0, 1}, ~InGap
             PROVE  Spec => []NeverVanishes
  OBVIOUS
<1>1. IInv /\ [Next]_vars => IInv'
  BY NextTypeInv, NextPrivate, NextAway DEF IInv
<1> QED
  BY InitIInv, <1>1, IInvImpliesNeverVanishes, PTL DEF Spec

-----------------------------------------------------------------------------
(***************************************************************************)
(* One command at a time: what a running call holds at each step of        *)
(* write_corpus_atomic.  The corpus is there until the call moves it aside *)
(* and away until it installs or restores one; the backup a call removes   *)
(* in its finally clause is never more than the corpus has by then.  A     *)
(* second exception would break this at the restore.                       *)
(***************************************************************************)
Serial == MaxActive \in {0, 1} /\ MaxErrors \in {0, 1} /\ ~InGap

Solo == \A c, d \in Commands : pc[c] # "idle" /\ pc[d] # "idle" => c = d

BackupOfCall(c) ==
    /\ pc[c] \in {"idle", "open", "read", "check", "aside"} => backup[c] = NoDir
    /\ pc[c] \in {"probe", "restore"} => errors # 0
    /\ pc[c] \in {"installed", "failed"} /\ backup[c] # NoDir =>
         corpus # NoDir /\ Records(backup[c]) \subseteq Records(corpus)
    /\ pc[c] = "install" /\ backup[c] # NoDir =>
         Records(backup[c]) \subseteq Records(staging[c])

CorpusOfCall(c) ==
    /\ pc[c] = "aside" => corpus # NoDir
    /\ pc[c] \in {"install", "probe", "restore"} => corpus = NoDir
    /\ pc[c] = "installed" => corpus # NoDir /\ update[c] \in Records(corpus)

StagingOfCall(c) ==
    /\ pc[c] = "read" /\ corpus # NoDir =>
         \A l \in Languages : l \in unread[c] \/ view[c][l] = corpus[l]
    /\ pc[c] \in {"check", "aside", "install"} => update[c] \in Records(staging[c])
    /\ pc[c] \in {"check", "aside"} /\ corpus # NoDir =>
         Records(corpus) \subseteq Records(staging[c])

Orderly == \A c \in Commands : BackupOfCall(c) /\ CorpusOfCall(c) /\ StagingOfCall(c)

SerialInv == TypeInv /\ Staged /\ HasBackup /\ Solo /\ Orderly /\ Recoverable

-----------------------------------------------------------------------------
\* Lemmas on the directories and on what is kept beside the corpus.
LEMMA RecordsWith ==
    ASSUME NEW dir \in Directory, NEW u \in Updates
    PROVE  Records(With(dir, u)) = Records(dir) \union {u}
BY LanguageAssumption DEF Records, With, Directory

\* A directory is given by its shards.
LEMMA RecordsCovered ==
    ASSUME NEW dir \in Directory, NEW other \in Directory,
           \A l \in Languages : other[l] = dir[l]
    PROVE  other = dir
BY DEF Directory

\* A killed command leaves its directories as litter.
LEMMA CrashKeeps ==
    ASSUME TypeInv, NEW c \in Commands, Crash(c)
    PROVE  Previous' = Previous
<1> USE DEF TypeInv, TypeOK, Path
<1>1. /\ backup' = [backup EXCEPT ![c] = NoDir]
      /\ litter' = litter \union
           {left \in {[kind |-> "next", dir |-> staging[c]],
                      [kind |-> "previous", dir |-> backup[c]]} :
               left.dir # NoDir}
  BY DEF Crash
<1>2. ASSUME NEW dir PROVE dir \in Previous' <=> dir \in Previous
  <2>1. ASSUME dir \in Previous PROVE dir \in Previous'
    <3>1. CASE \E left \in litter : left.kind = "previous" /\ left.dir = dir
      BY <1>1, <2>1, <3>1 DEF Previous, Kept
    <3>2. CASE dir = backup[c]
      <4>1. [kind |-> "previous", dir |-> backup[c]] \in litter'
        BY <1>1, <2>1, <3>2 DEF Previous
      <4> QED
        BY <2>1, <3>2, <4>1 DEF Previous, Kept
    <3>3. CASE \E d \in Commands \ {c} : dir = backup[d]
      BY <1>1, <2>1, <3>3 DEF Previous, Kept
    <3> QED
      BY <2>1, <3>1, <3>2, <3>3 DEF Previous, Kept
  <2>2. ASSUME dir \in Previous' PROVE dir \in Previous
    <3>1. dir # NoDir
      BY <2>2 DEF Previous
    <3>2. CASE \E left \in litter' : left.kind = "previous" /\ left.dir = dir
      BY <1>1, <3>1, <3>2 DEF Previous, Kept
    <3>3. CASE \E d \in Commands : dir = backup'[d]
      BY <1>1, <3>1, <3>3 DEF Previous, Kept
    <3> QED
      BY <2>2, <3>2, <3>3 DEF Previous, Kept
  <2> QED
    BY <2>1, <2>2
<1> QED
  BY <1>2

\* Moving the corpus aside adds it to what is kept beside it.
LEMMA MoveKeeps ==
    ASSUME TypeInv, NEW c \in Commands, backup[c] = NoDir, corpus # NoDir,
           MoveAside(c)
    PROVE  Previous' = Previous \union {corpus}
<1>1. backup' = [backup EXCEPT ![c] = corpus] /\ litter' = litter
  BY DEF MoveAside
<1>2. \A d \in Commands : backup'[d] = IF d = c THEN corpus ELSE backup[d]
  BY <1>1 DEF TypeInv, TypeOK
<1> QED
  BY <1>1, <1>2 DEF Previous, Kept

\* A step that changes no other backup than the one of c, and drops that one.
LEMMA DropKeeps ==
    ASSUME TypeInv, NEW c \in Commands, litter' = litter,
           backup' = [backup EXCEPT ![c] = NoDir]
    PROVE  /\ Previous' \subseteq Previous
           /\ Previous \subseteq Previous' \union {backup[c]}
<1>1. \A d \in Commands : backup'[d] = IF d = c THEN NoDir ELSE backup[d]
  BY DEF TypeInv, TypeOK
<1> QED
  BY <1>1 DEF Previous, Kept
-----------------------------------------------------------------------------
\* Serial runs: the step of the one call keeps SerialInv.
OfCall(c) == BackupOfCall(c) /\ CorpusOfCall(c) /\ StagingOfCall(c)

\* Where one command is allowed, it begins while none is running.
LEMMA AloneActive ==
    ASSUME Serial, TypeInv, Solo, Cardinality(Active) < MaxActive
    PROVE  \A c \in Commands : pc[c] = "idle"
<1> SUFFICES ASSUME NEW c \in Commands, pc[c] # "idle" PROVE FALSE
  OBVIOUS
<1>1. Active = {c}
  BY DEF Active, Solo
<1>2. Cardinality(Active) = 1
  BY <1>1, FS_Singleton
<1> QED
  BY <1>2 DEF Serial

\* The other commands are idle, and stay so with nothing of their own.
LEMMA AloneStep ==
    ASSUME Orderly, NEW c \in Commands,
           \A d \in Commands \ {c} : /\ pc[d] = "idle" /\ pc'[d] = "idle"
                                     /\ backup'[d] = backup[d],
           OfCall(c)'
    PROVE  Solo' /\ Orderly'
<1>1. Solo'
  BY DEF Solo
<1>2. ASSUME NEW d \in Commands \ {c} PROVE OfCall(d)'
  BY <1>2 DEF Orderly, OfCall, BackupOfCall, CorpusOfCall, StagingOfCall
<1> QED
  BY <1>1, <1>2 DEF Orderly, OfCall

\* The invariant of serial commands holds initially.
LEMMA InitSerialInv == Init => SerialInv
<1> SUFFICES ASSUME Init PROVE SerialInv
  OBVIOUS
<1>1. TypeInv /\ Staged /\ HasBackup
  BY InitIInv DEF IInv
<1>2. Solo /\ Orderly
  BY DEF Init, Solo, Orderly, BackupOfCall, CorpusOfCall, StagingOfCall
<1>3. Recoverable
  <2>1. CASE Seed = {}
    BY <2>1 DEF Init, Recoverable
  <2>2. CASE Seed # {}
    <3>1. [l \in Languages |-> {u \in Seed : LanguageOf[u] = l}] \in Directory
      BY SeedAssumption DEF Directory
    <3>2. corpus = [l \in Languages |-> {u \in Seed : LanguageOf[u] = l}]
      BY <2>2 DEF Init
    <3>3. \A u \in Seed : u \in corpus[LanguageOf[u]] /\ LanguageOf[u] \in Languages
      BY <3>2, SeedAssumption, LanguageAssumption
    <3> QED
      BY <3>1, <3>2, <3>3, NoDirAssumption DEF Init, Recoverable, Records
  <2> QED
    BY <2>1, <2>2
<1> QED
  BY <1>1, <1>2, <1>3 DEF SerialInv

\* Every step leaves what a running call holds as its step needs it.
LEMMA NextOrderly ==
    ASSUME Serial, SerialInv, [Next]_vars
    PROVE  Solo' /\ Orderly'
<1> USE DEF SerialInv, TypeInv, TypeOK, Path, Goto
<1>1. ASSUME NEW c \in Commands, NEW u \in Updates, Begin(c, u)
      PROVE  Solo' /\ Orderly'
  <2>1. \A d \in Commands : pc[d] = "idle"
    BY <1>1, AloneActive DEF Begin
  <2>2. OfCall(c)'
    BY <1>1, <2>1 DEF Begin, OfCall, BackupOfCall, CorpusOfCall, StagingOfCall, Orderly, disk
  <2> QED
    BY <1>1, <2>1, <2>2, AloneStep DEF Begin, disk
<1> DEFINE Others(c) ==
      \A d \in Commands \ {c} :
         pc[d] = "idle" /\ pc'[d] = "idle" /\ backup'[d] = backup[d]
<1>2. ASSUME NEW c \in Commands, Open(c) PROVE Solo' /\ Orderly'
  <2>1. Others(c)
    BY <1>2 DEF Open, Solo, disk, memory
  <2>2. OfCall(c)'
    <3>1. BackupOfCall(c) /\ CorpusOfCall(c) /\ StagingOfCall(c)
      BY DEF Orderly
    <3>2. BackupOfCall(c)'
      BY <1>2, <3>1 DEF Open, Shards, EmptyDir, BackupOfCall, CorpusOfCall, StagingOfCall, disk, memory
    <3>3. CorpusOfCall(c)'
      BY <1>2, <3>1 DEF Open, Shards, EmptyDir, CorpusOfCall, disk, memory
    <3>4. StagingOfCall(c)'
      BY <1>2, <3>1 DEF Open, Shards, EmptyDir, StagingOfCall, disk, memory
    <3> QED
      BY <3>2, <3>3, <3>4 DEF OfCall
  <2> QED
    BY <2>1, <2>2, AloneStep
<1>3. ASSUME NEW c \in Commands, NEW l \in Languages, ReadShard(c, l)
      PROVE  Solo' /\ Orderly'
  <2>1. Others(c)
    BY <1>3 DEF ReadShard, Solo, disk, memory
  <2>2. OfCall(c)'
    <3>1. BackupOfCall(c) /\ StagingOfCall(c)
      BY DEF Orderly
    <3>2. pc' = pc \/ pc' = [pc EXCEPT ![c] = "idle"]
      BY <1>3 DEF ReadShard
    <3>3. BackupOfCall(c)' /\ CorpusOfCall(c)'
      BY <1>3, <3>1, <3>2 DEF ReadShard, BackupOfCall, CorpusOfCall, disk
    <3>4. CASE pc'[c] = "idle"
      BY <3>3, <3>4 DEF StagingOfCall, OfCall
    <3>5. CASE pc'[c] # "idle"
      <4>1. /\ corpus # NoDir
            /\ view' = [view EXCEPT ![c][l] = corpus[l]]
            /\ unread' = [unread EXCEPT ![c] = @ \ {l}]
            /\ pc[c] = "read" /\ UNCHANGED <<corpus, pc>>
        BY <1>3, <3>5 DEF ReadShard, disk
      <4>2. \A k \in Languages : view'[c][k] = IF k = l THEN corpus[l] ELSE view[c][k]
        BY <4>1 DEF Directory
      <4> QED
        BY <3>1, <3>3, <4>1, <4>2 DEF StagingOfCall, OfCall
    <3> QED
      BY <3>4, <3>5
  <2> QED
    BY <2>1, <2>2, AloneStep
<1>4. ASSUME NEW c \in Commands, Stage(c) PROVE Solo' /\ Orderly'
  <2>1. Others(c)
    BY <1>4 DEF Stage, Solo, disk, memory
  <2>2. OfCall(c)'
    <3>1. BackupOfCall(c) /\ StagingOfCall(c)
      BY DEF Orderly
    <3>2. BackupOfCall(c)' /\ CorpusOfCall(c)'
      BY <1>4, <3>1 DEF Stage, BackupOfCall, CorpusOfCall, memory
    <3>3. CASE pc'[c] = "idle"
      BY <3>2, <3>3 DEF StagingOfCall, OfCall
    <3>4. CASE pc'[c] # "idle"
      <4>1. /\ pc[c] = "read" /\ unread[c] = {}
            /\ staging' = [staging EXCEPT ![c] = With(view[c], update[c])]
            /\ pc'[c] = "check"
            /\ UNCHANGED <<corpus, update>>
        BY <1>4, <3>4 DEF Stage, memory
      <4>2. update[c] \in Updates /\ view[c] \in Directory
        BY <4>1 DEF Busy
      <4>3. Records(staging'[c]) = Records(view[c]) \union {update[c]}
        BY <4>1, <4>2, RecordsWith
      <4>4. corpus # NoDir => view[c] = corpus
        BY <3>1, <4>1, <4>2, RecordsCovered DEF StagingOfCall
      <4> QED
        BY <3>2, <4>1, <4>3, <4>4 DEF StagingOfCall, OfCall
    <3> QED
      BY <3>3, <3>4
  <2> QED
    BY <2>1, <2>2, AloneStep
<1>5. ASSUME NEW c \in Commands, CheckTarget(c) PROVE Solo' /\ Orderly'
  <2>1. Others(c)
    BY <1>5 DEF CheckTarget, Solo, disk, memory
  <2>2. OfCall(c)'
    BY <1>5 DEF CheckTarget, OfCall, Orderly, BackupOfCall, CorpusOfCall, StagingOfCall,
       disk, memory
  <2> QED
    BY <2>1, <2>2, AloneStep
<1>6. ASSUME NEW c \in Commands, MoveAside(c) PROVE Solo' /\ Orderly'
  <2>1. Others(c)
    BY <1>6 DEF MoveAside, Solo, disk, memory
  <2>2. OfCall(c)'
    BY <1>6 DEF MoveAside, OfCall, Orderly, BackupOfCall, CorpusOfCall, StagingOfCall,
       disk, memory
  <2> QED
    BY <2>1, <2>2, AloneStep
<1>7. ASSUME NEW c \in Commands, Install(c) PROVE Solo' /\ Orderly'
  <2>1. Others(c)
    BY <1>7 DEF Install, Solo, disk, memory
  <2>2. OfCall(c)'
    <3>1. BackupOfCall(c) /\ CorpusOfCall(c) /\ StagingOfCall(c)
      BY DEF Orderly
    <3>2. /\ pc'[c] = "installed" /\ corpus' = staging[c] /\ corpus' # NoDir
          /\ UNCHANGED <<backup, update>>
      BY <1>7, <3>1 DEF Install, Vacant, CorpusOfCall, Staged, memory
    <3>3. /\ update[c] \in Records(staging[c])
          /\ backup[c] # NoDir => Records(backup[c]) \subseteq Records(staging[c])
      BY <1>7, <3>1 DEF Install, BackupOfCall, StagingOfCall
    <3> QED
      BY <3>2, <3>3 DEF OfCall, BackupOfCall, CorpusOfCall, StagingOfCall, Records
  <2> QED
    BY <2>1, <2>2, AloneStep
<1>8. ASSUME NEW c \in Commands, Probe(c) PROVE Solo' /\ Orderly'
  <2>1. Others(c)
    BY <1>8 DEF Probe, Solo, disk, memory
  <2>2. OfCall(c)'
    BY <1>8 DEF Probe, OfCall, Orderly, BackupOfCall, CorpusOfCall, StagingOfCall,
       disk, memory
  <2> QED
    BY <2>1, <2>2, AloneStep
<1>9. ASSUME NEW c \in Commands, Restore(c) PROVE Solo' /\ Orderly'
  <2>1. Others(c)
    BY <1>9 DEF Restore, Solo, disk, memory
  <2>2. OfCall(c)'
    <3>1. BackupOfCall(c) /\ CorpusOfCall(c) /\ StagingOfCall(c)
      BY DEF Orderly
    <3>2. BackupOfCall(c)'
      BY <1>9, <3>1 DEF Restore, Vacant, BackupOfCall, CorpusOfCall, StagingOfCall, disk, memory
    <3>3. CorpusOfCall(c)'
      BY <1>9, <3>1 DEF Restore, Vacant, CorpusOfCall, disk, memory
    <3>4. StagingOfCall(c)'
      BY <1>9, <3>1 DEF Restore, Vacant, StagingOfCall, disk, memory
    <3> QED
      BY <3>2, <3>3, <3>4 DEF OfCall
  <2> QED
    BY <2>1, <2>2, AloneStep
<1>10. ASSUME NEW c \in Commands, Finish(c) PROVE Solo' /\ Orderly'
  <2>1. Others(c)
    BY <1>10 DEF Finish, Solo, disk, memory
  <2>2. OfCall(c)'
    BY <1>10 DEF Finish, OfCall, Orderly, BackupOfCall, CorpusOfCall, StagingOfCall,
       disk, memory
  <2> QED
    BY <2>1, <2>2, AloneStep
<1>11. ASSUME NEW c \in Commands, Raise(c) PROVE Solo' /\ Orderly'
  <2>1. Others(c)
    BY <1>11 DEF Raise, Solo, disk, memory
  <2>2. OfCall(c)'
    <3>1. BackupOfCall(c) /\ CorpusOfCall(c)
      BY DEF Orderly
    <3>2. errors = 0 /\ errors' = 1 /\ UNCHANGED <<disk, memory>>
      BY <1>11 DEF Raise, Serial
    <3>3. pc[c] \in {"check", "aside", "install", "installed"}
      BY <1>11, <3>1, <3>2 DEF Raise, BackupOfCall
    <3>4. pc'[c] = IF pc[c] = "install" THEN "probe" ELSE "failed"
      BY <1>11, <3>3 DEF Raise, Handlers, Serial
    <3> QED
      BY <3>1, <3>2, <3>3, <3>4 DEF OfCall, BackupOfCall, CorpusOfCall,
         StagingOfCall, disk
  <2> QED
    BY <2>1, <2>2, AloneStep
<1>12. ASSUME NEW c \in Commands, Crash(c) PROVE Solo' /\ Orderly'
  <2>1. Others(c)
    BY <1>12 DEF Crash, Solo, disk, memory
  <2>2. OfCall(c)'
    BY <1>12 DEF Crash, OfCall, Orderly, BackupOfCall, CorpusOfCall, StagingOfCall,
       disk, memory
  <2> QED
    BY <2>1, <2>2, AloneStep
<1>13. CASE UNCHANGED vars
  BY <1>13 DEF vars, Solo, Orderly, BackupOfCall, CorpusOfCall, StagingOfCall
<1> QED
  BY <1>1, <1>2, <1>3, <1>4, <1>5, <1>6, <1>7, <1>8, <1>9, <1>10, <1>11, <1>12, <1>13 DEF Next, Step, Fault
\* What is on record and kept stays so when the disk only gains versions.
LEMMA KeepsRecoverable ==
    ASSUME Recoverable, committed' = committed, Previous \subseteq Previous',
           corpus # NoDir => \/ corpus' # NoDir /\ Records(corpus) \subseteq Records(corpus')
                             \/ corpus \in Previous'
    PROVE  Recoverable'
BY DEF Recoverable

\* Every step leaves all committed updates on disk.
LEMMA NextRecoverable ==
    ASSUME Serial, SerialInv, [Next]_vars
    PROVE  Recoverable'
<1> USE DEF SerialInv, TypeInv, TypeOK, Path, Goto
<1> DEFINE Still == UNCHANGED <<corpus, backup, litter, committed>>
<1>1. ASSUME Still PROVE Recoverable'
  BY <1>1 DEF Recoverable, Previous, Kept, Records
<1>2. ASSUME NEW c \in Commands, MoveAside(c) PROVE Recoverable'
  <2>1. corpus # NoDir /\ backup[c] = NoDir
    BY <1>2 DEF MoveAside, Orderly, BackupOfCall, CorpusOfCall
  <2>2. Previous' = Previous \union {corpus}
    BY <1>2, <2>1, MoveKeeps
  <2> QED
    BY <1>2, <2>2, KeepsRecoverable DEF MoveAside
<1>3. ASSUME NEW c \in Commands, Install(c) PROVE Recoverable'
  <2>1. corpus = NoDir
    BY <1>3 DEF Install, Orderly, CorpusOfCall
  <2>2. Previous' = Previous
    BY <1>3 DEF Install, Previous, Kept
  <2> QED
    BY <1>3, <2>1, <2>2, KeepsRecoverable DEF Install
<1>4. ASSUME NEW c \in Commands, Restore(c) PROVE Recoverable'
  <2>1. corpus = NoDir /\ backup[c] # NoDir
    BY <1>4 DEF Restore, Orderly, CorpusOfCall, HasBackup
  <2>2. /\ corpus' = backup[c] /\ backup' = [backup EXCEPT ![c] = NoDir]
        /\ litter' = litter /\ committed' = committed
    BY <1>4, <2>1 DEF Restore, Vacant
  <2>3. Previous \subseteq Previous' \union {corpus'}
    BY <2>2, DropKeeps
  <2> QED
    BY <2>1, <2>2, <2>3 DEF Recoverable, Records
<1>5. ASSUME NEW c \in Commands, Finish(c) PROVE Recoverable'
  <2>1. /\ backup' = [backup EXCEPT ![c] = NoDir]
        /\ litter' = litter /\ corpus' = corpus
    BY <1>5 DEF Finish
  <2>2. Previous \subseteq Previous' \union {backup[c]}
    BY <2>1, DropKeeps
  <2>3. backup[c] # NoDir =>
          corpus # NoDir /\ Records(backup[c]) \subseteq Records(corpus)
    BY <1>5 DEF Finish, Orderly, BackupOfCall
  <2>4. ASSUME NEW u \in committed
        PROVE  \/ corpus' # NoDir /\ u \in Records(corpus')
               \/ \E dir \in Previous' : u \in Records(dir)
    <3>1. CASE corpus # NoDir /\ u \in Records(corpus)
      BY <2>1, <3>1
    <3>2. CASE \E dir \in Previous : u \in Records(dir)
      BY <2>1, <2>2, <2>3, <3>2 DEF Previous
    <3> QED
      BY <3>1, <3>2 DEF Recoverable
  <2>5. ASSUME pc[c] = "installed"
        PROVE  corpus' # NoDir /\ update[c] \in Records(corpus')
    BY <2>1, <2>5 DEF Orderly, CorpusOfCall
  <2> QED
    BY <1>5, <2>4, <2>5 DEF Finish, Recoverable
<1>6. ASSUME NEW c \in Commands, Crash(c) PROVE Recoverable'
  BY <1>6, CrashKeeps, KeepsRecoverable DEF Crash
<1> QED
  <2>1. ASSUME NEW c \in Commands, NEW u \in Updates, Begin(c, u) PROVE Still
    BY <2>1 DEF Begin, disk
  <2>2. ASSUME NEW c \in Commands, Open(c) PROVE Still
    BY <2>2 DEF Open, disk
  <2>3. ASSUME NEW c \in Commands, NEW l \in Languages, ReadShard(c, l) PROVE Still
    BY <2>3 DEF ReadShard, disk
  <2>4. ASSUME NEW c \in Commands, Stage(c) \/ CheckTarget(c) \/ Probe(c) \/ Raise(c)
        PROVE  Still
    BY <2>4 DEF Stage, CheckTarget, Probe, Raise, disk
  <2>5. ASSUME UNCHANGED vars PROVE Still
    BY <2>5 DEF vars
  <2> HIDE DEF Still
  <2> QED
    BY <1>1, <1>2, <1>3, <1>4, <1>5, <1>6, <2>1, <2>2, <2>3, <2>4, <2>5
       DEF Next, Step, Fault

\* Every step keeps the invariant of serial commands.
LEMMA NextSerialInv ==
    ASSUME Serial, SerialInv, [Next]_vars
    PROVE  SerialInv'
BY NextTypeInv, NextPrivate, NextOrderly, NextRecoverable DEF SerialInv

(***************************************************************************)
(* Commands run one after the other, with at most one exception and any    *)
(* number of kills: every update whose command reported success is in a    *)
(* directory that is still on disk.                                        *)
(***************************************************************************)
THEOREM CommittedIsRecoverable == Serial => (Spec => []Recoverable)
<1> SUFFICES ASSUME Serial PROVE Spec => []Recoverable
  OBVIOUS
<1>1. SerialInv /\ [Next]_vars => SerialInv'
  BY NextSerialInv
<1>2. SerialInv => Recoverable
  BY DEF SerialInv
<1> QED
  BY InitSerialInv, <1>1, <1>2, PTL DEF Spec
-----------------------------------------------------------------------------
(***************************************************************************)
(* Refinement.  Besides SerialInv the mapping rests on which version is    *)
(* the newest: the corpus, or what a call has moved aside and is going to  *)
(* replace or put back, holds all that the older versions hold, and a      *)
(* staged directory is exactly the store and the call's own change.        *)
(*                                                                         *)
(* NoFreshStart is needed: after a kill between the two renames the corpus *)
(* is missing, and an addition takes a missing corpus for an empty one, so *)
(* it would install a corpus without what the previous version holds.      *)
(***************************************************************************)
NoFreshStart == MaxCrashes = 0 \/ ~FreshStart

Newest(dir) == \A old \in Previous : Records(old) \subseteq Records(dir)

NewestAtHand ==
    /\ corpus # NoDir => Newest(corpus)
    /\ \A c \in Commands :
          pc[c] \in {"install", "probe", "restore"} /\ backup[c] # NoDir =>
             Newest(backup[c])

StagesStore(c) ==
    /\ pc[c] = "read" /\ corpus = NoDir =>
         view[c] = EmptyDir /\ unread[c] = {} /\ Previous = {}
    /\ pc[c] \in {"check", "aside", "install"} =>
         /\ Records(staging[c]) = Store \union {update[c]}
         /\ Base[update[c]] # None => Base[update[c]] \in Store

Extends == \A c \in Commands : StagesStore(c)

NoLitter == MaxCrashes = 0 => litter = {}

NothingLeftAside == \A left \in litter : left.kind # "previous"

\* An addition that finds no corpus finds no previous version either.
StartsOnNothing ==
    NoFreshStart =>
       \A c \in Commands :
          pc[c] = "open" /\ corpus = NoDir /\ Base[update[c]] = None =>
             NothingLeftAside

RefInv == SerialInv /\ NewestAtHand /\ Extends /\ NoLitter /\ StartsOnNothing

\* The invariant of the refinement holds initially.
LEMMA InitRefInv == Init => RefInv
<1> SUFFICES ASSUME Init PROVE RefInv
  OBVIOUS
<1>1. Previous = {}
  BY DEF Init, Previous, Kept
<1>2. NewestAtHand
  BY <1>1 DEF NewestAtHand, Newest
<1>3. Extends /\ NoLitter /\ StartsOnNothing
  BY DEF Init, Extends, StagesStore, NoLitter, StartsOnNothing
<1> QED
  BY InitSerialInv, <1>2, <1>3 DEF RefInv

\* The step at which the store changes: the staged version is installed.
LEMMA StoreAtInstall ==
    ASSUME RefInv, NEW c \in Commands, Install(c)
    PROVE  /\ corpus' = staging[c] /\ corpus' # NoDir
           /\ Previous' = Previous
           /\ Store' = Store \union {update[c]}
           /\ Base[update[c]] # None => Base[update[c]] \in Store
<1>1. corpus = NoDir /\ pc[c] = "install" /\ staging[c] # NoDir
  BY DEF Install, RefInv, SerialInv, Orderly, CorpusOfCall, Staged
<1>2. corpus' = staging[c] /\ UNCHANGED <<backup, litter>>
  BY <1>1 DEF Install, Vacant
<1>3. Records(staging[c]) = Store \union {update[c]}
  BY <1>1 DEF RefInv, Extends, StagesStore
<1>4. Store' = Records(corpus')
  BY <1>1, <1>2 DEF Store, Records
<1> QED
  BY <1>1, <1>2, <1>3, <1>4 DEF Previous, Kept, RefInv, Extends, StagesStore

\* Moving the corpus aside does not change the store.
LEMMA StoreAtMoveAside ==
    ASSUME RefInv, NEW c \in Commands, MoveAside(c)
    PROVE  /\ corpus # NoDir /\ corpus' = NoDir
           /\ backup' = [backup EXCEPT ![c] = corpus]
           /\ Previous' = Previous \union {corpus}
           /\ Store' = Store
<1>1. corpus # NoDir /\ backup[c] = NoDir
  BY DEF MoveAside, RefInv, SerialInv, Orderly, BackupOfCall, CorpusOfCall
<1>2. Previous' = Previous \union {corpus}
  BY <1>1, MoveKeeps DEF RefInv, SerialInv
<1>3. corpus' = NoDir /\ backup' = [backup EXCEPT ![c] = corpus]
  BY <1>1 DEF MoveAside
<1>4. \A old \in Previous : Records(old) \subseteq Records(corpus)
  BY <1>1 DEF RefInv, NewestAtHand, Newest
<1>5. Store' = UNION {Records(dir) : dir \in Previous'}
  BY <1>3 DEF Store, Records
<1>6. Store = Records(corpus)
  BY <1>1 DEF Store
<1> QED
  BY <1>1, <1>2, <1>3, <1>4, <1>5, <1>6

\* Restoring the backup does not change the store.
LEMMA StoreAtRestore ==
    ASSUME RefInv, NEW c \in Commands, Restore(c)
    PROVE  /\ corpus' = backup[c] /\ corpus' # NoDir
           /\ backup[c] \in Previous /\ Newest(backup[c])
           /\ Previous' \subseteq Previous
           /\ Store' = Store
<1>1. corpus = NoDir /\ backup[c] # NoDir /\ pc[c] = "restore"
  BY DEF Restore, RefInv, SerialInv, Orderly, CorpusOfCall, HasBackup
<1>2. /\ corpus' = backup[c] /\ backup' = [backup EXCEPT ![c] = NoDir]
      /\ litter' = litter
  BY <1>1 DEF Restore, Vacant
<1>3. Previous' \subseteq Previous
  BY <1>2, DropKeeps DEF RefInv, SerialInv
<1>4. backup[c] \in Previous /\ Newest(backup[c])
  BY <1>1 DEF Previous, Kept, RefInv, NewestAtHand
<1>5. Store' = Records(backup[c])
  BY <1>1, <1>2 DEF Store, Records
<1>6. Store = UNION {Records(dir) : dir \in Previous}
  BY <1>1 DEF Store
<1> QED
  BY <1>1, <1>2, <1>3, <1>4, <1>5, <1>6 DEF Newest

\* Removing the backup does not change the store.
LEMMA StoreAtFinish ==
    ASSUME RefInv, NEW c \in Commands, Finish(c)
    PROVE  /\ UNCHANGED corpus /\ Previous' \subseteq Previous
           /\ Store' = Store
           /\ pc[c] = "installed" => update[c] \in Store
<1>1. /\ backup' = [backup EXCEPT ![c] = NoDir]
      /\ litter' = litter /\ corpus' = corpus
      /\ pc[c] \in {"installed", "failed"}
  BY DEF Finish
<1>2. /\ Previous' \subseteq Previous
      /\ Previous \subseteq Previous' \union {backup[c]}
  BY <1>1, DropKeeps DEF RefInv, SerialInv
<1>3. backup[c] # NoDir => corpus # NoDir
  BY <1>1 DEF RefInv, SerialInv, Orderly, BackupOfCall
<1>4. NoDir \notin Previous
  BY DEF Previous
<1>5. Store' = Store
  <2>1. CASE corpus # NoDir
    BY <1>1, <2>1 DEF Store, Records
  <2>2. CASE corpus = NoDir
    <3>1. Previous' = Previous
      BY <1>2, <1>3, <1>4, <2>2
    <3> QED
      BY <1>1, <2>2, <3>1 DEF Store, Records
  <2> QED
    BY <2>1, <2>2
<1>6. pc[c] = "installed" => update[c] \in Store
  BY DEF RefInv, SerialInv, Orderly, CorpusOfCall, Store
<1> QED
  BY <1>1, <1>2, <1>5, <1>6

\* The store depends on the corpus and on what is beside it only.
LEMMA StoreStays ==
    ASSUME corpus' = corpus, Previous' = Previous
    PROVE  Store' = Store
BY DEF Store, Records

\* Every step keeps the newest version at hand.
LEMMA NextNewest ==
    ASSUME Serial, RefInv, [Next]_vars
    PROVE  NewestAtHand'
<1> USE DEF RefInv, SerialInv, TypeInv, TypeOK, Path, Goto
<1>1. ASSUME UNCHANGED <<corpus, backup, litter>>,
             \A c \in Commands :
                pc'[c] \in {"install", "probe", "restore"} /\ backup[c] # NoDir =>
                   pc[c] \in {"install", "probe", "restore"}
      PROVE  NewestAtHand'
  BY <1>1 DEF NewestAtHand, Newest, Previous, Kept, Records
<1>2. ASSUME NEW c \in Commands, MoveAside(c) PROVE NewestAtHand'
  <2>1. /\ corpus # NoDir /\ corpus' = NoDir
        /\ backup' = [backup EXCEPT ![c] = corpus]
        /\ Previous' = Previous \union {corpus}
    BY <1>2, StoreAtMoveAside
  <2>2. Newest(corpus)
    BY <2>1 DEF NewestAtHand
  <2>3. \A d \in Commands \ {c} : pc'[d] = "idle"
    BY <1>2 DEF MoveAside, Solo
  <2>4. \A old \in Previous' : Records(old) \subseteq Records(backup'[c])
    BY <2>1, <2>2 DEF Newest
  <2> QED
    BY <2>1, <2>3, <2>4 DEF NewestAtHand, Newest, Records
<1>3. ASSUME NEW c \in Commands, Install(c) PROVE NewestAtHand'
  <2>1. corpus = NoDir /\ corpus' = staging[c] /\ Previous' = Previous
    BY <1>3, StoreAtInstall DEF Install, Orderly, CorpusOfCall
  <2>2. Records(staging[c]) = Store \union {update[c]}
    BY <1>3 DEF Install, Extends, StagesStore
  <2>3. \A old \in Previous : Records(old) \subseteq Records(corpus')
    BY <2>1, <2>2 DEF Store
  <2>4. \A d \in Commands : pc'[d] \notin {"install", "probe", "restore"}
    BY <1>3, <2>1 DEF Install, Vacant, Solo
  <2> QED
    BY <2>1, <2>3, <2>4 DEF NewestAtHand, Newest, Records
<1>4. ASSUME NEW c \in Commands, Restore(c) PROVE NewestAtHand'
  <2>1. corpus' = backup[c] /\ Newest(backup[c]) /\ Previous' \subseteq Previous
    BY <1>4, StoreAtRestore
  <2>2. \A d \in Commands : pc'[d] \notin {"install", "probe", "restore"}
    BY <1>4 DEF Restore, Solo
  <2> QED
    BY <2>1, <2>2 DEF NewestAtHand, Newest, Records
<1>5. ASSUME NEW c \in Commands, Finish(c) PROVE NewestAtHand'
  <2>1. corpus' = corpus /\ Previous' \subseteq Previous
    BY <1>5, StoreAtFinish
  <2>2. \A d \in Commands : pc'[d] \notin {"install", "probe", "restore"}
    BY <1>5 DEF Finish, Solo
  <2> QED
    BY <2>1, <2>2 DEF NewestAtHand, Newest, Records
<1>6. ASSUME NEW c \in Commands, Crash(c) PROVE NewestAtHand'
  <2>1. corpus' = corpus /\ Previous' = Previous
    BY <1>6, CrashKeeps DEF Crash
  <2>2. \A d \in Commands : pc'[d] \notin {"install", "probe", "restore"}
    BY <1>6 DEF Crash, Solo
  <2> QED
    BY <2>1, <2>2 DEF NewestAtHand, Newest, Records
<1>7. ASSUME NEW c \in Commands, NEW u \in Updates, Begin(c, u) PROVE NewestAtHand'
  BY <1>1, <1>7 DEF Begin, disk
<1>8. ASSUME NEW c \in Commands, Open(c) PROVE NewestAtHand'
  BY <1>1, <1>8 DEF Open, disk
<1>9. ASSUME NEW c \in Commands, NEW l \in Languages, ReadShard(c, l)
      PROVE  NewestAtHand'
  BY <1>1, <1>9 DEF ReadShard, disk
<1>10. ASSUME NEW c \in Commands, Stage(c) PROVE NewestAtHand'
  BY <1>1, <1>10 DEF Stage
<1>11. ASSUME NEW c \in Commands, CheckTarget(c) PROVE NewestAtHand'
  \* a call that has not moved anything aside yet has no backup
  BY <1>1, <1>11 DEF CheckTarget, disk, Orderly, BackupOfCall
<1>12. ASSUME NEW c \in Commands, Probe(c) PROVE NewestAtHand'
  BY <1>1, <1>12 DEF Probe, disk
<1>13. ASSUME NEW c \in Commands, Raise(c) PROVE NewestAtHand'
  BY <1>1, <1>13 DEF Raise, Handlers, disk, Serial
<1>14. CASE UNCHANGED vars
  BY <1>1, <1>14 DEF vars
<1> QED
  BY <1>2, <1>3, <1>4, <1>5, <1>6, <1>7, <1>8, <1>9, <1>10, <1>11, <1>12,
     <1>13, <1>14 DEF Next, Step, Fault

\* The other commands are idle, and StagesStore says nothing of them.
LEMMA AloneExtends ==
    ASSUME NEW c \in Commands, \A d \in Commands \ {c} : pc'[d] = "idle",
           StagesStore(c)'
    PROVE  Extends'
<1>1. ASSUME NEW d \in Commands \ {c} PROVE StagesStore(d)'
  BY <1>1 DEF StagesStore
<1> QED
  BY <1>1 DEF Extends

\* Every step keeps a staged directory the store and its own change.
LEMMA NextExtends ==
    ASSUME Serial, NoFreshStart, RefInv, [Next]_vars
    PROVE  Extends'
<1> USE DEF RefInv, SerialInv, TypeInv, TypeOK, Path, Goto
<1>1. ASSUME NEW c \in Commands, NEW u \in Updates, Begin(c, u) PROVE Extends'
  BY <1>1, AloneActive DEF Begin, Extends, StagesStore
<1>2. ASSUME NEW c \in Commands, Open(c) PROVE Extends'
  <2>1. \A d \in Commands \ {c} : pc[d] = "idle" /\ pc'[d] = "idle"
    BY <1>2 DEF Open, Solo
  <2>2. ASSUME pc'[c] = "read", corpus = NoDir PROVE Previous = {}
    <3>1. Base[update[c]] = None
      BY <1>2, <2>2 DEF Open
    <3>2. \A left \in litter : left.kind # "previous"
      BY <1>2, <2>2, <3>1 DEF Open, StartsOnNothing, NothingLeftAside
    <3>3. \A d \in Commands : backup[d] = NoDir
      BY <1>2, <2>1 DEF Open, Orderly, BackupOfCall
    <3> QED
      BY <3>2, <3>3 DEF Previous, Kept
  <2>3. Previous' = Previous /\ corpus' = corpus
    BY <1>2 DEF Open, disk, Previous, Kept
  <2>4. pc'[c] \in {"idle", "read"}
    BY <1>2 DEF Open
  <2>5. corpus = NoDir => view'[c] = EmptyDir /\ unread'[c] = {}
    BY <1>2 DEF Open
  <2>6. StagesStore(c)'
    BY <2>2, <2>3, <2>4, <2>5 DEF StagesStore, EmptyDir
  <2> QED
    BY <2>1, <2>6, AloneExtends
<1>3. ASSUME NEW c \in Commands, NEW l \in Languages, ReadShard(c, l)
      PROVE  Extends'
  <2>1. \A d \in Commands \ {c} : pc'[d] = "idle"
    BY <1>3 DEF ReadShard, Solo
  <2>2. corpus' = corpus /\ pc'[c] \in {"idle", "read"}
    BY <1>3 DEF ReadShard, disk
  <2>3. corpus = NoDir => pc'[c] = "idle"
    BY <1>3 DEF ReadShard
  <2>4. StagesStore(c)'
    BY <2>2, <2>3 DEF StagesStore
  <2> QED
    BY <2>1, <2>4, AloneExtends
<1>4. ASSUME NEW c \in Commands, Stage(c) PROVE Extends'
  <2>1. \A d \in Commands \ {c} : pc'[d] = "idle"
    BY <1>4 DEF Stage, Solo
  <2>2. corpus' = corpus /\ Previous' = Previous /\ update' = update
    BY <1>4 DEF Stage, Previous, Kept, memory
  <2>3. Store' = Store
    BY <2>2, StoreStays
  <2>4. CASE pc'[c] = "idle"
    <3>1. StagesStore(c)'
      BY <2>4 DEF StagesStore
    <3> QED
      BY <2>1, <3>1, AloneExtends
  <2>5. CASE pc'[c] # "idle"
    <3>1. /\ pc[c] = "read" /\ unread[c] = {} /\ pc'[c] = "check"
          /\ staging'[c] = With(view[c], update[c])
          /\ Base[update[c]] = None \/ Base[update[c]] \in Records(view[c])
      BY <1>4, <2>5 DEF Stage
    <3>2. update[c] \in Updates /\ view[c] \in Directory
      BY <3>1 DEF Busy
    <3>3. Records(view[c]) = Store
      <4>1. CASE corpus # NoDir
        <5>1. view[c] = corpus
          BY <3>1, <3>2, <4>1, RecordsCovered DEF Orderly, StagingOfCall
        <5> QED
          BY <4>1, <5>1 DEF Store
      <4>2. CASE corpus = NoDir
        <5>1. view[c] = EmptyDir /\ Previous = {}
          BY <3>1, <4>2 DEF Extends, StagesStore
        <5>2. Records(EmptyDir) = {}
          BY DEF Records, EmptyDir
        <5> QED
          BY <4>2, <5>1, <5>2 DEF Store
      <4> QED
        BY <4>1, <4>2
    <3>4. Records(staging'[c]) = Store \union {update[c]}
      BY <3>1, <3>2, <3>3, RecordsWith
    <3>5. Records(staging[c])' = Records(staging'[c])
      BY DEF Records
    <3>6. StagesStore(c)'
      BY <2>2, <2>3, <3>1, <3>3, <3>4, <3>5 DEF StagesStore
    <3> QED
      BY <2>1, <3>6, AloneExtends
  <2> QED
    BY <2>4, <2>5
\* From check on, what was staged and the store stay as they are.
<1>5. ASSUME NEW c \in Commands,
             \A d \in Commands \ {c} : pc'[d] = "idle",
             pc'[c] \in {"check", "aside", "install"} =>
                /\ pc[c] \in {"check", "aside", "install"}
                /\ staging'[c] = staging[c] /\ update'[c] = update[c]
                /\ Store' = Store,
             pc'[c] # "read"
      PROVE  Extends'
  <2>1. ASSUME pc'[c] \in {"check", "aside", "install"}
        PROVE  /\ Records(staging[c])' = Store' \union {update'[c]}
               /\ Base[update'[c]] # None => Base[update'[c]] \in Store'
    <3>1. Records(staging[c])' = Records(staging[c])
      BY <1>5, <2>1 DEF Records
    <3> QED
      BY <1>5, <2>1, <3>1 DEF Extends, StagesStore
  <2>2. StagesStore(c)'
    BY <1>5, <2>1 DEF StagesStore
  <2> QED
    BY <1>5, <2>2, AloneExtends
<1>6. ASSUME NEW c \in Commands, CheckTarget(c) PROVE Extends'
  <2>1. Store' = Store
    BY <1>6, StoreStays DEF CheckTarget, disk, Previous, Kept
  <2> QED
    BY <1>5, <1>6, <2>1 DEF CheckTarget, Solo, disk, memory
<1>7. ASSUME NEW c \in Commands, MoveAside(c) PROVE Extends'
  BY <1>5, <1>7, StoreAtMoveAside DEF MoveAside, Solo, memory
<1>8. ASSUME NEW c \in Commands, Install(c) PROVE Extends'
  BY <1>5, <1>8 DEF Install, Solo
<1>9. ASSUME NEW c \in Commands, Probe(c) PROVE Extends'
  BY <1>5, <1>9 DEF Probe, Solo
<1>10. ASSUME NEW c \in Commands, Restore(c) PROVE Extends'
  BY <1>5, <1>10 DEF Restore, Solo
<1>11. ASSUME NEW c \in Commands, Finish(c) PROVE Extends'
  BY <1>5, <1>11 DEF Finish, Solo
<1>12. ASSUME NEW c \in Commands, Raise(c) PROVE Extends'
  BY <1>5, <1>12 DEF Raise, Handlers, Solo
<1>13. ASSUME NEW c \in Commands, Crash(c) PROVE Extends'
  BY <1>5, <1>13 DEF Crash, Solo
<1>14. CASE UNCHANGED vars
  <2>1. Previous' = Previous /\ corpus' = corpus
    BY <1>14 DEF vars, Previous, Kept
  <2>2. Store' = Store
    BY <2>1, StoreStays
  <2> QED
    BY <1>14, <2>1, <2>2 DEF vars, Extends, StagesStore, Records
<1> QED
  BY <1>1, <1>2, <1>3, <1>4, <1>6, <1>7, <1>8, <1>9, <1>10, <1>11, <1>12,
     <1>13, <1>14 DEF Next, Step, Fault

\* Every step keeps the invariant of the refinement.
LEMMA NextRefInv ==
    ASSUME Serial, NoFreshStart, RefInv, [Next]_vars
    PROVE  RefInv'
<1>1. NoLitter'
  <2>1. ASSUME NEW c \in Commands, Crash(c) PROVE MaxCrashes # 0
    BY <2>1, BoundAssumption DEF Crash, RefInv, SerialInv, TypeInv, TypeOK
  <2>2. litter' = litter \/ \E c \in Commands : Crash(c)
    BY DEF Next, Step, Fault, Begin, Open, ReadShard, Stage, CheckTarget,
           MoveAside, Install, Probe, Restore, Finish, Raise, disk, vars
  <2> QED
    BY <2>1, <2>2 DEF RefInv, NoLitter
<1>2. StartsOnNothing'
  <2> USE DEF RefInv, SerialInv, TypeInv, TypeOK, Goto
  <2>1. ASSUME NEW c \in Commands, NEW u \in Updates, Begin(c, u)
        PROVE  StartsOnNothing'
    <3>1. /\ \A d \in Commands \ {c} : pc'[d] = "idle"
          /\ corpus' = corpus /\ litter' = litter /\ update'[c] = u
      BY <2>1, AloneActive DEF Begin, disk
    <3>2. corpus = NoDir /\ Base[u] = None => NothingLeftAside
      BY <2>1 DEF Begin, MayStart, NoFreshStart, NoLitter, NothingLeftAside
    <3> QED
      BY <3>1, <3>2 DEF StartsOnNothing, NothingLeftAside
  <2>2. ASSUME NEW c \in Commands, Step(c) \/ Fault(c)
        PROVE  \A d \in Commands : pc'[d] # "open"
    <3>1. pc'[c] # "open"
      BY <2>2 DEF Step, Fault, Open, ReadShard, Stage, CheckTarget, MoveAside,
                  Install, Probe, Restore, Finish, Raise, Handlers, Crash
    <3>2. \A d \in Commands \ {c} : pc'[d] = "idle"
      BY <2>2 DEF Solo, Step, Fault, Open, ReadShard, Stage, CheckTarget,
                  MoveAside, Install, Probe, Restore, Finish, Raise, Crash
    <3> QED
      BY <3>1, <3>2
  <2>3. CASE UNCHANGED vars
    BY <2>3 DEF vars, StartsOnNothing, NothingLeftAside
  <2> QED
    BY <2>1, <2>2, <2>3 DEF Next, StartsOnNothing
<1> QED
  BY <1>1, <1>2, NextSerialInv, NextNewest, NextExtends DEF RefInv

\* Every step of the renames is a step of the atomic corpus, or none.
LEMMA NextAbstract ==
    ASSUME Serial, RefInv, [Next]_vars
    PROVE  [Abstract!Next]_(Abstract!vars)
<1> USE DEF RefInv, SerialInv, TypeInv, TypeOK, Abstract!vars
<1>1. ASSUME NEW c \in Commands, Install(c) PROVE Abstract!Next
  <2>1. update[c] \in Updates
    BY <1>1 DEF Install, Busy
  <2>2. Abstract!Apply(update[c])
    BY <1>1, StoreAtInstall DEF Install, Abstract!Apply
  <2> QED
    BY <2>1, <2>2 DEF Abstract!Next
<1>2. ASSUME NEW c \in Commands, Finish(c)
      PROVE  Abstract!Next \/ UNCHANGED Abstract!vars
  <2>1. CASE pc[c] = "installed"
    <3>1. update[c] \in Updates
      BY <2>1 DEF Busy
    <3>2. Abstract!Acknowledge(update[c])
      BY <1>2, <2>1, StoreAtFinish DEF Finish, Abstract!Acknowledge
    <3> QED
      BY <3>1, <3>2 DEF Abstract!Next
  <2>2. CASE pc[c] # "installed"
    BY <1>2, <2>2, StoreAtFinish DEF Finish
  <2> QED
    BY <2>1, <2>2
<1>3. ASSUME NEW c \in Commands, MoveAside(c) PROVE UNCHANGED Abstract!vars
  BY <1>3, StoreAtMoveAside DEF MoveAside
<1>4. ASSUME NEW c \in Commands, Restore(c) PROVE UNCHANGED Abstract!vars
  BY <1>4, StoreAtRestore DEF Restore
<1>5. ASSUME NEW c \in Commands, Crash(c) PROVE UNCHANGED Abstract!vars
  BY <1>5, CrashKeeps, StoreStays DEF Crash
<1>6. ASSUME UNCHANGED <<corpus, backup, litter, committed>>
      PROVE  UNCHANGED Abstract!vars
  BY <1>6, StoreStays DEF Previous, Kept
<1>7. ASSUME NEW c \in Commands, NEW u \in Updates, Begin(c, u)
      PROVE  UNCHANGED Abstract!vars
  BY <1>6, <1>7 DEF Begin, disk
<1>8. ASSUME NEW c \in Commands, Open(c) \/ \E l \in Languages : ReadShard(c, l)
      PROVE  UNCHANGED Abstract!vars
  BY <1>6, <1>8 DEF Open, ReadShard, disk
<1>9. ASSUME NEW c \in Commands, Stage(c) \/ CheckTarget(c) \/ Probe(c) \/ Raise(c)
      PROVE  UNCHANGED Abstract!vars
  BY <1>6, <1>9 DEF Stage, CheckTarget, Probe, Raise, disk
<1>10. CASE UNCHANGED vars
  BY <1>6, <1>10 DEF vars
<1> QED
  BY <1>1, <1>2, <1>3, <1>4, <1>5, <1>7, <1>8, <1>9, <1>10
     DEF Next, Step, Fault

\* Initial states are initial states of the abstract corpus.
LEMMA InitAbstract == Init => Abstract!Init
<1> SUFFICES ASSUME Init PROVE Store = Seed
  BY DEF Init, Abstract!Init
<1>1. CASE Seed = {}
  BY <1>1 DEF Init, Store, Previous, Kept
<1>2. CASE Seed # {}
  <2>1. [l \in Languages |-> {u \in Seed : LanguageOf[u] = l}] \in Directory
    BY SeedAssumption DEF Directory
  <2>2. corpus = [l \in Languages |-> {u \in Seed : LanguageOf[u] = l}]
    BY <1>2 DEF Init
  <2>3. Records(corpus) = Seed
    BY <2>2, SeedAssumption, LanguageAssumption DEF Records
  <2> QED
    BY <2>1, <2>2, <2>3, NoDirAssumption DEF Store
<1> QED
  BY <1>1, <1>2

(***************************************************************************)
(* Commands run one after the other with at most one exception: whoever    *)
(* reads the corpus sees write_corpus_atomic as one atomic change, and an  *)
(* update a command reported stays.  Killed processes are covered as long  *)
(* as no addition is started on a corpus that a kill made go missing.      *)
(***************************************************************************)
THEOREM RefinesAtomicCorpus ==
    Serial /\ NoFreshStart => (Spec => ImplementsAtomicCorpus)
<1> SUFFICES ASSUME Serial, NoFreshStart PROVE Spec => ImplementsAtomicCorpus
  OBVIOUS
<1>1. RefInv /\ [Next]_vars => RefInv'
  BY NextRefInv
<1>2. RefInv /\ [Next]_vars => [Abstract!Next]_(Abstract!vars)
  BY NextAbstract
<1> QED
  BY InitRefInv, InitAbstract, <1>1, <1>2, PTL
     DEF Spec, ImplementsAtomicCorpus, Abstract!Spec
=============================================================================
