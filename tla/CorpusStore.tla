----------------------------- MODULE CorpusStore -----------------------------
(***************************************************************************)
(* spokenform_gold/corpus.py: the canonical corpus is a directory with one *)
(* JSONL shard per language, and write_corpus_atomic replaces the whole    *)
(* directory by building a staging directory beside it, moving the old     *)
(* directory aside and moving the staging directory in.  Every os.replace, *)
(* existence test and shard read is a step of its own: nothing in the code *)
(* locks the directory, so the commands of several terminals interleave    *)
(* here, a call may fail with an OSError, be interrupted from the keyboard *)
(* or be killed between any two steps.                                     *)
(*                                                                         *)
(* The content of a shard is the set of updates it reflects.  An update    *)
(* either adds a record (integrate_batch, for which a missing corpus is an *)
(* empty one) or replaces the record another update made                   *)
(* (replace_corpus_record_atomic, which refuses a missing corpus).         *)
(***************************************************************************)
EXTENDS Naturals, FiniteSets

CONSTANTS Commands,    \* terminals, each running one command at a time
          Languages,   \* the language shards
          Updates,     \* the changes the commands make
          LanguageOf,  \* the shard an update lands in
          Base,        \* the update a replacement builds on, None for an addition
          None,
          Seed,        \* the updates of the corpus there is at the start, {} if none
          NoDir,       \* no directory at that path
          MaxActive,   \* commands that may run at once
          MaxErrors,   \* bound: exceptions raised by or between system calls
          MaxCrashes,  \* bound: killed processes
          InGap,       \* whether an exception may hit the gap Handlers describes
          FreshStart   \* whether an addition may follow a kill that left no corpus

Directory == [Languages -> SUBSET Updates]
Path == Directory \union {NoDir}

ASSUME NoneAssumption == None \notin Updates
ASSUME NoDirAssumption == NoDir \notin Directory
ASSUME LanguageAssumption == LanguageOf \in [Updates -> Languages]
ASSUME BaseAssumption == Base \in [Updates -> Updates \union {None}]
ASSUME SeedAssumption == Seed \subseteq Updates
ASSUME BoundAssumption ==
    MaxActive \in Nat /\ MaxErrors \in Nat /\ MaxCrashes \in Nat
ASSUME GapAssumption == InGap \in BOOLEAN
ASSUME FreshStartAssumption == FreshStart \in BOOLEAN

VARIABLES corpus,     \* data/corpus
          staging,    \* each call's .corpus.next-* directory
          backup,     \* each call's .corpus.previous-* directory
          litter,     \* directories of that kind that a killed call left
          pc,         \* where each command is
          update,     \* the change each command is making
          view,       \* the records each command has read
          unread,     \* the listed shards each command has still to read
          committed,  \* history: updates whose command reported success
          errors,     \* exceptions raised so far
          crashes     \* killed processes so far

disk == <<corpus, staging, backup, litter>>
memory == <<update, view, unread>>
vars == <<corpus, staging, backup, litter, pc, update, view, unread,
          committed, errors, crashes>>

-----------------------------------------------------------------------------
EmptyDir == [l \in Languages |-> {}]
Records(dir) == UNION {dir[l] : l \in Languages}
Shards(dir) == {l \in Languages : dir[l] # {}}

\* os.replace moves a directory onto a path that is free or an empty directory.
Vacant(path) == path = NoDir \/ path = EmptyDir

Active == {c \in Commands : pc[c] # "idle"}

With(dir, u) == [dir EXCEPT ![LanguageOf[u]] = @ \union {u}]

Init ==
    /\ corpus = IF Seed = {} THEN NoDir
                ELSE [l \in Languages |-> {u \in Seed : LanguageOf[u] = l}]
    /\ staging = [c \in Commands |-> NoDir]
    /\ backup = [c \in Commands |-> NoDir]
    /\ litter = {}
    /\ pc = [c \in Commands |-> "idle"]
    /\ update = [c \in Commands |-> None]
    /\ view = [c \in Commands |-> EmptyDir]
    /\ unread = [c \in Commands |-> {}]
    /\ committed = Seed
    /\ errors = 0
    /\ crashes = 0

Goto(c, label) == pc' = [pc EXCEPT ![c] = label]

\* Whoever runs the commands starts an addition beside a previous version that
\* a killed call left, with no corpus in its place, only if FreshStart is TRUE.
MayStart(u) ==
    \/ FreshStart
    \/ Base[u] # None \/ corpus # NoDir
    \/ \A left \in litter : left.kind # "previous"

\* A command is started, again if an earlier attempt at its change failed.
Begin(c, u) ==
    /\ pc[c] = "idle"
    /\ Cardinality(Active) < MaxActive
    /\ u \notin committed
    /\ MayStart(u)
    /\ update' = [update EXCEPT ![c] = u]
    /\ Goto(c, "open")
    /\ UNCHANGED <<disk, view, unread, committed, errors, crashes>>

\* The exists/is_dir test and the listing of the shards.
Open(c) ==
    /\ pc[c] = "open"
    /\ view' = [view EXCEPT ![c] = EmptyDir]
    /\ unread' = [unread EXCEPT ![c] = IF corpus = NoDir THEN {}
                                                         ELSE Shards(corpus)]
    /\ Goto(c, IF corpus = NoDir /\ Base[update[c]] # None THEN "idle"
                                                           ELSE "read")
    /\ UNCHANGED <<disk, update, committed, errors, crashes>>

\* Shards are opened by path: one that is gone by now ends the command.
ReadShard(c, l) ==
    /\ pc[c] = "read"
    /\ l \in unread[c]
    /\ IF corpus = NoDir \/ (corpus # NoDir /\ corpus[l] = {})
         THEN /\ Goto(c, "idle")
              /\ UNCHANGED <<view, unread>>
         ELSE /\ view' = [view EXCEPT ![c][l] = corpus[l]]
              /\ unread' = [unread EXCEPT ![c] = @ \ {l}]
              /\ UNCHANGED pc
    /\ UNCHANGED <<disk, update, committed, errors, crashes>>

\* The change is applied in memory and written, shard by shard, to a fresh
\* staging directory that no other command knows of.
Stage(c) ==
    LET u == update[c] IN
    /\ pc[c] = "read"
    /\ unread[c] = {}
    /\ IF Base[u] = None \/ Base[u] \in Records(view[c])
         THEN /\ staging' = [staging EXCEPT ![c] = With(view[c], u)]
              /\ Goto(c, "check")
         ELSE /\ Goto(c, "idle")
              /\ UNCHANGED staging
    /\ UNCHANGED <<corpus, backup, litter, memory, committed, errors, crashes>>

\* if corpus_root.exists(): only then is there something to move aside.
CheckTarget(c) ==
    /\ pc[c] = "check"
    /\ Goto(c, IF corpus = NoDir THEN "install" ELSE "aside")
    /\ UNCHANGED <<disk, memory, committed, errors, crashes>>

\* Mutant of MoveAside: the old directory is removed, not moved aside.
MoveAsideDeletes(c) ==
    /\ pc[c] = "aside"
    /\ corpus' = NoDir
    /\ Goto(c, "install")
    /\ UNCHANGED <<staging, backup, litter, memory, committed, errors, crashes>>

\* os.replace(corpus_root, backup); the source may have gone meanwhile.
MoveAside(c) ==
    /\ pc[c] = "aside"
    /\ IF corpus = NoDir
         THEN /\ Goto(c, "failed")
              /\ UNCHANGED <<corpus, backup>>
         ELSE /\ backup' = [backup EXCEPT ![c] = corpus]
              /\ corpus' = NoDir
              /\ Goto(c, "install")
    /\ UNCHANGED <<staging, litter, memory, committed, errors, crashes>>

\* os.replace(staging, corpus_root); another command may have put its own
\* directory there first.
Install(c) ==
    /\ pc[c] = "install"
    /\ IF Vacant(corpus)
         THEN /\ corpus' = staging[c]
              /\ staging' = [staging EXCEPT ![c] = NoDir]
              /\ Goto(c, "installed")
         ELSE /\ Goto(c, "probe")
              /\ UNCHANGED <<corpus, staging>>
    /\ UNCHANGED <<backup, litter, memory, committed, errors, crashes>>

\* Mutant of Probe: the handler leaves the backup to the finally clause.
ProbeGivesUp(c) ==
    /\ pc[c] = "probe"
    /\ Goto(c, "failed")
    /\ UNCHANGED <<disk, memory, committed, errors, crashes>>

\* The handler of a failed install: is there a backup to put back?
Probe(c) ==
    /\ pc[c] = "probe"
    /\ Goto(c, IF backup[c] # NoDir /\ corpus = NoDir THEN "restore"
                                                      ELSE "failed")
    /\ UNCHANGED <<disk, memory, committed, errors, crashes>>

\* os.replace(backup, corpus_root) in that handler.
Restore(c) ==
    /\ pc[c] = "restore"
    /\ Goto(c, "failed")
    /\ IF Vacant(corpus)
         THEN /\ corpus' = backup[c]
              /\ backup' = [backup EXCEPT ![c] = NoDir]
         ELSE UNCHANGED <<corpus, backup>>
    /\ UNCHANGED <<staging, litter, memory, committed, errors, crashes>>

\* Mutant of Finish: the finally clause removes a staging directory only.
FinishKeepsBackup(c) ==
    /\ pc[c] \in {"installed", "failed"}
    /\ staging' = [staging EXCEPT ![c] = NoDir]
    /\ committed' = IF pc[c] = "installed" THEN committed \union {update[c]}
                                           ELSE committed
    /\ Goto(c, "idle")
    /\ UNCHANGED <<corpus, backup, litter, memory, errors, crashes>>

\* The finally clause removes what the call still owns; then the command
\* returns, or ends with the exception.
Finish(c) ==
    /\ pc[c] \in {"installed", "failed"}
    /\ staging' = [staging EXCEPT ![c] = NoDir]
    /\ backup' = [backup EXCEPT ![c] = NoDir]
    /\ committed' = IF pc[c] = "installed" THEN committed \union {update[c]}
                                           ELSE committed
    /\ Goto(c, "idle")
    /\ UNCHANGED <<corpus, litter, memory, errors, crashes>>

\* Mutant of Handlers: the install is outside of the try statement.
HandlersWithoutTry(label) == {"failed"}

\* Where an exception raised at a step takes the call.  A KeyboardInterrupt
\* that arrives during the first os.replace is raised when it returns, with
\* the old directory moved aside and the try around the install not entered.
Handlers(label) ==
    IF label = "install" THEN IF InGap THEN {"probe", "failed"} ELSE {"probe"}
                         ELSE {"failed"}

\* The operating system refuses the system call the command is about to make
\* (after the install it is the fsync of the parent directory), or the
\* command is interrupted from the keyboard there.
Raise(c) ==
    /\ errors < MaxErrors
    /\ pc[c] \in {"check", "aside", "install", "probe", "restore", "installed"}
    /\ \E label \in Handlers(pc[c]) : Goto(c, label)
    /\ errors' = errors + 1
    /\ UNCHANGED <<disk, memory, committed, crashes>>

\* The process is killed: no handler and no finally clause runs.
Crash(c) ==
    /\ crashes < MaxCrashes
    /\ pc[c] # "idle"
    /\ litter' = litter \union
         {left \in {[kind |-> "next", dir |-> staging[c]],
                    [kind |-> "previous", dir |-> backup[c]]} :
             left.dir # NoDir}
    /\ staging' = [staging EXCEPT ![c] = NoDir]
    /\ backup' = [backup EXCEPT ![c] = NoDir]
    /\ Goto(c, "idle")
    /\ crashes' = crashes + 1
    /\ UNCHANGED <<corpus, memory, committed, errors>>

Step(c) ==
    \/ Open(c)
    \/ \E l \in Languages : ReadShard(c, l)
    \/ Stage(c)
    \/ CheckTarget(c)
    \/ MoveAside(c)
    \/ Install(c)
    \/ Probe(c)
    \/ Restore(c)
    \/ Finish(c)

Fault(c) == Raise(c) \/ Crash(c)

Next ==
    \E c \in Commands :
        \/ \E u \in Updates : Begin(c, u)
        \/ Step(c)
        \/ Fault(c)

Spec == Init /\ [][Next]_vars

\* A running command keeps running: it waits for nothing and nobody.
Fairness == \A c \in Commands : WF_vars(Step(c))

FairSpec == Spec /\ Fairness

-----------------------------------------------------------------------------
\* The previous versions of the corpus that are on disk beside it.
Kept == {backup[c] : c \in Commands} \union
          {left.dir : left \in {x \in litter : x.kind = "previous"}}
Previous == Kept \ {NoDir}

\* What the corpus holds while it is being replaced: the previous version.
Store == IF corpus # NoDir THEN Records(corpus)
                           ELSE UNION {Records(dir) : dir \in Previous}

(***************************************************************************)
(* TypeOK: every path holds nothing or a directory of shards, every        *)
(* command is at a step of its call, and outside of write_corpus_atomic it *)
(* owns no directory: the finally clause has removed both.                 *)
(***************************************************************************)
TypeOK ==
    /\ corpus \in Path
    /\ staging \in [Commands -> Path]
    /\ backup \in [Commands -> Path]
    /\ litter \subseteq [kind : {"next", "previous"}, dir : Directory]
    /\ pc \in [Commands -> {"idle", "open", "read", "check", "aside", "install",
                             "installed", "probe", "restore", "failed"}]
    /\ update \in [Commands -> Updates \union {None}]
    /\ view \in [Commands -> Directory]
    /\ unread \in [Commands -> SUBSET Languages]
    /\ committed \subseteq Updates
    /\ errors \in Nat /\ crashes \in Nat
    /\ \A c \in Commands : pc[c] \in {"idle", "open", "read"} =>
                             staging[c] = NoDir /\ backup[c] = NoDir

(***************************************************************************)
(* NeverVanishes: once a command has reported success there is, in every   *)
(* state, a complete version of the corpus on disk: at data/corpus, or as  *)
(* the previous version some call moved aside.  The restore branch and the *)
(* order of the finally clause of write_corpus_atomic are what this is     *)
(* about; it has to hold whatever the other commands do meanwhile.         *)
(***************************************************************************)
NeverVanishes == committed # {} /\ corpus = NoDir => Previous # {}

(***************************************************************************)
(* Recoverable: while commands run one at a time, every update whose       *)
(* command reported success is still in some directory on disk, after any  *)
(* mix of failed and killed calls, though perhaps not at data/corpus.      *)
(***************************************************************************)
Recoverable ==
    \A u \in committed :
        \/ corpus # NoDir /\ u \in Records(corpus)
        \/ \E dir \in Previous : u \in Records(dir)

(***************************************************************************)
(* CorpusReturns: when no process is killed, a corpus that was moved aside *)
(* does not stay away: the call installs its new version, or puts the old  *)
(* one back, or another command's version takes the place.                 *)
(***************************************************************************)
CorpusReturns == (committed # {} /\ corpus = NoDir) ~> (corpus # NoDir)

(***************************************************************************)
(* ImplementsAtomicCorpus: for commands run one at a time the sequence of  *)
(* renames is, for whoever reads the corpus, one atomic change, a failing  *)
(* call and a killed one included.  It needs FreshStart = FALSE once       *)
(* processes are killed: an addition takes the corpus a kill left away for *)
(* an empty one (workflow.py:375); CorpusIsComplete says what that costs.  *)
(***************************************************************************)
Abstract == INSTANCE AtomicCorpus WITH store <- Store
ImplementsAtomicCorpus == Abstract!Spec

(***************************************************************************)
(* CorpusIsComplete: a corpus that is at data/corpus has every update      *)
(* whose command reported success.  It is false with FreshStart = TRUE and *)
(* a kill between the two renames: the next integration starts from        *)
(* nothing and reports success, and the earlier records are only in a      *)
(* directory that no command reads.                                        *)
(***************************************************************************)
CorpusIsComplete == corpus # NoDir => committed \subseteq Records(corpus)
=============================================================================
