---------------------------- MODULE AtomicCorpus ----------------------------
(***************************************************************************)
(* What the canonical corpus directory promises to the commands that use   *)
(* it: the corpus is one set of updates, an update takes effect whole and  *)
(* at once, an update a command reported as done stays in the corpus, and  *)
(* a replacement only applies to a record that is there.                   *)
(***************************************************************************)
CONSTANTS Updates,  \* the changes commands make to the corpus
          Base,     \* the update a replacement builds on, None for an addition
          None,
          Seed      \* the updates of the corpus there is at the start

VARIABLES store,     \* the updates the corpus holds
          committed  \* the updates whose command reported success

vars == <<store, committed>>

Init ==
    /\ store = Seed
    /\ committed = Seed

\* One command's change becomes the corpus.
Apply(u) ==
    /\ Base[u] # None => Base[u] \in store
    /\ store' = store \union {u}
    /\ UNCHANGED committed

\* The command that applied u returns without an error.
Acknowledge(u) ==
    /\ u \in store
    /\ committed' = committed \union {u}
    /\ UNCHANGED store

Next == \E u \in Updates : Apply(u) \/ Acknowledge(u)

Spec == Init /\ [][Next]_vars
=============================================================================
