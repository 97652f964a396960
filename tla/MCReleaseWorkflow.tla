------------------------- MODULE MCReleaseWorkflow -------------------------
(***************************************************************************)
(* Instances of ReleaseWorkflow for TLC.                                   *)
(***************************************************************************)
EXTENDS ReleaseWorkflow, TLC

Dispatched ==
    {<<"major", "stable">>, <<"minor", "stable">>, <<"patch", "stable">>,
     <<"patch", "experimental">>, <<"patch", "candidate">>}

Alike == Permutations(Runs)
=============================================================================
