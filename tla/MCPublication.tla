--------------------------- MODULE MCPublication ---------------------------
(***************************************************************************)
(* Instances of Publication for TLC.                                       *)
(***************************************************************************)
EXTENDS Publication

CONSTANTS p, q

\* A restricted source whose policy follows from its redistribution status,
\* and an open one; a source is not ready once it has been excluded.
Restricted ==
    [revision |-> 1, ready |-> TRUE, policy |-> None, redistribution |-> "metadata_only",
     applied |-> None]
Open ==
    [revision |-> 1, ready |-> TRUE, policy |-> "embedded_public", redistribution |-> "allowed",
     applied |-> None]

StartEntries == {Restricted, Open}

\* One source, two sources, and two observations in one source.
ObservedIn == <<
    <<[source |-> p, mode |-> "external_ref"]>>,
    <<[source |-> p, mode |-> "external_ref"], [source |-> q, mode |-> "embedded"]>>,
    <<[source |-> q, mode |-> "embedded"], [source |-> q, mode |-> "external_ref"]>> >>

Lists == {{}, {q}}
=============================================================================
