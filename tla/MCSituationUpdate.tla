------------------------ MODULE MCSituationUpdate ------------------------
(***************************************************************************)
(* Model-checking instances of SituationUpdate: two situations A and B,   *)
(* two versions, two referenced objects.                                   *)
(***************************************************************************)
EXTENDS SituationUpdate

CONSTANTS A, B, r1, r2

MCSitOids == {A, B}
MCRefOids == {r1, r2}

\* Events: situation, version, references.
EA1  == [oid |-> A, version |-> 1, refs |-> {r1}]
EA1b == [oid |-> A, version |-> 1, refs |-> {r2}]
EA2  == [oid |-> A, version |-> 2, refs |-> {r2}]
EB1  == [oid |-> B, version |-> 1, refs |-> {r1}]

\* Concurrent batches creating and updating A, one also creating B.
MixedBatches == { <<EA1>>, <<EA2, EB1>>, <<EB1, EA1b>> }

\* The same (A, version 1) delivered twice with different references.
RepeatBatches == { <<EA1>>, <<EA1b>> }

\* A repeated event followed, in the same batch, by a new situation.
RepeatThenNewBatches == { <<EA1>>, <<EA1b, EB1>> }
=============================================================================
