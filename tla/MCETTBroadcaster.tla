------------------------- MODULE MCETTBroadcaster -------------------------
(***************************************************************************)
(* Model-checking instances of ETTBroadcaster: one subscription, two      *)
(* lines with one stop visit each.                                         *)
(***************************************************************************)
EXTENDS ETTBroadcaster

CONSTANTS sub1, l1, l2, l3, v1, v2

MCSubs == {sub1}
MCLines == {l1, l2}
\* l3 is a line ObjectID the model does not know.
MCReqLines == {l1, l2, l3}
MCSVs == {v1, v2}
MCLineOf == (v1 :> l1) @@ (v2 :> l2)

\* Arrival statuses of a stop visit only move forward.
MCStates == {"expected", "arrived", "departed"}
Forward == {<<"expected", "arrived">>, <<"arrived", "departed">>, <<"expected", "departed">>}

\* The partner accepts every notification it is sent.
OK == {200}
\* The partner may also answer a notification with an HTTP error.
Rejecting == {200, 500}

\* Expected times can be revised back and forth: two values, either way.
Revised == {<<"expected", "arrived">>, <<"arrived", "expected">>}
=============================================================================
