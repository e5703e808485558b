--------------------- MODULE MCReferentialLifecycle ---------------------
(***************************************************************************)
(* Model-checking instances of ReferentialLifecycle.                      *)
(***************************************************************************)
EXTENDS ReferentialLifecycle

CONSTANTS ra, rb, rc, sa, sb, c1, c2

MCRefs == {ra, rb, rc}
MCSlugs == {sa, sb}
=============================================================================
