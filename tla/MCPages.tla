------------------------------- MODULE MCPages -------------------------------
(***************************************************************************)
(* Pages with two requests under way at a time, which is what an answer    *)
(* needs to overtake another; up to two stored snapshots, one proposal,    *)
(* and a token that is valid or is not.  The run of AdminListsUsers has a  *)
(* user without the role of an administrator, too.                         *)
(***************************************************************************)
EXTENDS Pages

CONSTANTS s1, s2

MCSnapshot == {s1, s2}

MCStored == {<< >>, <<s1>>, <<s2, s1>>}
==============================================================================
