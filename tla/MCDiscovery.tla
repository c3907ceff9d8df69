----------------------------- MODULE MCDiscovery -----------------------------
(***************************************************************************)
(* Discovery for TLC.                                                      *)
(***************************************************************************)
EXTENDS Discovery

\* Nothing a search does depends on the arguments but through the plan, and the
\* properties that compare the two see every plan before its first answer.
PlanOnly == <<IF heard = {} THEN args ELSE Unset, plan, best, heard, search>>
=============================================================================
