---------------------------- MODULE MCStabSearch ----------------------------
(* Model of StabSearch for TLC.                                             *)
EXTENDS StabSearch

\* bound: the search looks for one type; what other stabs hold is never read,
\* so they all hold 0.
MCInit ==
  /\ SearchInit
  /\ arg.type = "F"
  /\ \A k \in Index : stabs[k].n_type # "F" => stabs[k].n_value = 0

MCSpec == MCInit /\ [][SearchNext]_searchvars /\ WF_searchvars(SearchNext)
=============================================================================
