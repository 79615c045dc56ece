------------------------------ MODULE MCReports ------------------------------
(* Two replicas scrape the same two groups; the database does not take the *)
(* first report of c1 if it is of g1.                                      *)
EXTENDS Reports

CONSTANTS g1, g2, c1, c2

MCRefused == {[group |-> g1, seq |-> 1, by |-> c1]}
==============================================================================
