---------------------------- MODULE MCReadFrom ------------------------------
(* Fault sets for the runs of ReadFrom. *)
EXTENDS ReadFrom

NoFaults  == {}
AllFaults == {"io", "pause"}
=============================================================================
