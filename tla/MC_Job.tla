------------------------------ MODULE MC_Job ------------------------------
EXTENDS PapiexJob, TLC
Kind(forks, faults) == [ranked |-> Ranks, final |-> Ranks, forks |-> forks, faults |-> faults, named |-> FALSE]
MCSetups ==
  {Kind(FALSE, FALSE), Kind(TRUE, FALSE), Kind(FALSE, TRUE),
   [Kind(FALSE, FALSE) EXCEPT !.ranked = Ranks \ {1}],
   [Kind(FALSE, FALSE) EXCEPT !.ranked = {}],
   [Kind(FALSE, FALSE) EXCEPT !.final = {0}],
   [Kind(FALSE, FALSE) EXCEPT !.final = {0}, !.named = TRUE]}
=============================================================================
