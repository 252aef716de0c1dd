---------------------------- MODULE MC_Caliper ----------------------------
EXTENDS PapiexCaliper, TLC
CONSTANTS main, worker, u, v, w
MCThreads == {main, worker}
MCUnits == {u, v, w}
\* The units are interchangeable.
Symmetry == Permutations(MCUnits)
Run(mode, time, threads) ==
  [mode |-> mode, keys |-> "own", mpx |-> FALSE, time |-> time, threads |-> threads, strangers |-> {},
   ends |-> {"shut", "fork"}]
MCPrograms ==
  {Run("user", 3, {main}), [Run("user", 2, {main}) EXCEPT !.mpx = TRUE],
   Run("io", 3, {main}),
   Run("gnu", 1, {main}), [Run("gnu", 0, {main}) EXCEPT !.keys = "any"],
   [Run("gnu", 0, {main, worker}) EXCEPT !.strangers = {worker}],
   Run("loop", 0, {main}), [Run("loop", 0, {main, worker}) EXCEPT !.ends = {}],
   Run("func", 0, {main}), [Run("func", 0, {main, worker}) EXCEPT !.ends = {}],
   [Run("func", 0, {main, worker}) EXCEPT !.strangers = {worker}]}
=============================================================================
