--------------------------- MODULE MCScoreboard ---------------------------
(* Scoreboard on small instances.  Session processes are interchangeable.  *)
EXTENDS Scoreboard, TLC

Symmetry == Permutations(Sess)
=============================================================================
