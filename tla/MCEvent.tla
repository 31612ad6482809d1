------------------------------ MODULE MCEvent ------------------------------
(* Event on small instances.  Events are interchangeable, and so are the   *)
(* callbacks of modules.                                                   *)
EXTENDS Event, TLC

Symmetry == Permutations(Events) \cup Permutations(ModCbs)
=============================================================================
