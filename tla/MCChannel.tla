----------------------------- MODULE MCChannel -----------------------------
(* Instances of Channel for TLC. *)
EXTENDS Channel, TLC

\* The client's numbers are interchangeable.
Numbers == Permutations(RemoteIds)
=============================================================================
