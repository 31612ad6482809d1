------------------------------ MODULE MCQuota ------------------------------
(* Instances of Quota for TLC: two sessions of two users.                     *)
EXTENDS Quota, TLC

Permuted == Permutations(Sessions) \cup Permutations(Users) \cup Permutations(Paths)
=============================================================================
