---- MODULE MCDispatch ----
(* Dispatch for TLC.  A code below, one between and one above are enough for   *)
(* every order in which pr_response_add() may insert.                          *)
EXTENDS Dispatch
====
