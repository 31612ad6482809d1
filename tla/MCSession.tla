----------------------------- MODULE MCSession -----------------------------
(***************************************************************************)
(* Session has no unbounded state, so nothing is bounded here; the configs *)
(* choose the directives.                                                  *)
(***************************************************************************)
EXTENDS Session
=============================================================================
