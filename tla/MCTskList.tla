----------------------------- MODULE MCTskList -----------------------------
(* TskList for TLC: with few keys every order of additions is tried. *)
EXTENDS TskList
=============================================================================
