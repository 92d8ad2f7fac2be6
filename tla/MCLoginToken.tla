----------------------------- MODULE MCLoginToken -----------------------------
(***************************************************************************)
(* LoginToken for TLC: workers, users and tokens are interchangeable model *)
(* values.                                                                 *)
(***************************************************************************)
EXTENDS LoginToken, TLC

Symmetry == Permutations(Workers) \cup Permutations(Users) \cup Permutations(Tokens)
=============================================================================
