--------------------------- MODULE MCSessionManager ---------------------------
(***************************************************************************)
(* SessionManager for TLC: workers, users and tokens are model values, and *)
(* the safety runs identify states that differ by renaming them.           *)
(***************************************************************************)
EXTENDS SessionManager, TLC

Symmetry == Permutations(Workers) \cup Permutations(Users) \cup Permutations(Tokens)
=============================================================================
