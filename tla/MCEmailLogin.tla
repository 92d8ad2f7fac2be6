---------------------------- MODULE MCEmailLogin ----------------------------
(***************************************************************************)
(* EmailLogin for TLC: requests, addresses, names and processes are        *)
(* interchangeable.                                                        *)
(***************************************************************************)
EXTENDS EmailLogin, TLC

Symmetry == Permutations(Asks) \cup Permutations(Exchanges) \cup Permutations(Emails)
              \cup Permutations(Names) \cup Permutations(Processes)
=============================================================================
