------------------------------- MODULE MCSites --------------------------------
(***************************************************************************)
(* Sites for TLC.  The superuser and the two projects differ from each     *)
(* other; the other users, and the requests, do not.                       *)
(***************************************************************************)
EXTENDS Sites, TLC

Symmetry == Permutations(Requests) \cup Permutations(Users \ Superusers)
=============================================================================
