-------------------------------- MODULE Access --------------------------------
(***************************************************************************)
(* Who may do what: Status and require_status of                           *)
(* src/muistot/backend/repos/status.  A Status is the set of its flags.    *)
(*                                                                         *)
(* Every endpoint that changes something is behind require_auth; one who   *)
(* has no session, a visitor, only reads.                                  *)
(***************************************************************************)
EXTENDS Naturals

\* provide_status: the flags that come from the user's session.
RolesOf(superuser) ==
    {"NONE", "AUTHENTICATED"} \cup (IF superuser THEN {"SUPERUSER", "ADMIN"} ELSE {})

Visiting == {"NONE", "ANONYMOUS"}

\* Status.construct, for the row of a SELECT.
Derived(exists, published, own, admin) ==
         {IF exists THEN "EXISTS" ELSE "DOES_NOT_EXIST"}
    \cup {IF published THEN "PUBLISHED" ELSE "NOT_PUBLISHED"}
    \cup (IF own THEN {"OWN"} ELSE {})
    \cup (IF admin THEN {"ADMIN"} ELSE {})

\* The statuses that the repos ask for: any of them will do.
Creators == {{"DOES_NOT_EXIST", "AUTHENTICATED"}}
Admins   == {{"EXISTS", "ADMIN"}}
Editors  == {{"EXISTS", "ADMIN"}, {"EXISTS", "OWN"}}
Removers == {{"EXISTS", "ADMIN"}, {"OWN"}}
Authors  == {{"OWN"}}
Readers  == {{"PUBLISHED"}}
Viewers  == {{"PUBLISHED"}, {"EXISTS", "ADMIN"}, {"EXISTS", "OWN"}}
Anybody  == {{"AUTHENTICATED"}}

Meets(acceptable, status) == \E option \in acceptable : option \subseteq status

\* Some acceptable status has one of these flags.
Mentions(acceptable, flags) == \E option \in acceptable : option \cap flags # {}

\* Mutant: the refusal of an authenticated user does not ask for PUBLISHED.
PrivilegeErrors_Bare(acceptable) ==
         (IF Mentions(acceptable, {"AUTHENTICATED", "ADMIN", "SUPERUSER", "OWN"})
            THEN {{"EXISTS", "PUBLISHED", "ANONYMOUS"}} ELSE {})
    \cup (IF Mentions(acceptable, {"ADMIN", "SUPERUSER", "OWN"})
            THEN {{"EXISTS", "AUTHENTICATED"}} ELSE {})
    \cup (IF Mentions(acceptable, {"SUPERUSER", "OWN"})
            THEN {{"EXISTS", "SUPERUSER"}, {"EXISTS", "ADMIN"}} ELSE {})

\* The statuses that require_status adds to `errors`, all of them for 403.
PrivilegeErrors(acceptable) ==
         (IF Mentions(acceptable, {"AUTHENTICATED", "ADMIN", "SUPERUSER", "OWN"})
            THEN {{"EXISTS", "PUBLISHED", "ANONYMOUS"}} ELSE {})
    \cup (IF Mentions(acceptable, {"ADMIN", "SUPERUSER", "OWN"})
            THEN {{"EXISTS", "PUBLISHED", "AUTHENTICATED"}} ELSE {})
    \cup (IF Mentions(acceptable, {"SUPERUSER", "OWN"})
            THEN {{"EXISTS", "SUPERUSER"}, {"EXISTS", "ADMIN"}} ELSE {})

\* require_status, when no acceptable status is met: the first error that fits.
Refusal(acceptable, status) ==
    CASE Meets(PrivilegeErrors(acceptable), status) -> 403
      [] OTHER -> IF status \cap {"DOES_NOT_EXIST", "NOT_PUBLISHED"} # {} THEN 404
                  ELSE IF "ANONYMOUS" \in status THEN 403
                  ELSE IF "EXISTS" \in status THEN 409 ELSE 400
=============================================================================
