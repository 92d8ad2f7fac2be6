--------------------------- MODULE SessionRegistry ---------------------------
(***************************************************************************)
(* What src/muistot/security/sessions.py promises its callers: a registry  *)
(* of login sessions in which logging in, logging out and logging a user   *)
(* out of all sessions each happen at one instant.  A token is given out   *)
(* once; a session that has ended never comes back.                        *)
(***************************************************************************)
CONSTANTS Users, Tokens

VARIABLES open,   \* open[u]: the tokens under which user u is logged in
          given   \* every token that was ever given out

vars == <<open, given>>

Init == /\ open = [u \in Users |-> {}]
        /\ given = {}

Login(u, t) == /\ t \notin given
               /\ open' = [open EXCEPT ![u] = @ \cup {t}]
               /\ given' = given \cup {t}

\* The session of t ends: its holder logs out, or its lifetime runs out.
End(u, t) == /\ t \in open[u]
             /\ open' = [open EXCEPT ![u] = @ \ {t}]
             /\ UNCHANGED given

LogoutAll(u) == /\ open' = [open EXCEPT ![u] = {}]
                /\ UNCHANGED given

Reset == /\ open' = [u \in Users |-> {}]
         /\ UNCHANGED given

Next == \/ \E u \in Users, t \in Tokens : Login(u, t) \/ End(u, t)
        \/ \E u \in Users : LogoutAll(u)
        \/ Reset

Spec == Init /\ [][Next]_vars
=============================================================================
