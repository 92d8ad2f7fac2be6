------------------------------ MODULE UserTable ------------------------------
(***************************************************************************)
(* What the users table promises to all who write it (the unique keys of   *)
(* database/schemas/schema.sql): rows come one at a time, a row changes    *)
(* one key at a time, and no two rows ever share a user name or an email.  *)
(* Who writes, how transactions wait for each other and which of them fail *)
(* is left to Accounts and EmailLogin, which implement it.                 *)
(***************************************************************************)
CONSTANTS Names, Emails

VARIABLE rows   \* the committed rows

Rows == [username : Names, email : Emails]

NameFree(n)  == \A u \in rows : u.username # n
EmailFree(e) == \A u \in rows : u.email # e

Init == /\ rows \in SUBSET Rows
        /\ \A u, v \in rows : u.username = v.username \/ u.email = v.email => u = v

Insert(n, e) == /\ NameFree(n) /\ EmailFree(e)
                /\ rows' = rows \cup {[username |-> n, email |-> e]}

Rename(u, n) == /\ NameFree(n)
                /\ rows' = (rows \ {u}) \cup {[username |-> n, email |-> u.email]}

ChangeEmail(u, e) == /\ EmailFree(e)
                     /\ rows' = (rows \ {u}) \cup {[username |-> u.username, email |-> e]}

Next == \/ \E n \in Names, e \in Emails : Insert(n, e)
        \/ \E u \in rows, n \in Names : Rename(u, n)
        \/ \E u \in rows, e \in Emails : ChangeEmail(u, e)

Spec == Init /\ [][Next]_rows
=============================================================================
