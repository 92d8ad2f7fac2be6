------------------------------- MODULE MailQueue -------------------------------
(***************************************************************************)
(* What a Mailer that answers at once promises (mailer/abstract.py): mails *)
(* are accepted, and each is settled once, in the order of acceptance;     *)
(* some of the settled ones are delivered.                                 *)
(***************************************************************************)
EXTENDS Naturals, Sequences

CONSTANT Mails

VARIABLES accepted,   \* the mails for which send_email answered success
          settled,    \* how many of them are dealt with, from the first on
          delivered   \* the positions in accepted of the delivered ones

vars == <<accepted, settled, delivered>>

Init == accepted = <<>> /\ settled = 0 /\ delivered = {}

Accept(m) == /\ accepted' = Append(accepted, m)
             /\ UNCHANGED <<settled, delivered>>

Settle == /\ settled < Len(accepted)
          /\ settled' = settled + 1
          /\ delivered' \in {delivered, delivered \cup {settled + 1}}
          /\ UNCHANGED accepted

Next == (\E m \in Mails : Accept(m)) \/ Settle

Spec == Init /\ [][Next]_vars
=============================================================================
