------------------------------ MODULE ZonerMailer ------------------------------
(***************************************************************************)
(* The queue and the sending thread of src/muistot/mailer/zoner.py.        *)
(*                                                                         *)
(* Coroutines append to a deque; one daemon thread pops from it, and pops  *)
(* again for as long as its SMTP connection is open.  One action is what a *)
(* side does between two operations on the deque or the connection.  The   *)
(* thread's stop flag is set by __del__ only, which cannot run while the   *)
(* thread holds the mailer.                                                *)
(***************************************************************************)
EXTENDS Naturals, Sequences

CONSTANTS Mails,
          MaxMails       \* bound: mails accepted in one run

ASSUME BoundAssumption == MaxMails \in Nat

VARIABLES
    queue,      \* the deque, by position in accepted
    thread,     \* what the thread does next
    order,      \* the mail it has popped (0: none)
    link,       \* the server still has the connection that the thread holds
    accepted,   \* history: the mails for which send_email answered success
    delivered,  \* history: the positions in accepted of the delivered ones
    faults      \* environment, never changes: what may go wrong

vars == <<queue, thread, order, link, accepted, delivered, faults>>

\* A mail may be refused; the server may drop an open connection; connecting,
\* logging in or QUIT may raise.
Faults == {"send", "link", "connect"}

Threads == {"top", "connect", "send", "next", "sleep", "dead"}

TypeOK == /\ queue \in Seq(1 .. MaxMails)
          /\ thread \in Threads
          /\ order \in 0 .. MaxMails /\ (order # 0 <=> thread \in {"connect", "send"})
          /\ link \in BOOLEAN
          /\ accepted \in Seq(Mails) /\ Len(accepted) <= MaxMails
          /\ delivered \subseteq 1 .. MaxMails
          /\ faults \subseteq Faults

Init == /\ queue = <<>> /\ thread = "top" /\ order = 0 /\ link = FALSE
        /\ accepted = <<>> /\ delivered = {} /\ faults \in SUBSET Faults
-----------------------------------------------------------------------------
\* send_email: append to the deque, and success.
SendEmail(m) ==
    /\ Len(accepted) < MaxMails
    /\ accepted' = Append(accepted, m)
    /\ queue' = Append(queue, Len(accepted'))
    /\ UNCHANGED <<faults, thread, order, link, delivered>>

\* The top of the loop: popleft, or IndexError.
PopFirst ==
    /\ thread = "top"
    /\ \/ /\ queue # <<>>
          /\ order' = Head(queue) /\ queue' = Tail(queue) /\ thread' = "connect"
       \/ /\ queue = <<>>
          /\ thread' = "sleep" /\ UNCHANGED <<queue, order>>
    /\ UNCHANGED <<faults, link, accepted, delivered>>

\* SMTP(...) and login.
Connect ==
    /\ thread = "connect"
    /\ link' = TRUE /\ thread' = "send"
    /\ UNCHANGED <<faults, queue, order, accepted, delivered>>

\* Only IndexError is caught: anything else ends the thread, and with it the
\* order that was popped.
ConnectRaises ==
    /\ "connect" \in faults /\ thread = "connect"
    /\ thread' = "dead" /\ order' = 0
    /\ UNCHANGED <<faults, queue, link, accepted, delivered>>

\* Mutant: handle_threaded puts a mail that failed back at the end.
HandleThreaded_Requeues ==
    /\ thread = "send"
    /\ \/ /\ link /\ delivered' = delivered \cup {order} /\ UNCHANGED queue
       \/ /\ "send" \in faults \/ ~link
          /\ queue' = Append(queue, order) /\ UNCHANGED delivered
    /\ thread' = "next" /\ order' = 0
    /\ UNCHANGED <<faults, link, accepted>>

\* handle_threaded: whatever goes wrong is logged, and the mail is dropped.
HandleThreaded ==
    /\ thread = "send"
    /\ \/ link /\ delivered' = delivered \cup {order}
       \/ ("send" \in faults \/ ~link) /\ UNCHANGED delivered
    /\ thread' = "next" /\ order' = 0
    /\ UNCHANGED <<faults, queue, link, accepted>>

\* Mutant: the thread ends with its first batch.
PopNext_Ends ==
    /\ thread = "next"
    /\ \/ /\ queue # <<>>
          /\ order' = Head(queue) /\ queue' = Tail(queue) /\ thread' = "send"
          /\ UNCHANGED link
       \/ /\ queue = <<>>
          /\ thread' = "dead" /\ link' = FALSE /\ UNCHANGED <<queue, order>>
    /\ UNCHANGED <<faults, accepted, delivered>>

\* The inner loop: popleft on the same connection, or IndexError, QUIT and sleep.
PopNext ==
    /\ thread = "next"
    /\ \/ /\ queue # <<>>
          /\ order' = Head(queue) /\ queue' = Tail(queue) /\ thread' = "send"
          /\ UNCHANGED link
       \/ /\ queue = <<>>
          /\ thread' = "sleep" /\ link' = FALSE /\ UNCHANGED <<queue, order>>
    /\ UNCHANGED <<faults, accepted, delivered>>

\* The answer to QUIT is not 221: SMTP.__exit__ raises in place of IndexError.
QuitRaises ==
    /\ "connect" \in faults /\ thread = "next" /\ queue = <<>> /\ link
    /\ thread' = "dead" /\ link' = FALSE
    /\ UNCHANGED <<faults, queue, order, accepted, delivered>>

\* time.sleep(delay)
Wake == /\ thread = "sleep"
        /\ thread' = "top"
        /\ UNCHANGED <<faults, queue, order, link, accepted, delivered>>

\* The server drops the connection, which the thread notices only by its errors.
LinkBreak == /\ "link" \in faults /\ link
             /\ link' = FALSE
             /\ UNCHANGED <<faults, queue, thread, order, accepted, delivered>>

Run == PopFirst \/ Connect \/ HandleThreaded \/ PopNext \/ Wake

Next == \/ \E m \in Mails : SendEmail(m)
        \/ Run \/ ConnectRaises \/ QuitRaises \/ LinkBreak

Spec == Init /\ [][Next]_vars

\* The thread is scheduled; its sleep and its calls to the server return.
FairSpec == Spec /\ WF_vars(Run)
-----------------------------------------------------------------------------
Settled == Len(accepted) - Len(queue) - (IF order = 0 THEN 0 ELSE 1)

Queue == INSTANCE MailQueue WITH settled <- Settled

\* Whatever fails, mails are dealt with once each and in order.
ImplementsMailQueue == Queue!Spec

\* A mail that was accepted is dealt with unless an error ends the thread, and is
\* delivered unless the server refuses it or drops the connection.
Handled == \A i \in 1 .. MaxMails :
              i <= Len(accepted) ~>
                \/ i <= Settled /\ (faults \cap {"send", "link"} = {} => i \in delivered)
                \/ "connect" \in faults /\ thread = "dead"
=============================================================================
