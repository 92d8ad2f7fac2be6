------------------------------- MODULE Accounts -------------------------------
(***************************************************************************)
(* Changing the email, the user name or the personal data of an account    *)
(* while sessions are open: src/muistot/backend/api/me.py, services/me.py. *)
(*                                                                         *)
(* A session names its user; the users table is changed in a transaction   *)
(* that commits after the response, the sessions are in Redis at once.  A  *)
(* request is a coroutine: one action is what it does between two awaits,  *)
(* or one Redis command of a SessionManager call.  The calls are those of  *)
(* the module SessionManager (Store): requests in different server         *)
(* processes interleave between any two commands.                          *)
(*                                                                         *)
(* The session that request r starts is named r; the one that a person     *)
(* had before is named by the person.                                      *)
(***************************************************************************)
EXTENDS Naturals, FiniteSets

CONSTANTS Requests,
          People,         \* the rows of the users table
          Names, Emails,
          NoOne, NoName,
          Environments,   \* what may go wrong: the sets of Faults to look at
          AtOnce,         \* the bound on requests under way at a time
          Overlapping     \* the bound on all requests where those of a person overlap

ASSUME SortsAssumption == Requests \cap People = {} /\ Names \cap Emails = {}
ASSUME NullAssumption == NoOne \notin People \cup Requests /\ NoName \notin Names \cup Emails

VARIABLES
    name,     \* name[p], mail[p]: the committed row of person p
    mail,
    session,  \* session[t]: the user name that session t is for, or NoName
    links,    \* the store's sets: links[n] are the tokens in `user:<n>`
    issued,   \* sessions that were ever stored
    cmd,      \* cmd[r]: the next Redis command of the call that r is in
    subject,  \* subject[r]: the user name this call is about
    held,     \* held[r]: the token in its hand
    todo,     \* todo[r]: what is left of the SMEMBERS reply it iterates over
    due,      \* due[r]: history of the store, what the call has promised to remove
    pc,       \* what each request does next
    op,       \* op[r]: its endpoint
    who,      \* who[r]: the user name it acts for, taken from a session or a token
    want,     \* want[r]: the new user name or email; the session to discard
    left,     \* left[r]: the names whose sessions it is still to clear
    row,      \* row[r]: the person whose row or data it has changed but not committed
    caller,   \* history: caller[r] is the person who sent the request
    must,     \* history: must[r] are the sessions of who[r] when it arrived
    raced,    \* history: user names with two calls at a time that start or clear sessions
    faults    \* environment, never changes: what may go wrong

tables == <<name, mail>>
inputs == <<op, who, want, caller, must>>
calls  == <<session, links, issued, cmd, subject, held, todo, due, raced>>
vars   == <<name, mail, session, links, issued, cmd, subject, held, todo, due, pc, op, who,
            want, left, row, caller, must, raced, faults>>

Sessions == People \cup Requests
PCs == {"new", "act", "out", "update", "again", "refuse", "load", "commit", "done", "failed"}
\* Two requests of a person may overlap; a commit may fail.
Faults == {"overlap", "commit"}
ASSUME BoundsAssumption == Environments \subseteq SUBSET Faults /\ AtOnce \in Nat /\ Overlapping \in Nat

Changes == {"email", "username"}
Ops == Changes \cup {"none", "login", "data", "log_me_out", "log_me_out_all"}

\* Each request makes its calls as a process of its own would.  No command raises
\* here, so that nothing is ever lost; SessionManager looks at that.
Store == INSTANCE SessionManager
           WITH Workers <- Requests, Users <- Names, Tokens <- Sessions,
                NoUser <- NoName, NoToken <- NoOne, OneAtATime <- FALSE,
                pc <- cmd, who <- subject, must <- due, lost <- faults \cap {}, failing <- ("command" \in faults)

TypeOK == /\ Store!TypeOK
          /\ name \in [People -> Names] /\ mail \in [People -> Emails]
          /\ pc \in [Requests -> PCs] /\ op \in [Requests -> Ops]
          /\ who \in [Requests -> Names \cup {NoName}]
          /\ want \in [Requests -> Names \cup Emails \cup Sessions \cup {NoName}]
          /\ left \in [Requests -> SUBSET Names]
          /\ row \in [Requests -> People \cup {NoOne}]
          /\ caller \in [Requests -> People \cup {NoOne}]
          /\ must \in [Requests -> SUBSET Sessions]
          /\ raced \subseteq Names
          /\ faults \subseteq Faults

\* Everybody has a session; user names and emails are unique.
Init == /\ name \in [People -> Names] /\ mail \in [People -> Emails]
        /\ \A p, q \in People : name[p] = name[q] \/ mail[p] = mail[q] => p = q
        /\ session = [t \in Sessions |-> IF t \in People THEN name[t] ELSE NoName]
        /\ links = [n \in Names |-> {p \in People : name[p] = n}]
        /\ issued = People
        /\ cmd = [r \in Requests |-> "idle"]
        /\ subject = [r \in Requests |-> NoName]
        /\ held = [r \in Requests |-> NoOne]
        /\ todo = [r \in Requests |-> {}]
        /\ due = [r \in Requests |-> {}]
        /\ pc = [r \in Requests |-> "new"]
        /\ op = [r \in Requests |-> "none"]
        /\ who = [r \in Requests |-> NoName]
        /\ want = [r \in Requests |-> NoName]
        /\ left = [r \in Requests |-> {}]
        /\ row = [r \in Requests |-> NoOne]
        /\ caller = [r \in Requests |-> NoOne]
        /\ must = [r \in Requests |-> {}]
        /\ raced = {}
        /\ faults \in Environments
-----------------------------------------------------------------------------
Goto(r, next) == pc' = [pc EXCEPT ![r] = next]
InCall(r) == cmd[r] # "idle"
Under(r) == pc[r] \notin {"new", "done", "failed"} \/ InCall(r)
Opener(t) == IF t \in People THEN t ELSE caller[t]
Free(p) == "overlap" \notin faults => \A r \in Requests : caller[r] = p => ~Under(r)

\* q is in a call that starts or clears sessions of user n.
About(q, n) == subject[q] = n /\ cmd[q] \notin {"drop", "detach"}

\* r begins such a call about user n: does it overlap another?
Meet(n) == raced' = raced \cup (IF \E q \in Requests : About(q, n) THEN {n} ELSE {})

\* The next command of the call that r is in; the token of a login is named r.
Command(r) ==
    /\ UNCHANGED <<faults, tables, inputs, pc, left, row, raced>>
    /\ Store!Step(r)
    /\ cmd[r] = "draw" => held'[r] = r

\* r goes on to clear the sessions of these names.
Clear(r, names, next) == Goto(r, next) /\ left' = [left EXCEPT ![r] = names]

\* SessionManager.clear_sessions for the next name, the old one first.
ClearNext(r, after) ==
    LET n == IF who[r] \in left[r] THEN who[r] ELSE want[r] IN
    /\ ~InCall(r)
    /\ UNCHANGED <<faults, tables, inputs, row>>
    /\ Store!ClearSessions(r, n) /\ Meet(n)
    /\ left' = [left EXCEPT ![r] = @ \ {n}]
    /\ Goto(r, IF left[r] = {n} THEN after ELSE pc[r])

LogOut(r) == \/ pc[r] = "out" /\ ClearNext(r, "update")
             \/ pc[r] = "again" /\ ClearNext(r, "load")
             \/ pc[r] = "refuse" /\ ClearNext(r, "failed")

\* A request begins: it acts for user n, who is really person p.
Begin(r, p, n, endpoint, wanted, next) ==
    /\ pc[r] = "new" /\ Free(p)
    /\ Cardinality({q \in Requests : Under(q)}) < AtOnce
    /\ "overlap" \in faults => Cardinality({q \in Requests : pc[q] # "new"}) < Overlapping
    /\ Goto(r, next)
    /\ op' = [op EXCEPT ![r] = endpoint]
    /\ who' = [who EXCEPT ![r] = n]
    /\ want' = [want EXCEPT ![r] = wanted]
    /\ caller' = [caller EXCEPT ![r] = p]
    /\ must' = [must EXCEPT ![r] = {t \in Sessions : session[t] = n /\ endpoint \in Changes}]
    /\ UNCHANGED <<faults, tables, calls, left, row>>

\* POST /auth/email/exchange: a token that was mailed to p for the name p has.
Login(r, p) == Begin(r, p, name[p], "login", NoName, "load")

\* An endpoint of /me, with the session t: authenticate takes the user name from
\* the session and never asks the users table.
Arrive(r, t) ==
    /\ session[t] # NoName
    /\ \/ \E e \in Emails : Begin(r, Opener(t), session[t], "email", e, "act")
       \/ \E n \in Names : Begin(r, Opener(t), session[t], "username", n, "act")
       \/ Begin(r, Opener(t), session[t], "data", NoName, "update")
       \/ Begin(r, Opener(t), session[t], "log_me_out", t, "act")
       \/ Begin(r, Opener(t), session[t], "log_me_out_all", NoName, "act")
-----------------------------------------------------------------------------
(* DELETE /me and DELETE /me/sessions *)

LogMeOut(r) ==
    /\ pc[r] = "act" /\ op[r] = "log_me_out"
    /\ UNCHANGED <<faults, tables, inputs, left, row, raced>>
    /\ Store!EndSession(r, want[r])
    /\ Goto(r, "done")

LogMeOutAll(r) ==
    /\ pc[r] = "act" /\ op[r] = "log_me_out_all"
    /\ UNCHANGED <<faults, tables, inputs, left, row>>
    /\ Store!ClearSessions(r, who[r]) /\ Meet(who[r])
    /\ Goto(r, "done")
-----------------------------------------------------------------------------
(* POST /me/email and POST /me/username *)

\* change_email: 304 for the user's own address, 409 for another's; otherwise
\* the user is logged out.
CheckEmail(r) ==
    /\ pc[r] = "act" /\ op[r] = "email"
    /\ \/ /\ \E p \in People : name[p] = who[r] /\ mail[p] = want[r]
          /\ Goto(r, "done") /\ UNCHANGED left
       \/ /\ \E p \in People : mail[p] = want[r] /\ name[p] # who[r]
          /\ Goto(r, "failed") /\ UNCHANGED left
       \/ /\ \A p \in People : mail[p] # want[r]
          /\ Clear(r, {who[r]}, "out")
    /\ UNCHANGED <<faults, tables, calls, inputs, row>>

\* Mutant: only the new name's sessions are cleared.
Touched_NewOnly(r) == {want[r]}

\* The names whose sessions a change of user name clears.
Touched(r) == {who[r], want[r]}

\* change_username: 304 for the same name; both names are logged out, also when
\* the new one is in use (409), by the `finally`.
CheckName(r) ==
    /\ pc[r] = "act" /\ op[r] = "username"
    /\ \/ /\ want[r] = who[r]
          /\ Goto(r, "done") /\ UNCHANGED left
       \/ /\ want[r] # who[r]
          /\ Clear(r, Touched(r), IF \E p \in People : name[p] = want[r] THEN "refuse" ELSE "out")
    /\ UNCHANGED <<faults, tables, calls, inputs, row>>

\* The values in the users table that the write of r reads or changes.
Keys(r) == ({who[r], want[r]} \ {NoName})
        \cup (IF row[r] = NoOne THEN {} ELSE {name[row[r]], mail[row[r]]})

\* The person whose row has r's user name, at this moment; and a person who
\* already has the wanted value.
Target(r) == {p \in People : name[p] = who[r]}
Holder(r) == {p \in People : name[p] = want[r] \/ mail[p] = want[r]}

\* Mutant: only the row to be changed is locked, not the unique keys.
Blocked_RowOnly(r) == \E q \in Requests : row[q] # NoOne /\ row[q] \in Target(r)

\* A write of r has to wait: another transaction has changed one of its keys.
Blocked(r) == \E q \in Requests : row[q] # NoOne /\ Keys(q) \cap Keys(r) # {}

\* Mutant: a duplicate is waited for, as if its holder would go away.
Update_Waits(r) ==
    /\ pc[r] = "update" /\ op[r] \in Changes /\ ~InCall(r)
    /\ ~Blocked(r)
    /\ Holder(r) \ Target(r) = {}
    /\ Clear(r, IF op[r] = "username" THEN Touched(r) ELSE {who[r]}, "again")
    /\ \/ \E p \in Target(r) : row' = [row EXCEPT ![r] = p]
       \/ Target(r) = {} /\ UNCHANGED row
    /\ UNCHANGED <<faults, tables, calls, inputs>>

\* UPDATE users: waits for uncommitted changes of the same keys; a duplicate
\* rolls back (409); with no such user it changes nothing.  Then both changes
\* clear the sessions again, the change of user name also on failure.
Update(r) ==
    /\ pc[r] = "update" /\ op[r] \in Changes /\ ~InCall(r)
    /\ ~Blocked(r)
    /\ IF Target(r) # {} /\ Holder(r) \ Target(r) # {}
         THEN /\ IF op[r] = "username" THEN Clear(r, Touched(r), "refuse")
                                       ELSE Goto(r, "failed") /\ UNCHANGED left
              /\ UNCHANGED row
         ELSE /\ Clear(r, IF op[r] = "username" THEN Touched(r) ELSE {who[r]}, "again")
              /\ \/ \E p \in Target(r) : row' = [row EXCEPT ![r] = p]
                 \/ Target(r) = {} /\ UNCHANGED row
    /\ UNCHANGED <<faults, tables, calls, inputs>>

\* PATCH /me, update_personal_info: the row of the user's personal data is made
\* or overwritten; its subquery waits like the UPDATE, and without such a user
\* there is no id to insert.
Upsert(r) ==
    /\ pc[r] = "update" /\ op[r] = "data"
    /\ ~Blocked(r)
    /\ \/ /\ \E p \in Target(r) : row' = [row EXCEPT ![r] = p]
          /\ Goto(r, "commit")
       \/ /\ Target(r) = {}
          /\ Goto(r, "failed") /\ UNCHANGED row
    /\ UNCHANGED <<faults, tables, calls, left, inputs>>

\* Mutant: the new session is for the user of the old one.
StartSession_OldName(r) ==
    /\ pc[r] = "load" /\ ~InCall(r)
    /\ UNCHANGED <<faults, tables, inputs, left, row>>
    /\ Store!StartSession(r, who[r]) /\ Meet(who[r])
    /\ Goto(r, "commit")

\* start_session, once load_session_data has returned.
StartSession(r) ==
    LET n == IF op[r] = "username" THEN want[r] ELSE who[r] IN
    /\ pc[r] = "load" /\ ~InCall(r)
    /\ UNCHANGED <<faults, tables, inputs, left, row>>
    /\ Store!StartSession(r, n) /\ Meet(n)
    /\ Goto(r, "commit")
-----------------------------------------------------------------------------
\* After the response: the transaction ends.
Commit(r) ==
    /\ pc[r] = "commit" /\ ~InCall(r)
    /\ name' = [p \in People |-> IF p = row[r] /\ op[r] = "username" THEN want[r] ELSE name[p]]
    /\ mail' = [p \in People |-> IF p = row[r] /\ op[r] = "email" THEN want[r] ELSE mail[p]]
    /\ row' = [row EXCEPT ![r] = NoOne]
    /\ Goto(r, "done")
    /\ UNCHANGED <<faults, calls, left, inputs>>

CommitFails(r) ==
    /\ "commit" \in faults /\ pc[r] = "commit" /\ ~InCall(r)
    /\ row' = [row EXCEPT ![r] = NoOne]
    /\ Goto(r, "failed")
    /\ UNCHANGED <<faults, tables, calls, left, inputs>>

\* Redis drops a session that was not used for its lifetime.
Expire(t) ==
    /\ UNCHANGED <<faults, tables, pc, inputs, left, row, raced>>
    /\ Store!Expire(t)

Step(r) == \/ LogMeOut(r) \/ LogMeOutAll(r) \/ CheckEmail(r) \/ CheckName(r)
           \/ Update(r) \/ Upsert(r) \/ LogOut(r) \/ StartSession(r) \/ Commit(r)
           \/ Command(r)

Next == \/ \E r \in Requests : \/ \E p \in People : Login(r, p)
                               \/ \E t \in Sessions : Arrive(r, t)
                               \/ Step(r) \/ CommitFails(r)
        \/ \E t \in Sessions : Expire(t)

Spec == Init /\ [][Next]_vars
-----------------------------------------------------------------------------
\* A session is for the person who opened it: its user name is the opener's, or
\* is about to be when the change of user name that started it commits.
SessionsNameTheirUser ==
    faults = {} /\ raced = {} =>
      \A t \in Sessions : session[t] # NoName =>
        \/ session[t] = name[Opener(t)]
        \/ t \in Requests /\ op[t] = "username" /\ session[t] = want[t] /\ row[t] = caller[t]

\* An account and its personal data change only by a request of the person whose
\* account it is, although the request finds them by a name it had on arrival.
ChangesOwnRow ==
    [][faults = {} /\ raced = {} =>
         /\ \A p \in People : name'[p] # name[p] \/ mail'[p] # mail[p] =>
               \E r \in Requests : caller[r] = p /\ Commit(r)
         /\ \A r \in Requests : Commit(r) => row[r] \in {caller[r], NoOne}]_vars

\* When a change is answered 200, every session that its user had when the
\* request arrived is gone.
LoggedOutEverywhere ==
    [][\A r \in Requests : StartSession(r) /\ op[r] \in Changes /\ who[r] \notin raced =>
          \A t \in must[r] : session'[t] = NoName]_vars

\* UPDATEs that wait for each other's rows never all wait: of the requests under
\* way one waits for nobody.
Waits(r) == pc[r] = "update" /\ ~InCall(r) /\ Blocked(r)

NotAllWait == (\E r \in Requests : Under(r)) => \E r \in Requests : Under(r) /\ ~Waits(r)

\* ... and a request that waits for nobody can go on.
Unstuck == NotAllWait /\ \A r \in Requests : Under(r) /\ ~Waits(r) => ENABLED Step(r)

\* "Changes username. If successful (204) the user is logged out of __ALL__
\* sessions." (api/me.py:102): no session of that person is for the old name.
OldNameLoggedOut ==
    [][\A r \in Requests : Commit(r) /\ row[r] # NoOne /\ op[r] = "username" =>
          \A t \in Sessions : Opener(t) = caller[r] => session'[t] \in {want[r], NoName}]_vars

\* The rows of the users table as all see it, with what is committed only.
UserRows == {[username |-> name[p], email |-> mail[p]] : p \in People}

Table == INSTANCE UserTable WITH rows <- UserRows

\* Changes of names and emails, each a check, a write and a commit that interleave
\* with those of others, are changes of one key of one row at a time, to a value
\* that nobody has.
ImplementsUserTable == Table!Spec
=============================================================================
