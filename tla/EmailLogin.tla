------------------------------ MODULE EmailLogin ------------------------------
(***************************************************************************)
(* Logging in by email: POST /auth/email and POST /auth/email/exchange     *)
(* (src/muistot/login), with the users table they share.                   *)
(*                                                                         *)
(* A request is a coroutine of one of the server processes.  What a        *)
(* request does before its first await, the rate limit and the check of a  *)
(* token, is one Redis command after the other: two processes interleave   *)
(* there, while a process that is inside such a stretch lets no other      *)
(* request in.  From then on what a request does between two awaits is one *)
(* step: no other request reads two of the keys that it sets there.        *)
(*                                                                         *)
(* Each request runs in a transaction of its own                           *)
(* (DatabaseProvider.__call__): REPEATABLE READ, so a SELECT sees the      *)
(* table as of the request's first read; INSERT and UPDATE act on the      *)
(* newest rows and wait for a row that another transaction has inserted;   *)
(* the commit comes after the response, and an exception rolls back.       *)
(*                                                                         *)
(* A mailed token is named by the request that created it.                 *)
(***************************************************************************)
EXTENDS Naturals, FiniteSets

CONSTANTS Asks,           \* the requests to /auth/email, each from its own host
          Exchanges,      \* the requests to /auth/email/exchange
          Emails, Names,  \* addresses; user names
          Processes,      \* the server processes there may be (two in the Dockerfile)
          NoEmail, NoName, NoAsk, NoProcess,
          Environments,   \* what may go wrong together: sets of Faults
          MaxAttempts,    \* names that try_create_user asks for (5 in the code)
          MaxFailing      \* the bound on commits that fail

ASSUME NullAssumption == NoEmail \notin Emails /\ NoName \notin Names /\ NoAsk \notin Asks
ASSUME ProcessAssumption == IsFiniteSet(Processes) /\ NoProcess \notin Processes
ASSUME SortsAssumption == Asks \cap Exchanges = {}
ASSUME AttemptsAssumption == MaxAttempts \in Nat \ {0}
ASSUME BoundAssumption == MaxFailing \in Nat

VARIABLES
    owner,     \* the committed users table: owner[n] is the address of user n
    verified,  \* the users whose row is committed as verified
    rate,      \* the rate limit keys of addresses (asks) and names (exchanges)
    timeout,   \* addresses with an `email:timeout` key
    stored,    \* stored[n]: the token stored for user n, or NoAsk
    at,        \* at[r]: the process in which r has not come to its first await yet
    pc,        \* what each request does next
    email,     \* email[a]: the address a request for mail is about
    name,      \* name[r]: the user it found or created; the user to log in
    view,      \* view[a]: the users table as of the first read of a, which creates a user
    attempts,  \* attempts[a]: names asked for so far
    inserted,  \* asks with an uncommitted row (name[a], email[a])
    updated,   \* exchanges with an uncommitted verified = 1 for name[x]
    used,      \* used[x]: the token exchange x was accepted with
    mailed,    \* history: asks whose mail went out
    recent,    \* history: recent[e] mails went to e since its timeout key was last gone
    servers,   \* environment, never changes: the processes that run
    faults     \* environment, never changes: what may go wrong

tables == <<owner, verified>>
keys   == <<rate, timeout, stored>>
locals == <<email, name, view, attempts, used>>
env == <<servers, faults>>
vars == <<owner, verified, rate, timeout, stored, at, pc, email, name, view, attempts,
          inserted, updated, used, mailed, recent, servers, faults>>

Requests == Asks \cup Exchanges
Table == [Names -> Emails \cup {NoEmail}]
\* A request may outlive its rate limit; a commit may fail.
Faults == {"slow", "commit"}
ASSUME EnvironmentsAssumption == Environments \subseteq SUBSET Faults
PCs == {"new", "limit", "fetch", "name", "insert", "check", "mail",
        "token", "clear", "look", "verify", "load", "commit", "done", "failed", "refused"}

TypeOK == /\ owner \in Table /\ verified \in SUBSET Names
          /\ rate \in SUBSET (Emails \cup Names) /\ timeout \in SUBSET Emails
          /\ stored \in [Names -> Asks \cup {NoAsk}]
          /\ at \in [Requests -> Processes \cup {NoProcess}]
          /\ pc \in [Requests -> PCs]
          /\ email \in [Asks -> Emails \cup {NoEmail}]
          /\ name \in [Requests -> Names \cup {NoName}]
          /\ view \in [Asks -> Table]
          /\ attempts \in [Asks -> 0 .. MaxAttempts]
          /\ inserted \in SUBSET Asks /\ updated \in SUBSET Exchanges
          /\ used \in [Exchanges -> Asks \cup {NoAsk}]
          /\ mailed \in SUBSET Asks
          /\ recent \in [Emails -> Nat]
          /\ servers \in SUBSET Processes
          /\ faults \subseteq Faults

\* Any users may exist already; usernames and addresses are unique.
Init == /\ owner \in Table
        /\ \A m, n \in Names : owner[m] = owner[n] /\ owner[m] # NoEmail => m = n
        /\ verified \in SUBSET {n \in Names : owner[n] # NoEmail}
        /\ rate = {} /\ timeout = {}
        /\ stored = [n \in Names |-> NoAsk]
        /\ at = [r \in Requests |-> NoProcess]
        /\ pc = [r \in Requests |-> "new"]
        /\ email = [a \in Asks |-> NoEmail]
        /\ name = [r \in Requests |-> NoName]
        /\ view = [a \in Asks |-> [n \in Names |-> NoEmail]]
        /\ attempts = [a \in Asks |-> 0]
        /\ inserted = {} /\ updated = {}
        /\ used = [x \in Exchanges |-> NoAsk]
        /\ mailed = {}
        /\ recent = [e \in Emails |-> 0]
        /\ servers \in SUBSET Processes \ {{}}
        /\ faults \in Environments

Goto(r, next) == pc' = [pc EXCEPT ![r] = next]
-----------------------------------------------------------------------------
(* ratelimit *)

\* A process with room for request r: it is inside no other's first stretch.
Enter(r, w) == /\ w \in servers /\ \A q \in Requests : at[q] # w
               /\ at' = [at EXCEPT ![r] = w]

Leave(r) == at' = [at EXCEPT ![r] = NoProcess]

\* The key that holds others off: of the address, or of the name.
Limit(r) == IF r \in Asks THEN email[r] ELSE name[r]

\* redis.set, after redis.exists found no key.  A request for mail then comes to
\* its first await; an exchange reads the token first.
LimitRate(r) ==
    /\ pc[r] = "limit"
    /\ rate' = rate \cup {Limit(r)}
    /\ \/ r \in Asks /\ Goto(r, "fetch") /\ Leave(r)
       \/ r \in Exchanges /\ Goto(r, "token") /\ UNCHANGED at
    /\ UNCHANGED <<env, tables, timeout, stored, locals, inserted, updated, mailed, recent>>
-----------------------------------------------------------------------------
(* POST /auth/email *)

\* Mutant: no rate limit.
AskLogin_Unlimited(a, e, w) ==
    /\ pc[a] = "new"
    /\ Enter(a, w)
    /\ email' = [email EXCEPT ![a] = e]
    /\ Goto(a, "limit")
    /\ UNCHANGED <<env, tables, keys, name, view, attempts, inserted, updated, used,
                   mailed, recent>>

\* redis.exists finds no rate limit key (429 otherwise, and nothing changes).
AskLogin(a, e, w) ==
    /\ pc[a] = "new" /\ e \notin rate
    /\ Enter(a, w)
    /\ email' = [email EXCEPT ![a] = e]
    /\ Goto(a, "limit")
    /\ UNCHANGED <<env, tables, keys, name, view, attempts, inserted, updated, used,
                   mailed, recent>>

\* fetch_user_by_email, the first read of the transaction.
FetchUser(a) ==
    /\ pc[a] = "fetch"
    /\ \/ \E n \in Names : /\ owner[n] = email[a]
                           /\ name' = [name EXCEPT ![a] = n]
                           /\ Goto(a, "check")
                           /\ UNCHANGED view
       \/ /\ \A n \in Names : owner[n] # email[a]
          /\ view' = [view EXCEPT ![a] = owner]
          /\ Goto(a, "name")
          /\ UNCHANGED name
    /\ UNCHANGED <<env, at, tables, keys, email, attempts, inserted, updated, used,
                   mailed, recent>>

\* try_create_user: the name generator offers a name, or fails (NoName); a name
\* that the SELECT finds is in use is passed over; after the last one, 503.
OfferName(a) ==
    /\ pc[a] = "name"
    /\ attempts' = [attempts EXCEPT ![a] = @ + 1]
    /\ \E n \in Names \cup {NoName} :
         IF n \in Names /\ view[a][n] = NoEmail
           THEN Goto(a, "insert") /\ name' = [name EXCEPT ![a] = n]
           ELSE /\ Goto(a, IF attempts'[a] = MaxAttempts THEN "failed" ELSE "name")
                /\ UNCHANGED name
    /\ UNCHANGED <<env, at, tables, keys, email, view, inserted, updated, used,
                   mailed, recent>>

\* Mutant: the address is not a unique key.
Clashes_NameOnly(a, n, e) == n = name[a]

\* The unique keys: a row with this name or this address.
Clashes(a, n, e) == n = name[a] \/ e = email[a]

\* The write of r has to wait: another transaction has inserted or changed its row.
Waits(r) == \/ pc[r] = "insert" /\ \E b \in inserted : Clashes(r, name[b], email[b])
            \/ pc[r] = "verify" /\ \E q \in inserted \cup updated : name[q] = name[r]

\* INSERT INTO users: waits for an uncommitted row with the same key, and raises
\* IntegrityError (409, rollback) for a committed one.
InsertUser(a) ==
    /\ pc[a] = "insert" /\ ~Waits(a)
    /\ IF \E n \in Names : owner[n] # NoEmail /\ Clashes(a, n, owner[n])
         THEN Goto(a, "failed") /\ UNCHANGED inserted
         ELSE Goto(a, "check") /\ inserted' = inserted \cup {a}
    /\ UNCHANGED <<env, at, tables, keys, locals, updated, mailed, recent>>

\* Mutant: the 429 is returned, not raised, so the transaction commits.
CheckTimeout_Returns(a) ==
    /\ pc[a] = "check"
    /\ Goto(a, IF email[a] \in timeout THEN "commit" ELSE "mail")
    /\ UNCHANGED <<env, at, tables, keys, locals, inserted, updated, mailed, recent>>

\* Mutant: after the 429 the transaction stays open.
CheckTimeout_KeepsRow(a) ==
    /\ pc[a] = "check"
    /\ Goto(a, IF email[a] \in timeout THEN "failed" ELSE "mail")
    /\ UNCHANGED <<env, at, tables, keys, locals, inserted, updated, mailed, recent>>

\* check_email_timeout; 429 rolls the new user back.
CheckTimeout(a) ==
    /\ pc[a] = "check"
    /\ IF email[a] \in timeout
         THEN Goto(a, "failed") /\ inserted' = inserted \ {a}
         ELSE Goto(a, "mail") /\ UNCHANGED inserted
    /\ UNCHANGED <<env, at, tables, keys, locals, updated, mailed, recent>>

\* After `await is_verified`: send_login_email, then 204.
SendMail(a) ==
    /\ pc[a] = "mail"
    /\ timeout' = timeout \cup {email[a]}
    /\ stored' = [stored EXCEPT ![name[a]] = a]
    /\ mailed' = mailed \cup {a}
    /\ recent' = [recent EXCEPT ![email[a]] = @ + 1]
    /\ Goto(a, "commit")
    /\ UNCHANGED <<env, at, tables, rate, locals, inserted, updated>>
-----------------------------------------------------------------------------
(* POST /auth/email/exchange *)

\* A client presents the token of ask a, from its mail, for the user it names;
\* redis.exists finds no rate limit key.
Exchange(x, a, w) ==
    /\ pc[x] = "new" /\ a \in mailed /\ name[a] \notin rate
    /\ Enter(x, w)
    /\ name' = [name EXCEPT ![x] = name[a]]
    /\ used' = [used EXCEPT ![x] = a]
    /\ Goto(x, "limit")
    /\ UNCHANGED <<env, tables, keys, email, view, attempts, inserted, updated, mailed, recent>>

\* fetch_login_token, and check_token, which awaits nothing: 404 unless the token
\* is the stored one, and also when its uses are spent (LoginToken counts them).
CheckToken(x) ==
    /\ pc[x] = "token"
    /\ \/ stored[name[x]] = used[x] /\ Goto(x, "clear") /\ UNCHANGED at
       \/ Goto(x, "refused") /\ Leave(x)
    /\ UNCHANGED <<env, tables, keys, locals, inserted, updated, mailed, recent>>

\* clear_login_token removes what is stored by now; is_verified is the first await.
ClearToken(x) ==
    /\ pc[x] = "clear"
    /\ stored' = [stored EXCEPT ![name[x]] = NoAsk]
    /\ Goto(x, "look") /\ Leave(x)
    /\ UNCHANGED <<env, tables, rate, timeout, locals, inserted, updated, mailed, recent>>

\* Mutant: `is_verified(...) is False`, so None passes for verified.
LookVerified_NonePasses(x) ==
    /\ pc[x] = "look"
    /\ Goto(x, IF name[x] \in verified \/ owner[name[x]] = NoEmail THEN "load" ELSE "verify")
    /\ UNCHANGED <<env, at, tables, keys, locals, inserted, updated, mailed, recent>>

\* is_verified: None, for a user who is not in the table yet, counts as False.
LookVerified(x) ==
    /\ pc[x] = "look"
    /\ Goto(x, IF name[x] \in verified THEN "load" ELSE "verify")
    /\ UNCHANGED <<env, at, tables, keys, locals, inserted, updated, mailed, recent>>

\* Mutant: verify is not awaited, so it never runs.
VerifyUser_NotAwaited(x) ==
    /\ pc[x] = "verify" /\ ~Waits(x)
    /\ Goto(x, "load")
    /\ UNCHANGED <<env, at, tables, keys, locals, inserted, updated, mailed, recent>>

\* verify, an UPDATE: waits for the row if another transaction has inserted it;
\* without a row it changes nothing.
VerifyUser(x) ==
    /\ pc[x] = "verify" /\ ~Waits(x)
    /\ updated' = IF owner[name[x]] # NoEmail THEN updated \cup {x} ELSE updated
    /\ Goto(x, "load")
    /\ UNCHANGED <<env, at, tables, keys, locals, inserted, mailed, recent>>

\* load_session_data, then the session is in Redis; log_login, then 200.
StartSession(x) ==
    /\ pc[x] = "load"
    /\ Goto(x, "commit")
    /\ UNCHANGED <<env, at, tables, keys, locals, inserted, updated, mailed, recent>>

LoggedIn(x) == x \in Exchanges /\ used[x] # NoAsk /\ pc[x] \in {"commit", "done", "failed"}
-----------------------------------------------------------------------------
\* Mutant: the transaction is rolled back (the `rollback` setting left on).
Commit_RollsBack(r) ==
    /\ pc[r] = "commit"
    /\ inserted' = inserted \ {r} /\ updated' = updated \ {r}
    /\ Goto(r, "done")
    /\ UNCHANGED <<env, at, tables, keys, locals, mailed, recent>>

\* After the response: the transaction of r ends.
Commit(r) ==
    /\ pc[r] = "commit"
    /\ owner' = IF r \in inserted THEN [owner EXCEPT ![name[r]] = email[r]] ELSE owner
    /\ verified' = IF r \in updated THEN verified \cup {name[r]} ELSE verified
    /\ inserted' = inserted \ {r} /\ updated' = updated \ {r}
    /\ Goto(r, "done")
    /\ UNCHANGED <<env, at, rate, timeout, stored, locals, mailed, recent>>

CommitFails(r) ==
    /\ "commit" \in faults /\ pc[r] = "commit"
    /\ Cardinality({q \in mailed \cup Exchanges : pc[q] = "failed"}) < MaxFailing
    /\ inserted' = inserted \ {r} /\ updated' = updated \ {r}
    /\ Goto(r, "failed")
    /\ UNCHANGED <<env, at, tables, keys, locals, mailed, recent>>

\* Redis drops keys whose time has run out: 6 s for a rate limit, 60 s for the
\* timeout of an address, 5 min for a token.
ExpireRate(k) ==
    /\ k \in rate
    /\ "slow" \notin faults =>
         \A a \in Asks : email[a] = k => pc[a] \in {"commit", "done", "failed"}
    /\ rate' = rate \ {k}
    /\ UNCHANGED <<env, at, tables, timeout, stored, pc, locals, inserted, updated, mailed, recent>>

ExpireTimeout(e) ==
    /\ e \in timeout
    /\ timeout' = timeout \ {e}
    /\ recent' = [recent EXCEPT ![e] = 0]
    /\ UNCHANGED <<env, at, tables, rate, stored, pc, locals, inserted, updated, mailed>>

ExpireToken(n) ==
    /\ stored[n] # NoAsk
    /\ stored' = [stored EXCEPT ![n] = NoAsk]
    /\ UNCHANGED <<env, at, tables, rate, timeout, pc, locals, inserted, updated, mailed, recent>>

StepAsk(a) == \/ LimitRate(a) \/ FetchUser(a) \/ OfferName(a) \/ InsertUser(a)
              \/ CheckTimeout(a) \/ SendMail(a) \/ Commit(a)

StepExchange(x) == \/ LimitRate(x) \/ CheckToken(x) \/ ClearToken(x)
                   \/ LookVerified(x) \/ VerifyUser(x) \/ StartSession(x) \/ Commit(x)

Next == \/ \E a \in Asks : StepAsk(a) \/ \E e \in Emails, w \in Processes : AskLogin(a, e, w)
        \/ \E x \in Exchanges :
              StepExchange(x) \/ \E a \in Asks, w \in Processes : Exchange(x, a, w)
        \/ \E r \in Requests : CommitFails(r)
        \/ \E k \in Emails \cup Names : ExpireRate(k)
        \/ \E e \in Emails : ExpireTimeout(e)
        \/ \E n \in Names : ExpireToken(n)

Spec == Init /\ [][Next]_vars

-----------------------------------------------------------------------------
\* Within a timeout (60 s) an address gets as many mails as there are server
\* processes at most (one, if one process serves), although the rate limit's test
\* and its key are two commands, and the check of the timeout and its start are on
\* two sides of an await.
MailsPerTimeout ==
    "slow" \notin faults => \A e \in Emails : recent[e] <= Cardinality(servers)

\* A user is created only together with a mail to its address: a request that
\* fails on the way (503, 409, 429) leaves no user behind.
CreatedUsersAreMailed ==
    [][\A n \in Names : owner[n] = NoEmail /\ owner'[n] # NoEmail =>
          \E a \in mailed : name[a] = n /\ email[a] = owner'[n]]_vars

\* A session is for a user who exists, at the address the token was mailed to.
SessionIsAddressees ==
    "commit" \notin faults =>
      \A x \in Exchanges : LoggedIn(x) => owner[name[x]] = email[used[x]]

\* When the login is over, its user is verified.
LoggedInIsVerified ==
    "commit" \notin faults =>
      \A x \in Exchanges : LoggedIn(x) /\ pc[x] = "done" => name[x] \in verified

Under(r) == pc[r] \notin {"new", "done", "failed", "refused"}

\* Requests that wait for each other's rows never all wait: of those under way one
\* waits for nobody.
NotAllWait == (\E r \in Requests : Under(r)) => \E r \in Requests : Under(r) /\ ~Waits(r)

\* ... and a request that waits for nobody can go on.
Unstuck == /\ NotAllWait
           /\ \A a \in Asks : Under(a) /\ ~Waits(a) => ENABLED StepAsk(a)
           /\ \A x \in Exchanges : Under(x) /\ ~Waits(x) => ENABLED StepExchange(x)

\* The user a mail spoke of exists when the request is over, with the address it
\* went to.
MailedUserExists ==
    "commit" \notin faults =>
      \A a \in mailed : pc[a] = "done" => owner[name[a]] = email[a]

\* The rows of the users table as all see it, with what is committed only.
UserRows == {[username |-> n, email |-> owner[n]] : n \in {m \in Names : owner[m] # NoEmail}}

Users == INSTANCE UserTable WITH rows <- UserRows

\* Users are created one at a time, each with a name and an address that nobody
\* has, although every request looks at the table as it was when it began.
ImplementsUserTable == Users!Spec
=============================================================================
