--------------------------- MODULE EmailLoginProofs ---------------------------
(***************************************************************************)
(* Theorems about EmailLogin, for every set of requests, addresses and     *)
(* user names and every number of attempts: the types, that users come     *)
(* with a mail, that mailed users exist and that who logs in is verified   *)
(* (while commits succeed), that an address gets one mail per timeout and  *)
(* server process at most (while requests are quicker than the rate limit) *)
(* and one user, that what is committed is a table of users, and that      *)
(* requests come to their end.                                             *)
(***************************************************************************)
EXTENDS EmailLogin, Integers, FiniteSetTheorems, TLAPS

\* The program counters of a request for mail before its mail goes out.
Asking == {"limit", "fetch", "name", "insert", "check", "mail"}

\* What the program counter of a request for mail says of the rest.
AskOK(a) ==
    /\ pc[a] \in Asking \cup {"new", "commit", "done", "failed"}
    /\ pc[a] # "new" => email[a] \in Emails
    /\ pc[a] \in {"insert", "check", "mail"} => name[a] \in Names
    /\ a \in mailed => pc[a] \in {"commit", "done", "failed"} /\ name[a] \in Names
    /\ pc[a] \in {"commit", "done"} => a \in mailed
    /\ a \in inserted => pc[a] \in {"check", "mail", "commit"}
    /\ pc[a] \in {"new", "limit", "fetch"} => attempts[a] = 0
    /\ pc[a] = "limit" => at[a] \in servers
    /\ pc[a] = "name" => attempts[a] < MaxAttempts

\* The same of an exchange: it acts for the user that its token's mail named.
ExchangeOK(x) ==
    /\ pc[x] \in {"new", "limit", "token", "clear", "look", "verify", "load", "commit",
                   "done", "failed", "refused"}
    /\ pc[x] = "new" => used[x] = NoAsk
    /\ pc[x] # "new" => used[x] \in mailed /\ name[x] = name[used[x]]
    /\ x \in updated => pc[x] \in {"load", "commit"} /\ owner[name[x]] # NoEmail

Inv == /\ TypeOK
       /\ \A a \in Asks : AskOK(a)
       /\ \A x \in Exchanges : ExchangeOK(x)

\* Rows not yet committed clash with no other row, and only users are verified.
Rows ==
    /\ \A a \in inserted : \A n \in Names : owner[n] # NoEmail => ~Clashes(a, n, owner[n])
    /\ \A a, b \in inserted : a # b => ~Clashes(a, name[b], email[b])
    /\ \A n \in verified : owner[n] # NoEmail

\* While commits succeed: the user of a mail is in the table or will be, and so
\* is the verification of who logged in.
KeptOK ==
    /\ \A a \in Asks :
          /\ pc[a] \in {"check", "mail", "commit"} => owner[name[a]] = email[a] \/ a \in inserted
          /\ pc[a] = "done" => owner[name[a]] = email[a]
          /\ a \in mailed => pc[a] # "failed"
    /\ \A x \in Exchanges :
          /\ pc[x] # "failed"
          /\ pc[x] \in {"load", "commit", "done"} => owner[name[x]] = email[used[x]]
          /\ pc[x] \in {"load", "commit"} => name[x] \in verified \/ x \in updated
          /\ pc[x] = "done" => name[x] \in verified

Kept == "commit" \notin faults => KeptOK

\* The requests for mail about e that have passed the rate limit, and of those the
\* ones that have also passed the check of the timeout.
Going(e) == {a \in Asks : pc[a] \in Asking /\ email[a] = e}
Mailing(e) == {a \in Asks : pc[a] = "mail" /\ email[a] = e}

\* A process is inside the first stretch of one request.
Apart == \A q, r \in Requests : at[q] = at[r] /\ at[q] # NoProcess => q = r

\* While requests are quicker than the rate limit: no more of them go on for an
\* address than there are processes, since they all found no key, and who mails
\* after the timeout has started had passed its check before.
SpacedOK ==
    /\ \A a \in Asks : pc[a] \in Asking \ {"limit"} => email[a] \in rate
    /\ \A e \in Emails :
          /\ IsFiniteSet(Going(e)) /\ Cardinality(Going(e)) <= Cardinality(servers)
          /\ e \notin timeout => recent[e] = 0
          /\ e \in timeout => recent[e] + Cardinality(Mailing(e)) <= Cardinality(servers)

Spaced == "slow" \notin faults => SpacedOK
-----------------------------------------------------------------------------
LEMMA Sorts ==
    /\ NoEmail \notin Emails /\ NoName \notin Names /\ NoAsk \notin Asks
    /\ Asks \cap Exchanges = {} /\ MaxAttempts \in Nat /\ MaxAttempts > 0
  BY NullAssumption, SortsAssumption, AttemptsAssumption
     DEF NullAssumption, SortsAssumption, AttemptsAssumption

LEMMA InvInit == Init => Inv
  <1> SUFFICES ASSUME Init PROVE Inv
    OBVIOUS
  <1> USE Sorts
  <1>1. TypeOK
    BY EnvironmentsAssumption DEF EnvironmentsAssumption, Init, TypeOK, PCs, Table, Requests
  <1>2. \A a \in Asks : AskOK(a)
    BY DEF Init, AskOK, Asking, Requests
  <1>3. \A x \in Exchanges : ExchangeOK(x)
    BY DEF Init, ExchangeOK, Requests
  <1>4. QED
    BY <1>1, <1>2, <1>3 DEF Inv
-----------------------------------------------------------------------------
(* Types, and what a program counter says *)

LEMMA InvStep == Inv /\ [Next]_vars => Inv'
  <1> SUFFICES ASSUME Inv, [Next]_vars PROVE Inv'
    OBVIOUS
  <1> USE Sorts DEF Asking, Requests, env
  <1>t. /\ TypeOK
        /\ \A a \in Asks : AskOK(a) /\ a \notin Exchanges
        /\ \A x \in Exchanges : ExchangeOK(x) /\ x \notin Asks
    BY DEF Inv
  <1>1. ASSUME NEW a \in Asks, NEW e \in Emails, NEW w \in Processes, AskLogin(a, e, w) PROVE Inv'
    <2>1. TypeOK'
      BY <1>t, <1>1 DEF AskLogin, Enter, Goto, tables, keys, locals, TypeOK, PCs, Table, AskOK, ExchangeOK
    <2>2. \A b \in Asks : AskOK(b)'
      BY <1>t, <1>1 DEF AskLogin, Enter, Goto, tables, keys, locals, TypeOK, AskOK
    <2>3. \A y \in Exchanges : ExchangeOK(y)'
      BY <1>t, <1>1 DEF AskLogin, Enter, Goto, tables, keys, locals, TypeOK, AskOK, ExchangeOK
    <2>4. QED
      BY <2>1, <2>2, <2>3 DEF Inv
  <1>2. ASSUME NEW a \in Asks, FetchUser(a) PROVE Inv'
    <2>1. TypeOK'
      BY <1>t, <1>2 DEF FetchUser, Goto, tables, keys, TypeOK, PCs
    <2>2. \A b \in Asks : AskOK(b)'
      BY <1>t, <1>2 DEF FetchUser, Goto, tables, keys, locals, TypeOK, AskOK
    <2>3. \A y \in Exchanges : ExchangeOK(y)'
      BY <1>t, <1>2 DEF FetchUser, Goto, tables, keys, locals, TypeOK, AskOK, ExchangeOK
    <2>4. QED
      BY <2>1, <2>2, <2>3 DEF Inv
  <1>3. ASSUME NEW a \in Asks, OfferName(a) PROVE Inv'
    <2>1. TypeOK'
      <3>1. attempts[a] + 1 \in 0 .. MaxAttempts
        BY <1>t, <1>3 DEF OfferName, TypeOK, AskOK
      <3>2. PICK next \in {"insert", "failed", "name"} : pc' = [pc EXCEPT ![a] = next]
        BY <1>3 DEF OfferName, Goto
      <3>3. name' \in [Requests -> Names \cup {NoName}]
        BY <1>t, <1>3 DEF OfferName, TypeOK
      <3>4. QED
        BY <1>t, <1>3, <3>1, <3>2, <3>3 DEF OfferName, tables, keys, TypeOK, PCs
    <2>2. \A b \in Asks : AskOK(b)'
      BY <1>t, <1>3 DEF OfferName, Goto, tables, keys, locals, TypeOK, AskOK
    <2>3. \A y \in Exchanges : ExchangeOK(y)'
      BY <1>t, <1>3 DEF OfferName, Goto, tables, keys, locals, TypeOK, AskOK, ExchangeOK
    <2>4. QED
      BY <2>1, <2>2, <2>3 DEF Inv
  <1>4. ASSUME NEW a \in Asks, InsertUser(a) PROVE Inv'
    <2>i. PICK next \in {"failed", "check"} :
            /\ pc[a] = "insert" /\ pc' = [pc EXCEPT ![a] = next]
            /\ inserted' = IF next = "check" THEN inserted \cup {a} ELSE inserted
            /\ UNCHANGED <<env, at, tables, keys, locals, updated, mailed, recent>>
      BY <1>4 DEF InsertUser, Goto
    <2>1. TypeOK'
      BY <1>t, <2>i DEF tables, keys, locals, TypeOK, PCs
    <2>2. \A b \in Asks : AskOK(b)'
      BY <1>t, <2>i DEF locals, TypeOK, AskOK
    <2>3. \A y \in Exchanges : ExchangeOK(y)'
      BY <1>t, <1>4 DEF InsertUser, Goto, tables, keys, locals, TypeOK, AskOK, ExchangeOK
    <2>4. QED
      BY <2>1, <2>2, <2>3 DEF Inv
  <1>5. ASSUME NEW a \in Asks, CheckTimeout(a) PROVE Inv'
    <2>i. /\ \E next \in {"failed", "mail"} : pc' = [pc EXCEPT ![a] = next]
          /\ inserted' \in SUBSET inserted
          /\ UNCHANGED <<env, at, tables, keys, locals, updated, mailed, recent>>
      BY <1>5 DEF CheckTimeout, Goto
    <2>1. TypeOK'
      BY <1>t, <2>i DEF tables, keys, locals, TypeOK, PCs
    <2>2. \A b \in Asks : AskOK(b)'
      BY <1>t, <1>5 DEF CheckTimeout, Goto, tables, keys, locals, TypeOK, AskOK
    <2>3. \A y \in Exchanges : ExchangeOK(y)'
      BY <1>t, <1>5 DEF CheckTimeout, Goto, tables, keys, locals, TypeOK, AskOK, ExchangeOK
    <2>4. QED
      BY <2>1, <2>2, <2>3 DEF Inv
  <1>6. ASSUME NEW a \in Asks, SendMail(a) PROVE Inv'
    <2>1. TypeOK'
      BY <1>t, <1>6 DEF SendMail, Goto, tables, keys, locals, TypeOK, PCs, Table, AskOK, ExchangeOK
    <2>2. \A b \in Asks : AskOK(b)'
      BY <1>t, <1>6 DEF SendMail, Goto, tables, keys, locals, TypeOK, AskOK
    <2>3. \A y \in Exchanges : ExchangeOK(y)'
      BY <1>t, <1>6 DEF SendMail, Goto, tables, keys, locals, TypeOK, AskOK, ExchangeOK
    <2>4. QED
      BY <2>1, <2>2, <2>3 DEF Inv
  <1>7. ASSUME NEW x \in Exchanges, NEW a \in Asks, NEW w \in Processes, Exchange(x, a, w) PROVE Inv'
    <2>1. TypeOK'
      BY <1>t, <1>7 DEF Exchange, Enter, Goto, tables, keys, locals, TypeOK, PCs, Table, AskOK, ExchangeOK
    <2>2. \A b \in Asks : AskOK(b)'
      BY <1>t, <1>7 DEF Exchange, Enter, Goto, tables, keys, locals, TypeOK, AskOK
    <2>3. \A y \in Exchanges : ExchangeOK(y)'
      BY <1>t, <1>7 DEF Exchange, Enter, Goto, tables, keys, locals, TypeOK, AskOK, ExchangeOK
    <2>4. QED
      BY <2>1, <2>2, <2>3 DEF Inv
  <1>8. ASSUME NEW r \in Requests, LimitRate(r) PROVE Inv'
    <2>i. /\ \E next \in {"fetch", "token"} : pc' = [pc EXCEPT ![r] = next]
          /\ at' = at \/ at' = [at EXCEPT ![r] = NoProcess]
          /\ \E k \in Emails \cup Names : rate' = rate \cup {k}
          /\ UNCHANGED <<env, tables, timeout, stored, locals, inserted, updated, mailed, recent>>
      <3>1. r \in Exchanges => used[r] \in mailed /\ used[r] \in Asks /\ name[r] = name[used[r]]
        BY <1>t, <1>8 DEF LimitRate, TypeOK, ExchangeOK
      <3>2. Limit(r) \in Emails \cup Names
        BY <1>t, <1>8, <3>1 DEF LimitRate, Limit, AskOK
      <3>3. QED
        BY <1>8, <3>2 DEF LimitRate, Leave, Goto
    <2>1. TypeOK'
      BY <1>t, <2>i DEF tables, locals, TypeOK, PCs
    <2>2. \A b \in Asks : AskOK(b)'
      BY <1>t, <1>8 DEF LimitRate, Limit, Leave, Goto, tables, keys, locals, TypeOK, AskOK
    <2>3. \A y \in Exchanges : ExchangeOK(y)'
      BY <1>t, <1>8 DEF LimitRate, Limit, Leave, Goto, tables, keys, locals, TypeOK, AskOK, ExchangeOK
    <2>4. QED
      BY <2>1, <2>2, <2>3 DEF Inv
  <1>9. ASSUME NEW x \in Exchanges, CheckToken(x) PROVE Inv'
    <2>i. /\ \E next \in {"clear", "refused"} : pc' = [pc EXCEPT ![x] = next]
          /\ at' = at \/ at' = [at EXCEPT ![x] = NoProcess]
          /\ UNCHANGED <<env, tables, keys, locals, inserted, updated, mailed, recent>>
      BY <1>9 DEF CheckToken, Leave, Goto
    <2>1. TypeOK'
      BY <1>t, <2>i DEF tables, keys, locals, TypeOK, PCs
    <2>2. \A b \in Asks : AskOK(b)'
      BY <1>t, <1>9 DEF CheckToken, Leave, Goto, tables, keys, locals, TypeOK, AskOK
    <2>3. \A y \in Exchanges : ExchangeOK(y)'
      BY <1>t, <1>9 DEF CheckToken, Leave, Goto, tables, keys, locals, TypeOK, AskOK, ExchangeOK
    <2>4. QED
      BY <2>1, <2>2, <2>3 DEF Inv
  <1>10. ASSUME NEW x \in Exchanges, ClearToken(x) PROVE Inv'
    <2>1. TypeOK'
      BY <1>t, <1>10 DEF ClearToken, Leave, Goto, tables, keys, locals, TypeOK, PCs, Table, AskOK, ExchangeOK
    <2>2. \A b \in Asks : AskOK(b)'
      BY <1>t, <1>10 DEF ClearToken, Leave, Goto, tables, keys, locals, TypeOK, AskOK
    <2>3. \A y \in Exchanges : ExchangeOK(y)'
      BY <1>t, <1>10 DEF ClearToken, Leave, Goto, tables, keys, locals, TypeOK, AskOK, ExchangeOK
    <2>4. QED
      BY <2>1, <2>2, <2>3 DEF Inv
  <1>11. ASSUME NEW x \in Exchanges, LookVerified(x) PROVE Inv'
    <2>1. TypeOK'
      BY <1>t, <1>11 DEF LookVerified, Goto, tables, keys, locals, TypeOK, PCs, Table, AskOK, ExchangeOK
    <2>2. \A b \in Asks : AskOK(b)'
      BY <1>t, <1>11 DEF LookVerified, Goto, tables, keys, locals, TypeOK, AskOK
    <2>3. \A y \in Exchanges : ExchangeOK(y)'
      BY <1>t, <1>11 DEF LookVerified, Goto, tables, keys, locals, TypeOK, AskOK, ExchangeOK
    <2>4. QED
      BY <2>1, <2>2, <2>3 DEF Inv
  <1>12. ASSUME NEW x \in Exchanges, VerifyUser(x) PROVE Inv'
    <2>1. TypeOK'
      BY <1>t, <1>12 DEF VerifyUser, Goto, tables, keys, locals, TypeOK, PCs, Table, AskOK, ExchangeOK
    <2>2. \A b \in Asks : AskOK(b)'
      BY <1>t, <1>12 DEF VerifyUser, Goto, tables, keys, locals, TypeOK, AskOK
    <2>3. \A y \in Exchanges : ExchangeOK(y)'
      BY <1>t, <1>12 DEF VerifyUser, Goto, tables, keys, locals, TypeOK, AskOK, ExchangeOK
    <2>4. QED
      BY <2>1, <2>2, <2>3 DEF Inv
  <1>13. ASSUME NEW x \in Exchanges, StartSession(x) PROVE Inv'
    <2>1. TypeOK'
      BY <1>t, <1>13 DEF StartSession, Goto, tables, keys, locals, TypeOK, PCs, Table, AskOK, ExchangeOK
    <2>2. \A b \in Asks : AskOK(b)'
      BY <1>t, <1>13 DEF StartSession, Goto, tables, keys, locals, TypeOK, AskOK
    <2>3. \A y \in Exchanges : ExchangeOK(y)'
      BY <1>t, <1>13 DEF StartSession, Goto, tables, keys, locals, TypeOK, AskOK, ExchangeOK
    <2>4. QED
      BY <2>1, <2>2, <2>3 DEF Inv
  <1>14. ASSUME NEW r \in Requests, Commit(r) PROVE Inv'
    <2>1. TypeOK'
      BY <1>t, <1>14 DEF Commit, Goto, tables, keys, locals, TypeOK, PCs, Table, AskOK, ExchangeOK
    <2>2. \A b \in Asks : AskOK(b)'
      BY <1>t, <1>14 DEF Commit, Goto, tables, keys, locals, TypeOK, AskOK
    <2>3. \A y \in Exchanges : ExchangeOK(y)'
      BY <1>t, <1>14 DEF Commit, Goto, tables, keys, locals, TypeOK, AskOK, ExchangeOK
    <2>4. QED
      BY <2>1, <2>2, <2>3 DEF Inv
  <1>15. ASSUME NEW r \in Requests, CommitFails(r) PROVE Inv'
    <2>1. TypeOK'
      BY <1>t, <1>15 DEF CommitFails, Goto, tables, keys, locals, TypeOK, PCs, Table, AskOK, ExchangeOK
    <2>2. \A b \in Asks : AskOK(b)'
      BY <1>t, <1>15 DEF CommitFails, Goto, tables, keys, locals, TypeOK, AskOK
    <2>3. \A y \in Exchanges : ExchangeOK(y)'
      BY <1>t, <1>15 DEF CommitFails, Goto, tables, keys, locals, TypeOK, AskOK, ExchangeOK
    <2>4. QED
      BY <2>1, <2>2, <2>3 DEF Inv
  <1>16. ASSUME (\E k \in Emails \cup Names : ExpireRate(k)) \/ (\E e \in Emails : ExpireTimeout(e))
                  \/ (\E n \in Names : ExpireToken(n))
         PROVE  Inv'
    BY <1>t, <1>16 DEF ExpireRate, ExpireTimeout, ExpireToken, tables, locals, Inv, TypeOK,
       AskOK, ExchangeOK
  <1>17. CASE UNCHANGED vars
    BY <1>t, <1>17 DEF vars, Inv, TypeOK, Table, AskOK, ExchangeOK, Clashes
  <1>18. QED
    BY <1>1, <1>2, <1>3, <1>4, <1>5, <1>6, <1>7, <1>8, <1>9, <1>10, <1>11, <1>12, <1>13, <1>14,
       <1>15, <1>16, <1>17 DEF Next, StepAsk, StepExchange

LEMMA InvAlways == Spec => []Inv
  BY InvInit, InvStep, PTL DEF Spec

\* The tables, keys and requests keep their types: no request asks for more than
\* MaxAttempts names, and none stores a user without a name or an address.
THEOREM EmailLoginTypeCorrect == Spec => []TypeOK
  <1>1. Inv => TypeOK
    BY DEF Inv
  <1>2. QED
    BY <1>1, InvAlways, PTL
-----------------------------------------------------------------------------
(* Users come with a mail *)

\* A user appears only together with a mail to its address, also when requests
\* fail at any point and commits fail.
THEOREM CreatedUsersAlwaysMailed == Spec => CreatedUsersAreMailed
  <1> DEFINE A == \A n \in Names : owner[n] = NoEmail /\ owner'[n] # NoEmail =>
                     \E a \in mailed : name[a] = n /\ email[a] = owner'[n]
  <1>1. ASSUME Inv, [Next]_vars PROVE A
    <2> SUFFICES ASSUME NEW n \in Names, owner'[n] # owner[n]
                 PROVE  \E a \in mailed : name[a] = n /\ email[a] = owner'[n]
      OBVIOUS
    <2>1. ASSUME NEW r \in Requests, Commit(r) PROVE \E a \in mailed : name[a] = n /\ email[a] = owner'[n]
      <3>1. r \in inserted /\ n = name[r] /\ owner'[n] = email[r]
        BY <1>1, <2>1 DEF Commit, Inv, TypeOK, Table
      <3>2. r \in mailed
        BY <1>1, <2>1, <3>1 DEF Commit, Inv, TypeOK, AskOK
      <3>3. QED
        BY <3>1, <3>2
    <2>2. ASSUME NEW a \in Asks, (\E e \in Emails, w \in Processes : AskLogin(a, e, w))
                   \/ (StepAsk(a) /\ ~Commit(a))
          PROVE  UNCHANGED owner
      BY <2>2 DEF StepAsk, AskLogin, LimitRate, FetchUser, OfferName, InsertUser, CheckTimeout,
         SendMail, tables
    <2>3. ASSUME NEW x \in Exchanges,
                 (\E a \in Asks, w \in Processes : Exchange(x, a, w))
                   \/ (StepExchange(x) /\ ~Commit(x))
          PROVE  UNCHANGED owner
      BY <2>3 DEF StepExchange, Exchange, LimitRate, CheckToken, ClearToken, LookVerified, VerifyUser,
         StartSession, tables
    <2>4. ASSUME \/ \E r \in Requests : CommitFails(r)
                 \/ \E k \in Emails \cup Names : ExpireRate(k)
                 \/ \E e \in Emails : ExpireTimeout(e)
                 \/ \E m \in Names : ExpireToken(m)
                 \/ UNCHANGED vars
          PROVE  UNCHANGED owner
      BY <2>4 DEF CommitFails, ExpireRate, ExpireTimeout, ExpireToken, tables, vars
    <2>5. QED
      BY <1>1, <2>1, <2>2, <2>3, <2>4 DEF Next, Requests
  <1>2. QED
    BY <1>1, InvAlways, PTL DEF Spec, CreatedUsersAreMailed
-----------------------------------------------------------------------------
(* Rows of the users table *)

LEMMA RowsInit == Init => Rows
  BY DEF Init, Rows

\* A commit adds the row of its request and changes no other.
LEMMA Commits ==
    ASSUME Inv, Rows, NEW r \in Requests, Commit(r)
    PROVE  /\ \A n \in Names : owner[n] # NoEmail => owner'[n] = owner[n]
           /\ \A n \in Names : owner'[n] # owner[n] =>
                 r \in inserted /\ r \in Asks /\ n = name[r] /\ owner'[n] = email[r]
           /\ r \in inserted => r \in Asks /\ owner'[name[r]] = email[r] /\ email[r] # NoEmail
           /\ r \in updated => r \in Exchanges
           /\ verified' = IF r \in updated THEN verified \cup {name[r]} ELSE verified
           /\ inserted' = inserted \ {r} /\ updated' = updated \ {r}
           /\ pc[r] = "commit" /\ pc' = [pc EXCEPT ![r] = "done"]
           /\ UNCHANGED <<env, at, rate, timeout, stored, email, name, used, mailed, recent>>
  <1>t. TypeOK /\ \A a \in Asks : AskOK(a)
    BY DEF Inv
  <1>1. r \in inserted => r \in Asks /\ name[r] \in Names /\ email[r] \in Emails /\ owner[name[r]] = NoEmail
    BY <1>t DEF TypeOK, AskOK, Rows, Clashes, Commit
  <1>2. r \in inserted => owner' = [owner EXCEPT ![name[r]] = email[r]]
    BY DEF Commit
  <1>3. r \notin inserted => owner' = owner
    BY DEF Commit
  <1>4. owner \in [Names -> Emails \cup {NoEmail}]
    BY <1>t DEF TypeOK, Table
  <1>5. /\ r \in updated => r \in Exchanges
        /\ verified' = IF r \in updated THEN verified \cup {name[r]} ELSE verified
        /\ inserted' = inserted \ {r} /\ updated' = updated \ {r}
        /\ pc[r] = "commit" /\ pc' = [pc EXCEPT ![r] = "done"]
        /\ UNCHANGED <<env, at, rate, timeout, stored, email, name, used, mailed, recent>>
    BY <1>t DEF Commit, Goto, TypeOK, locals
  <1>6. QED
    BY <1>1, <1>2, <1>3, <1>4, <1>5, Sorts

LEMMA RowsStep == Inv /\ Rows /\ [Next]_vars => Rows'
  <1> SUFFICES ASSUME Inv, Rows, [Next]_vars PROVE Rows'
    OBVIOUS
  <1> USE Sorts DEF Asking, Requests, env
  <1>t. /\ TypeOK
        /\ \A a \in Asks : AskOK(a) /\ a \notin Exchanges
        /\ \A x \in Exchanges : ExchangeOK(x) /\ x \notin Asks
    BY DEF Inv
  <1>1. ASSUME UNCHANGED <<owner, verified>>, inserted' \subseteq inserted,
               \A a \in inserted : name'[a] = name[a] /\ email'[a] = email[a]
        PROVE  Rows'
    BY <1>1 DEF Rows, Clashes
  <1>2. ASSUME NEW a \in Asks, NEW e \in Emails, NEW w \in Processes, AskLogin(a, e, w) PROVE Rows'
    BY <1>t, <1>1, <1>2 DEF AskLogin, tables, TypeOK, AskOK
  <1>3. ASSUME NEW r \in Requests, LimitRate(r) PROVE Rows'
    BY <1>1, <1>3 DEF LimitRate, tables, locals
  <1>4. ASSUME NEW x \in Exchanges, CheckToken(x) \/ ClearToken(x) PROVE Rows'
    BY <1>1, <1>4 DEF CheckToken, ClearToken, tables, locals
  <1>5. ASSUME NEW a \in Asks, FetchUser(a) \/ OfferName(a) PROVE Rows'
    BY <1>t, <1>1, <1>5 DEF FetchUser, OfferName, tables, TypeOK, AskOK
  <1>6. ASSUME NEW a \in Asks, InsertUser(a) PROVE Rows'
    BY <1>t, <1>6 DEF InsertUser, Waits, tables, locals, TypeOK, AskOK, Rows, Clashes
  <1>7. ASSUME NEW a \in Asks, CheckTimeout(a) \/ SendMail(a) PROVE Rows'
    BY <1>1, <1>7 DEF CheckTimeout, SendMail, tables, locals
  <1>8. ASSUME NEW x \in Exchanges, \E a \in Asks, w \in Processes : Exchange(x, a, w) PROVE Rows'
    BY <1>t, <1>1, <1>8 DEF Exchange, tables, TypeOK
  <1>9. ASSUME NEW x \in Exchanges, LookVerified(x) \/ VerifyUser(x) \/ StartSession(x) PROVE Rows'
    BY <1>1, <1>9 DEF LookVerified, VerifyUser, StartSession, tables, locals
  <1>10. ASSUME NEW r \in Requests, Commit(r) PROVE Rows'
    <2>1. \A a \in inserted' : a \in inserted /\ a # r /\ a \in Asks
      BY <1>t, <1>10 DEF Commit, TypeOK
    <2>2. \A a \in inserted' : \A n \in Names : owner'[n] # NoEmail => ~Clashes(a, n, owner'[n])
      <3>1. ASSUME NEW a \in inserted', NEW n \in Names, owner'[n] # NoEmail
            PROVE  ~Clashes(a, n, owner'[n])
        <4>1. CASE owner'[n] = owner[n]
          BY <2>1, <3>1, <4>1 DEF Rows
        <4>2. CASE owner'[n] # owner[n]
          <5>1. r \in inserted /\ n = name[r] /\ owner'[n] = email[r]
            BY <1>10, <3>1, <4>2, Commits
          <5>2. QED
            BY <2>1, <3>1, <5>1 DEF Rows
        <4>3. QED
          BY <4>1, <4>2
      <3>2. QED
        BY <3>1
    <2>3. \A n \in verified' : owner'[n] # NoEmail
      BY <1>t, <1>10, Commits DEF Rows, TypeOK, ExchangeOK, AskOK
    <2>4. QED
      BY <1>10, <2>1, <2>2, <2>3, Commits DEF Rows, Clashes
  <1>11. ASSUME NEW r \in Requests, CommitFails(r) PROVE Rows'
    BY <1>1, <1>11 DEF CommitFails, tables, locals
  <1>12. ASSUME (\E k \in Emails \cup Names : ExpireRate(k)) \/ (\E e \in Emails : ExpireTimeout(e))
                  \/ (\E n \in Names : ExpireToken(n))
         PROVE  Rows'
    BY <1>1, <1>12 DEF ExpireRate, ExpireTimeout, ExpireToken, tables, locals
  <1>13. CASE UNCHANGED vars
    BY <1>1, <1>13 DEF vars
  <1>14. QED
    BY <1>2, <1>5, <1>6, <1>7, <1>8, <1>9, <1>10, <1>11, <1>12, <1>13,
       <1>3, <1>4 DEF Next, StepAsk, StepExchange

LEMMA RowsAlways == Spec => []Rows
  BY InvAlways, RowsInit, RowsStep, PTL DEF Spec
-----------------------------------------------------------------------------
(* Users of an address, and requests that end *)

\* An address has at most one user.
OneUserPerAddress ==
    \A m, n \in Names : owner[m] = owner[n] /\ owner[m] # NoEmail => m = n

\* Only a commit changes the users table.
LEMMA OnlyCommits == [Next]_vars => UNCHANGED tables \/ \E r \in Requests : Commit(r)
  BY DEF Next, StepAsk, StepExchange, AskLogin, LimitRate, FetchUser, OfferName, InsertUser, CheckTimeout,
     SendMail, Exchange, CheckToken, ClearToken, LookVerified, VerifyUser, StartSession, CommitFails,
     ExpireRate, ExpireTimeout, ExpireToken, vars, tables, Requests

\* However many first logins for an address overlap, each with a name of its own,
\* the table gets one user for it.
THEOREM AlwaysOneUserPerAddress == Spec => []OneUserPerAddress
  <1>1. Init => OneUserPerAddress
    BY DEF Init, OneUserPerAddress
  <1>2. Inv /\ Rows /\ OneUserPerAddress /\ [Next]_vars => OneUserPerAddress'
    <2> SUFFICES ASSUME Inv, Rows, OneUserPerAddress, [Next]_vars PROVE OneUserPerAddress'
      OBVIOUS
    <2>1. CASE UNCHANGED tables
      BY <2>1 DEF tables, OneUserPerAddress
    <2>2. ASSUME NEW r \in Requests, Commit(r) PROVE OneUserPerAddress'
      <3>1. /\ \A n \in Names : owner'[n] # owner[n] =>
                   r \in inserted /\ n = name[r] /\ owner'[n] = email[r]
            /\ \A n \in Names : owner[n] # NoEmail => owner'[n] = owner[n]
        BY <2>2, Commits
      <3>2. r \in inserted => \A n \in Names : owner[n] # NoEmail => owner[n] # email[r]
        BY DEF Rows, Clashes
      <3>3. QED
        BY <3>1, <3>2 DEF OneUserPerAddress
    <2>3. QED
      BY <2>1, <2>2, OnlyCommits
  <1>3. QED
    BY <1>1, <1>2, InvAlways, RowsAlways, PTL DEF Spec

\* A user, once in the table, stays there at its address: no login takes a name
\* over, although the SELECT for a free name reads an old snapshot.
UsersKept == [][\A n \in Names : owner[n] # NoEmail => owner'[n] = owner[n]]_vars

THEOREM UsersAlwaysKept == Spec => UsersKept
  <1>1. Inv /\ Rows /\ [Next]_vars => \A n \in Names : owner[n] # NoEmail => owner'[n] = owner[n]
    BY OnlyCommits, Commits DEF tables
  <1>2. QED
    BY <1>1, InvAlways, RowsAlways, PTL DEF Spec, UsersKept

LEMMA TableInit == Init => Users!Init
  <1> SUFFICES ASSUME Init PROVE Users!Init
    OBVIOUS
  <1>1. UserRows \in SUBSET Users!Rows
    BY DEF Init, Table, UserRows, Users!Rows
  <1>2. \A u, v \in UserRows : u.username = v.username \/ u.email = v.email => u = v
    BY DEF Init, UserRows
  <1>3. QED
    BY <1>1, <1>2 DEF Users!Init

LEMMA TableStep == Inv /\ Rows /\ [Next]_vars => [Users!Next]_UserRows
  <1> SUFFICES ASSUME Inv, Rows, [Next]_vars PROVE [Users!Next]_UserRows
    OBVIOUS
  <1>1. CASE UNCHANGED owner
    BY <1>1 DEF UserRows
  <1>2. ASSUME NEW r \in Requests, Commit(r), owner' # owner PROVE Users!Next
    <2>1. r \in inserted /\ owner' = [owner EXCEPT ![name[r]] = email[r]]
      BY <1>2 DEF Commit
    <2>2. r \in Asks /\ name[r] \in Names /\ email[r] \in Emails /\ owner[name[r]] = NoEmail
      BY <1>2, <2>1, Sorts DEF Commit, Inv, TypeOK, AskOK, Rows, Clashes
    <2>3. \A n \in Names : owner'[n] = IF n = name[r] THEN email[r] ELSE owner[n]
      BY <2>1, <2>2 DEF Inv, TypeOK, Table
    <2>4. UserRows' = UserRows \cup {[username |-> name[r], email |-> email[r]]}
      BY <2>2, <2>3, Sorts DEF UserRows
    <2>5. \A n \in Names : owner[n] # NoEmail => n # name[r] /\ owner[n] # email[r]
      BY <2>1 DEF Rows, Clashes
    <2>6. Users!NameFree(name[r]) /\ Users!EmailFree(email[r])
      BY <2>5 DEF UserRows, Users!NameFree, Users!EmailFree
    <2>7. Users!Insert(name[r], email[r])
      BY <2>4, <2>6 DEF Users!Insert
    <2>8. QED
      BY <2>2, <2>7 DEF Users!Next
  <1>3. QED
    BY <1>1, <1>2, OnlyCommits DEF tables

\* First logins implement the users table: although every request looks at a
\* snapshot, waits for the rows of others and commits after its response, users
\* come one at a time, each with a name and an address that nobody has.
THEOREM UserTableImplemented == Spec => ImplementsUserTable
  <1>1. Spec => [](Inv /\ Rows)
    BY InvAlways, RowsAlways, PTL
  <1>2. QED
    BY <1>1, TableInit, TableStep, PTL DEF Spec, ImplementsUserTable, Users!Spec

\* Requests never all wait: who is waited for has written its row and only has
\* the mail, or the session, and the commit before it.
THEOREM NeverAllWait == Spec => []NotAllWait
  <1>1. Inv => NotAllWait
    <2> SUFFICES ASSUME Inv, NEW r \in Requests, Under(r)
                 PROVE  \E q \in Requests : Under(q) /\ ~Waits(q)
      BY DEF NotAllWait
    <2>1. CASE ~Waits(r)
      BY <2>1
    <2>2. CASE Waits(r)
      <3>1. PICK q \in inserted \cup updated : TRUE
        BY <2>2 DEF Waits
      <3>2. q \in Requests /\ pc[q] \in {"check", "mail", "load", "commit"}
        BY <3>1 DEF Inv, TypeOK, Requests, AskOK, ExchangeOK
      <3>3. QED
        BY <3>2 DEF Under, Waits
    <2>3. QED
      BY <2>1, <2>2
  <1>2. QED
    BY <1>1, InvAlways, PTL

\* How many steps a request has left at most: each name it asks for is one.
Left(r) == CASE pc[r] = "new" -> MaxAttempts + 7 [] pc[r] = "limit" -> MaxAttempts + 6
             [] pc[r] \in {"fetch", "token"} -> MaxAttempts + 5
             [] pc[r] = "name" -> MaxAttempts - attempts[r] + 4
             [] pc[r] = "clear" -> 5 [] pc[r] \in {"insert", "look"} -> 4
             [] pc[r] \in {"check", "verify"} -> 3
             [] pc[r] \in {"mail", "load"} -> 2 [] pc[r] = "commit" -> 1 [] OTHER -> 0

\* Each step of a request brings it nearer to its end, and nothing sets it back:
\* the search for a user name ends, however the generator fails.
OnlyForward ==
    [][/\ \A r \in Requests : /\ Left(r)' <= Left(r)
                              /\ CommitFails(r) => Left(r)' < Left(r)
       /\ \A a \in Asks : StepAsk(a) => Left(a)' < Left(a)
       /\ \A x \in Exchanges : StepExchange(x) => Left(x)' < Left(x)]_vars

LEMMA StepAskLowers ==
    ASSUME Inv, NEW a \in Asks,
           StepAsk(a) \/ CommitFails(a) \/ \E e \in Emails, w \in Processes : AskLogin(a, e, w)
    PROVE  /\ Left(a)' < Left(a)
           /\ \A r \in Requests \ {a} : pc'[r] = pc[r] /\ (r \in Asks => attempts'[r] = attempts[r])
  <1> USE DEF Inv, TypeOK, Goto
  <1>1. MaxAttempts \in Nat \ {0} /\ attempts[a] \in Nat /\ a \in Requests /\ a \notin Exchanges
    BY AttemptsAssumption, SortsAssumption DEF Requests, SortsAssumption
  <1>2. CASE OfferName(a)
    <2>1. /\ pc[a] = "name" /\ pc'[a] \in {"insert", "name", "failed"}
          /\ attempts'[a] = attempts[a] + 1
          /\ \A r \in Requests \ {a} : pc'[r] = pc[r] /\ (r \in Asks => attempts'[r] = attempts[r])
      BY <1>1, <1>2 DEF OfferName
    <2>2. attempts[a] < MaxAttempts
      BY <2>1 DEF AskOK
    <2>3. QED
      BY <1>1, <2>1, <2>2 DEF Left
  <1>3. CASE ~OfferName(a)
    <2>1. /\ \/ pc[a] = "new" /\ pc'[a] = "limit"
             \/ pc[a] = "limit" /\ pc'[a] = "fetch"
             \/ pc[a] = "fetch" /\ pc'[a] \in {"check", "name"}
             \/ pc[a] = "insert" /\ pc'[a] \in {"failed", "check"}
             \/ pc[a] = "check" /\ pc'[a] \in {"failed", "mail"}
             \/ pc[a] = "mail" /\ pc'[a] = "commit"
             \/ pc[a] = "commit" /\ pc'[a] \in {"done", "failed"}
          /\ \A r \in Requests \ {a} : pc'[r] = pc[r]
          /\ attempts' = attempts
      BY <1>1, <1>3 DEF StepAsk, FetchUser, InsertUser, CheckTimeout, SendMail, Commit, CommitFails,
         AskLogin, LimitRate, locals
    <2>2. pc[a] = "fetch" => attempts[a] = 0
      BY DEF AskOK
    <2>3. QED
      BY <1>1, <2>1, <2>2 DEF Left
  <1>4. QED
    BY <1>2, <1>3

LEMMA StepExchangeLowers ==
    ASSUME Inv, NEW x \in Exchanges,
           StepExchange(x) \/ CommitFails(x) \/ \E a \in Asks, w \in Processes : Exchange(x, a, w)
    PROVE  /\ Left(x)' < Left(x)
           /\ attempts' = attempts /\ \A r \in Requests \ {x} : pc'[r] = pc[r]
  <1> USE DEF Inv, TypeOK, Goto
  <1>1. MaxAttempts \in Nat \ {0} /\ x \in Requests /\ x \notin Asks
    BY AttemptsAssumption, SortsAssumption DEF Requests, SortsAssumption
  <1>2. /\ \/ pc[x] = "new" /\ pc'[x] = "limit"
           \/ pc[x] = "limit" /\ pc'[x] = "token"
           \/ pc[x] = "token" /\ pc'[x] \in {"clear", "refused"}
           \/ pc[x] = "clear" /\ pc'[x] = "look"
           \/ pc[x] = "look" /\ pc'[x] \in {"load", "verify"}
           \/ pc[x] = "verify" /\ pc'[x] = "load"
           \/ pc[x] = "load" /\ pc'[x] = "commit"
           \/ pc[x] = "commit" /\ pc'[x] \in {"done", "failed"}
        /\ \A r \in Requests \ {x} : pc'[r] = pc[r]
        /\ attempts' = attempts
    BY <1>1 DEF StepExchange, LookVerified, VerifyUser, StartSession, Commit, CommitFails,
       Exchange, LimitRate, CheckToken, ClearToken, locals
  <1>3. QED
    BY <1>1, <1>2 DEF Left

THEOREM AlwaysForward == Spec => OnlyForward
  <1> DEFINE A == /\ \A r \in Requests : /\ Left(r)' <= Left(r)
                                         /\ CommitFails(r) => Left(r)' < Left(r)
                  /\ \A a \in Asks : StepAsk(a) => Left(a)' < Left(a)
                  /\ \A x \in Exchanges : StepExchange(x) => Left(x)' < Left(x)
  <1>1. ASSUME Inv, [Next]_vars PROVE A
    <2>1. \A r \in Requests : Left(r) \in Int /\ Left(r)' \in Int
      <3>1. \A r \in Requests : pc[r] = "name" => attempts[r] \in Nat
        BY <1>1 DEF Inv, TypeOK, ExchangeOK, Requests
      <3>2. Inv'
        BY <1>1, InvStep
      <3>3. \A r \in Requests : pc'[r] = "name" => attempts'[r] \in Nat
        BY <3>2 DEF Inv, TypeOK, ExchangeOK, Requests
      <3>4. QED
        BY <3>1, <3>3, AttemptsAssumption DEF Left
    <2>2. \A r \in Requests : CommitFails(r) => Left(r)' < Left(r)
      BY <1>1, StepAskLowers, StepExchangeLowers DEF Requests
    <2>3. ASSUME NEW r \in Requests,
                 \A q \in Requests \ {r} : pc'[q] = pc[q] /\ (q \in Asks => attempts'[q] = attempts[q])
          PROVE  \A q \in Requests \ {r} : Left(q)' <= Left(q)
      <3>1. \A q \in Requests : pc[q] = "name" => q \in Asks
        BY <1>1 DEF Inv, ExchangeOK, Requests
      <3>2. \A q \in Requests \ {r} : Left(q)' = Left(q)
        BY <2>3, <3>1 DEF Left
      <3>3. QED
        BY <2>1, <3>2
    <2>4. \A r \in Requests : Left(r)' <= Left(r)
      <3>1. CASE UNCHANGED <<pc, attempts>>
        BY <2>1, <3>1 DEF Left
      <3>2. ASSUME NEW a \in Asks,
                   StepAsk(a) \/ CommitFails(a) \/ \E e \in Emails, w \in Processes : AskLogin(a, e, w)
            PROVE  \A r \in Requests : Left(r)' <= Left(r)
        BY <1>1, <2>1, <2>3, <3>2, StepAskLowers DEF Requests
      <3>3. ASSUME NEW x \in Exchanges,
                   StepExchange(x) \/ CommitFails(x) \/ \E a \in Asks, w \in Processes : Exchange(x, a, w)
            PROVE  \A r \in Requests : Left(r)' <= Left(r)
        BY <1>1, <2>1, <2>3, <3>3, StepExchangeLowers DEF Requests
      <3>4. QED
        BY <1>1, <3>1, <3>2, <3>3 DEF Next, ExpireRate, ExpireTimeout, ExpireToken, vars, locals, Requests
    <2>5. QED
      BY <1>1, <2>2, <2>4, StepAskLowers, StepExchangeLowers
  <1>2. QED
    BY <1>1, InvAlways, PTL DEF Spec, OnlyForward
-----------------------------------------------------------------------------
(* While commits succeed *)

LEMMA KeptInit == Init => Kept
  BY DEF Init, Kept, KeptOK, Requests

LEMMA KeptStep == Inv /\ Rows /\ Kept /\ [Next]_vars => Kept'
  <1> SUFFICES ASSUME Inv, Rows, Kept, [Next]_vars, "commit" \notin faults' PROVE KeptOK'
    BY DEF Kept
  <1>0. faults' = faults
    BY DEF Next, StepAsk, StepExchange, AskLogin, LimitRate, FetchUser, OfferName, InsertUser, CheckTimeout,
           SendMail, Exchange, CheckToken, ClearToken, LookVerified, VerifyUser, StartSession, Commit, CommitFails,
           ExpireRate, ExpireTimeout, ExpireToken, vars, env
  <1>k. KeptOK /\ "commit" \notin faults
    BY <1>0 DEF Kept
  <1> USE Sorts DEF Asking, Requests, env
  <1>t. /\ TypeOK
        /\ \A a \in Asks : AskOK(a) /\ a \notin Exchanges
        /\ \A x \in Exchanges : ExchangeOK(x) /\ x \notin Asks
    BY DEF Inv
  <1>1. ASSUME NEW a \in Asks, NEW e \in Emails, NEW w \in Processes, AskLogin(a, e, w) PROVE KeptOK'
    BY <1>t, <1>k, <1>1 DEF AskLogin, Enter, Goto, tables, TypeOK, AskOK, ExchangeOK, KeptOK
  <1>2. ASSUME NEW a \in Asks, FetchUser(a) PROVE KeptOK'
    BY <1>t, <1>k, <1>2 DEF FetchUser, Goto, tables, TypeOK, AskOK, ExchangeOK, KeptOK
  <1>3. ASSUME NEW a \in Asks, OfferName(a) PROVE KeptOK'
    BY <1>t, <1>k, <1>3 DEF OfferName, Goto, tables, TypeOK, AskOK, ExchangeOK, KeptOK
  <1>4. ASSUME NEW a \in Asks, InsertUser(a) PROVE KeptOK'
    BY <1>t, <1>k, <1>4 DEF InsertUser, Goto, tables, locals, TypeOK, AskOK, ExchangeOK, KeptOK
  <1>5. ASSUME NEW a \in Asks, CheckTimeout(a) PROVE KeptOK'
    BY <1>t, <1>k, <1>5 DEF CheckTimeout, Goto, tables, locals, TypeOK, AskOK, ExchangeOK, KeptOK
  <1>6. ASSUME NEW a \in Asks, SendMail(a) PROVE KeptOK'
    BY <1>t, <1>k, <1>6 DEF SendMail, Goto, tables, locals, TypeOK, AskOK, ExchangeOK, KeptOK
  <1>7. ASSUME NEW x \in Exchanges, NEW a \in Asks, NEW w \in Processes, Exchange(x, a, w) PROVE KeptOK'
    BY <1>t, <1>k, <1>7 DEF Exchange, Goto, tables, TypeOK, AskOK, ExchangeOK, KeptOK
  <1>8. ASSUME NEW r \in Requests, LimitRate(r) PROVE KeptOK'
    BY <1>t, <1>k, <1>8 DEF LimitRate, Goto, tables, locals, TypeOK, AskOK, ExchangeOK, KeptOK
  <1>9. ASSUME NEW x \in Exchanges, CheckToken(x) \/ ClearToken(x) PROVE KeptOK'
    BY <1>t, <1>k, <1>9 DEF CheckToken, ClearToken, Goto, tables, locals, TypeOK, AskOK, ExchangeOK, KeptOK
  <1>10. ASSUME NEW x \in Exchanges PROVE pc[x] # "new" => used[x] \in Asks /\ used[x] \in mailed
    BY <1>t, <1>10 DEF TypeOK, ExchangeOK
  <1>11. ASSUME NEW x \in Exchanges, LookVerified(x) PROVE KeptOK'
    <2>1. name[x] \in verified => owner[name[x]] = email[used[x]]
      <3>1. SUFFICES ASSUME owner[name[used[x]]] # NoEmail
                     PROVE  owner[name[used[x]]] = email[used[x]]
        BY <1>t, <1>11 DEF LookVerified, ExchangeOK, Rows
      <3>2. used[x] \in mailed /\ used[x] \in Asks /\ name[used[x]] \in Names
        BY <1>t, <1>10, <1>11 DEF LookVerified, AskOK
      <3>3. used[x] \notin inserted
        BY <3>1, <3>2 DEF Rows, Clashes
      <3>4. QED
        BY <1>t, <1>k, <3>2, <3>3 DEF AskOK, KeptOK
    <2>2. QED
      BY <1>t, <1>k, <1>11, <2>1 DEF LookVerified, Goto, tables, locals, TypeOK, AskOK, ExchangeOK, KeptOK
  <1>12. ASSUME NEW x \in Exchanges, VerifyUser(x) PROVE KeptOK'
    <2>1. used[x] \in mailed /\ used[x] \in Asks /\ name[x] = name[used[x]]
      BY <1>t, <1>10, <1>12 DEF VerifyUser, ExchangeOK
    <2>2. used[x] \notin inserted
      BY <1>12, <2>1 DEF VerifyUser, Waits
    <2>3. owner[name[x]] = email[used[x]] /\ email[used[x]] \in Emails
      BY <1>t, <1>k, <2>1, <2>2 DEF AskOK, KeptOK
    <2>4. updated' = updated \cup {x}
      BY <1>12, <2>3 DEF VerifyUser
    <2>5. QED
      BY <1>t, <1>k, <1>12, <2>3, <2>4 DEF VerifyUser, Goto, tables, locals, TypeOK, AskOK, ExchangeOK, KeptOK
  <1>13. ASSUME NEW x \in Exchanges, StartSession(x) PROVE KeptOK'
    BY <1>t, <1>k, <1>13 DEF StartSession, Goto, tables, locals, TypeOK, AskOK, ExchangeOK, KeptOK
  <1>14. ASSUME NEW r \in Requests, Commit(r) PROVE KeptOK'
    <2>1. /\ pc[r] = "commit" /\ pc' = [pc EXCEPT ![r] = "done"]
          /\ \A n \in Names : owner[n] # NoEmail => owner'[n] = owner[n]
          /\ r \in inserted => owner'[name[r]] = email[r]
          /\ verified' = IF r \in updated THEN verified \cup {name[r]} ELSE verified
          /\ inserted' = inserted \ {r} /\ updated' = updated \ {r}
          /\ UNCHANGED <<email, name, used, mailed>>
      BY <1>14, Commits
    <2>2. \A q \in Requests : pc'[q] = IF q = r THEN "done" ELSE pc[q]
      BY <1>t, <2>1 DEF TypeOK
    <2>3. ASSUME NEW a \in Asks
          PROVE  /\ pc'[a] \in {"check", "mail", "commit"} =>
                       owner'[name[a]] = email[a] \/ a \in inserted'
                 /\ pc'[a] = "done" => owner'[name[a]] = email[a]
                 /\ a \in mailed => pc'[a] # "failed"
      <3>1. pc[a] \in {"check", "mail", "commit", "done"} => name[a] \in Names /\ email[a] \in Emails
        BY <1>t DEF AskOK
      <3>2. owner[name[a]] = email[a] /\ name[a] \in Names /\ email[a] \in Emails
              => owner'[name[a]] = email[a]
        BY <2>1
      <3>3. QED
        BY <1>k, <2>1, <2>2, <3>1, <3>2 DEF KeptOK
    <2>4. ASSUME NEW x \in Exchanges
          PROVE  /\ pc'[x] # "failed"
                 /\ pc'[x] \in {"load", "commit", "done"} => owner'[name[x]] = email[used[x]]
                 /\ pc'[x] \in {"load", "commit"} => name[x] \in verified' \/ x \in updated'
                 /\ pc'[x] = "done" => name[x] \in verified'
      <3>1. pc[x] \in {"load", "commit", "done"} => name[x] \in Names /\ email[used[x]] \in Emails
        BY <1>t, <1>10 DEF ExchangeOK, AskOK
      <3>2. QED
        BY <1>k, <2>1, <2>2, <3>1 DEF KeptOK
    <2>5. QED
      BY <2>1, <2>3, <2>4 DEF KeptOK
  <1>15. ASSUME NEW r \in Requests, CommitFails(r) PROVE KeptOK'
    BY <1>k, <1>15 DEF CommitFails
  <1>16. ASSUME (\E k \in Emails \cup Names : ExpireRate(k)) \/ (\E e \in Emails : ExpireTimeout(e))
                  \/ (\E n \in Names : ExpireToken(n))
         PROVE  KeptOK'
    BY <1>k, <1>16 DEF ExpireRate, ExpireTimeout, ExpireToken, tables, locals, KeptOK
  <1>17. CASE UNCHANGED vars
    BY <1>k, <1>17 DEF vars, KeptOK
  <1>18. QED
    BY <1>1, <1>2, <1>3, <1>4, <1>5, <1>6, <1>7, <1>8, <1>9, <1>11, <1>12, <1>13, <1>14, <1>15,
       <1>16, <1>17 DEF Next, StepAsk, StepExchange

LEMMA KeptAlways == Spec => []Kept
  BY InvAlways, RowsAlways, KeptInit, KeptStep, PTL DEF Spec

\* While commits succeed, the user a mail spoke of exists when the request is
\* over, with the address it went to, whoever else asked for that name.
THEOREM MailedUsersExist == Spec => []MailedUserExists
  <1>1. Inv /\ Kept => MailedUserExists
    BY DEF Inv, TypeOK, Kept, KeptOK, MailedUserExists
  <1>2. QED
    BY <1>1, InvAlways, KeptAlways, PTL

\* While commits succeed, who holds a session is in the users table, at the
\* address that the token was mailed to, although the session may be started
\* before the request for the mail has committed the user.
THEOREM SessionsAreAddressees == Spec => []SessionIsAddressees
  <1>1. Inv /\ Kept => SessionIsAddressees
    BY DEF Inv, ExchangeOK, Kept, KeptOK, SessionIsAddressees, LoggedIn
  <1>2. QED
    BY <1>1, InvAlways, KeptAlways, PTL

\* While commits succeed, a user whose login is over is verified.
THEOREM AlwaysVerified == Spec => []LoggedInIsVerified
  <1>1. Kept => LoggedInIsVerified
    BY DEF Kept, KeptOK, LoggedInIsVerified
  <1>2. QED
    BY <1>1, KeptAlways, PTL
-----------------------------------------------------------------------------
(* While requests are quicker than the rate limit *)

LEMMA ApartInit == Init => Apart
  BY DEF Init, Apart

LEMMA ApartStep == Inv /\ Apart /\ [Next]_vars => Apart'
  <1> SUFFICES ASSUME Inv, Apart, [Next]_vars PROVE Apart'
    OBVIOUS
  <1>t. at \in [Requests -> Processes \cup {NoProcess}]
    BY DEF Inv, TypeOK
  <1>1. ASSUME NEW r \in Requests, NEW w \in Processes, Enter(r, w) PROVE Apart'
    BY <1>t, <1>1 DEF Enter, Apart
  <1>2. ASSUME NEW r \in Requests, Leave(r) PROVE Apart'
    BY <1>t, <1>2 DEF Leave, Apart
  <1>3. CASE UNCHANGED at
    BY <1>3 DEF Apart
  <1>4. \/ UNCHANGED at
        \/ \E r \in Requests : Leave(r) \/ \E w \in Processes : Enter(r, w)
    BY DEF Next, StepAsk, StepExchange, AskLogin, LimitRate, FetchUser, OfferName, InsertUser, CheckTimeout,
           SendMail, Exchange, CheckToken, ClearToken, LookVerified, VerifyUser, StartSession,
           Commit, CommitFails, ExpireRate, ExpireTimeout, ExpireToken, vars, Requests
  <1>5. QED
    BY <1>1, <1>2, <1>3, <1>4

LEMMA ApartAlways == Spec => []Apart
  BY InvAlways, ApartInit, ApartStep, PTL DEF Spec

LEMMA ServersFinite == Inv => IsFiniteSet(servers) /\ Cardinality(servers) \in Nat
  BY ProcessAssumption, FS_Subset, FS_CardinalityType DEF ProcessAssumption, Inv, TypeOK

LEMMA SpacedInit == Init => Spaced
  <1> SUFFICES ASSUME Init PROVE SpacedOK
    BY DEF Spaced
  <1>1. \A e \in Emails : Going(e) = {} /\ Mailing(e) = {}
    BY DEF Init, Going, Mailing, Asking, Requests
  <1>2. IsFiniteSet({}) /\ Cardinality({}) = 0
    BY FS_EmptySet
  <1>3. Cardinality(servers) \in Nat
    BY InvInit, ServersFinite
  <1>4. \A e \in Emails : IsFiniteSet(Going(e)) /\ Cardinality(Going(e)) <= Cardinality(servers)
    BY <1>1, <1>2, <1>3
  <1>5. QED
    BY <1>4 DEF Init, SpacedOK, Requests, Asking

\* A step after which no more requests go on, none newly past the check of the
\* timeout while it runs.
LEMMA SpacedLess ==
    ASSUME Inv, SpacedOK, UNCHANGED <<servers, rate, timeout, recent>>,
           \A a \in Asks : pc'[a] \in Asking => pc[a] \in Asking /\ email'[a] = email[a],
           \A a \in Asks : pc'[a] = "mail" => pc[a] = "mail" \/ email[a] \notin timeout,
           \A a \in Asks : pc'[a] \in Asking \ {"limit"} => pc[a] # "limit"
    PROVE  SpacedOK'
  <1>1. \A e \in Emails : Going(e)' \subseteq Going(e)
    BY DEF Going
  <1>2. \A e \in Emails : e \in timeout => Mailing(e)' \subseteq Mailing(e)
    BY DEF Mailing, Asking
  <1>3. \A e \in Emails : IsFiniteSet(Mailing(e))
    <2> SUFFICES ASSUME NEW e \in Emails PROVE IsFiniteSet(Mailing(e))
      OBVIOUS
    <2>1. Mailing(e) \in SUBSET Going(e)
      BY DEF Mailing, Going, Asking
    <2>2. QED
      BY <2>1, FS_Subset DEF SpacedOK
  <1>4. \A e \in Emails : IsFiniteSet(Going(e)') /\ Cardinality(Going(e)') <= Cardinality(Going(e))
    BY <1>1, FS_Subset DEF SpacedOK
  <1>5. \A e \in Emails : e \in timeout =>
          IsFiniteSet(Mailing(e)') /\ Cardinality(Mailing(e)') <= Cardinality(Mailing(e))
    BY <1>2, <1>3, FS_Subset
  <1>6. \A e \in Emails : /\ Cardinality(Going(e)) \in Nat /\ Cardinality(Mailing(e)) \in Nat
                          /\ Cardinality(Going(e)') \in Nat
                          /\ e \in timeout => Cardinality(Mailing(e)') \in Nat
    BY <1>3, <1>4, <1>5, FS_CardinalityType DEF SpacedOK
  <1>7. Cardinality(servers) \in Nat /\ recent \in [Emails -> Nat]
    BY ServersFinite DEF Inv, TypeOK
  <1>8. \A a \in Asks : pc'[a] \in Asking \ {"limit"} => email'[a] \in rate'
    BY DEF SpacedOK
  <1>9. \A e \in Emails : Cardinality(Going(e)') <= Cardinality(servers)
    BY <1>4, <1>6, <1>7 DEF SpacedOK
  <1>10. \A e \in Emails : e \in timeout => recent[e] + Cardinality(Mailing(e)') <= Cardinality(servers)
    BY <1>5, <1>6, <1>7 DEF SpacedOK
  <1>11. QED
    BY <1>4, <1>8, <1>9, <1>10 DEF SpacedOK

\* A request enters only while all that go on for its address have not set the
\* key yet, so each of them is inside a process of its own.
LEMMA SpacedEnters ==
    ASSUME Inv, Apart, SpacedOK, [Next]_vars,
           NEW a \in Asks, NEW e \in Emails, NEW w \in Processes, AskLogin(a, e, w)
    PROVE  SpacedOK'
  <1> DEFINE all == Going(e) \cup {a}
             in  == at'
  <1> USE DEF Asking, env, keys
  <1>t. TypeOK /\ \A b \in Asks : AskOK(b)
    BY DEF Inv
  <1>1. /\ pc[a] = "new" /\ e \notin rate /\ w \in servers
        /\ \A b \in Asks : pc'[b] = IF b = a THEN "limit" ELSE pc[b]
        /\ \A b \in Asks : email'[b] = IF b = a THEN e ELSE email[b]
        /\ UNCHANGED <<rate, timeout, recent, servers>>
    BY <1>t DEF AskLogin, Enter, Goto, TypeOK, Requests
  <1>2. Going(e)' = all /\ \A f \in Emails : f # e => Going(f)' = Going(f)
    BY <1>1 DEF Going
  <1>3. \A f \in Emails : Mailing(f)' = Mailing(f)
    BY <1>1 DEF Mailing
  <1>4. \A b \in all : b \in Asks /\ pc'[b] = "limit"
    BY <1>1 DEF SpacedOK, Going
  <1>5. \A b \in all : in[b] \in servers
    <2>1. Inv'
      BY InvStep
    <2>2. QED
      BY <1>1, <1>4, <2>1 DEF Inv, AskOK
  <1>6. \A b, c \in all : in[b] = in[c] => b = c
    <2>1. Apart'
      BY ApartStep
    <2>2. NoProcess \notin servers
      BY <1>t, ProcessAssumption DEF TypeOK, ProcessAssumption
    <2>3. QED
      BY <1>4, <1>5, <2>1, <2>2 DEF Apart, Requests
  <1>7. [b \in all |-> in[b]] \in Injection(all, servers)
    BY <1>5, <1>6 DEF Injection, IsInjective
  <1>8. IsFiniteSet(all) /\ Cardinality(all) <= Cardinality(servers)
    BY <1>7, ServersFinite, FS_Injection
  <1>9. QED
    BY <1>1, <1>2, <1>3, <1>8 DEF SpacedOK

LEMMA SpacedMails ==
    ASSUME Inv, SpacedOK, NEW a \in Asks, SendMail(a)
    PROVE  SpacedOK'
  <1> DEFINE n == Cardinality(servers)
  <1> USE DEF Asking, env
  <1>t. TypeOK /\ AskOK(a)
    BY DEF Inv
  <1>e. PICK e \in Emails : e = email[a]
    BY DEF Inv, AskOK, SendMail
  <1>1. /\ pc[a] = "mail"
        /\ \A b \in Asks : pc'[b] = IF b = a THEN "commit" ELSE pc[b]
        /\ timeout' = timeout \cup {e}
        /\ \A f \in Emails : recent'[f] = IF f = e THEN recent[e] + 1 ELSE recent[f]
        /\ UNCHANGED <<rate, email, servers>>
    BY <1>t, <1>e DEF SendMail, Goto, TypeOK, Requests, AskOK, locals
  <1>2. \A f \in Emails : /\ Going(f)' = Going(f) \ {a}
                          /\ Mailing(f)' = Mailing(f) \ {a}
    BY <1>1 DEF Going, Mailing
  <1>3. \A f \in Emails : f # e => a \notin Mailing(f)
    BY <1>e DEF Mailing
  <1>4. \A f \in Emails : /\ IsFiniteSet(Going(f)') /\ Cardinality(Going(f)') <= n
                          /\ f # e => Mailing(f)' = Mailing(f)
    <2> SUFFICES ASSUME NEW f \in Emails
                 PROVE  IsFiniteSet(Going(f)') /\ Cardinality(Going(f)') <= n
      BY <1>2, <1>3
    <2>1. IsFiniteSet(Going(f)) /\ Cardinality(Going(f)) <= n
      BY DEF SpacedOK
    <2>2. /\ IsFiniteSet(Going(f) \ {a}) /\ Cardinality(Going(f) \ {a}) <= Cardinality(Going(f))
          /\ Cardinality(Going(f)) \in Nat /\ Cardinality(Going(f) \ {a}) \in Nat
      BY <2>1, FS_Subset, FS_CardinalityType
    <2>3. n \in Nat
      BY ServersFinite
    <2>4. QED
      BY <1>2, <2>1, <2>2, <2>3
  <1>5. recent'[e] + Cardinality(Mailing(e)') <= n
    <2>1. /\ Mailing(e) \in SUBSET Going(e) /\ a \in Mailing(e)
          /\ IsFiniteSet(Going(e)) /\ Cardinality(Going(e)) <= n
      BY <1>e, <1>1 DEF Mailing, Going, SpacedOK
    <2>2. IsFiniteSet(Mailing(e)) /\ Cardinality(Mailing(e)) <= Cardinality(Going(e))
      BY <2>1, FS_Subset
    <2>3. Cardinality(Mailing(e) \ {a}) = Cardinality(Mailing(e)) - 1
      BY <2>1, <2>2, FS_RemoveElement
    <2>4. /\ n \in Nat /\ recent[e] \in Nat
          /\ Cardinality(Mailing(e)) \in Nat /\ Cardinality(Going(e)) \in Nat
      BY <1>t, <1>1, <2>1, <2>2, ServersFinite, FS_CardinalityType DEF TypeOK
    <2>5. recent[e] + Cardinality(Mailing(e)) <= n
      <3>1. CASE e \in timeout
        BY <1>1, <3>1 DEF SpacedOK
      <3>2. CASE e \notin timeout
        BY <1>1, <2>1, <2>2, <2>4, <3>2 DEF SpacedOK
      <3>3. QED
        BY <3>1, <3>2
    <2>6. QED
      BY <1>1, <1>2, <2>3, <2>4, <2>5
  <1>6. \A b \in Asks : pc'[b] \in Asking \ {"limit"} => email'[b] \in rate'
    BY <1>1 DEF SpacedOK
  <1>7. QED
    BY <1>1, <1>4, <1>5, <1>6 DEF SpacedOK

LEMMA SpacedStep == Inv /\ Apart /\ Spaced /\ [Next]_vars => Spaced'
  <1> SUFFICES ASSUME Inv, Apart, Spaced, [Next]_vars, "slow" \notin faults' PROVE SpacedOK'
    BY DEF Spaced
  <1>0. faults' = faults
    BY DEF Next, StepAsk, StepExchange, AskLogin, LimitRate, FetchUser, OfferName, InsertUser, CheckTimeout,
           SendMail, Exchange, CheckToken, ClearToken, LookVerified, VerifyUser, StartSession,
           Commit, CommitFails, ExpireRate, ExpireTimeout, ExpireToken, vars, env
  <1>k. SpacedOK /\ "slow" \notin faults
    BY <1>0 DEF Spaced
  <1> USE DEF Asking, Requests, env
  <1>t. /\ TypeOK
        /\ \A a \in Asks : AskOK(a) /\ a \notin Exchanges
        /\ \A x \in Exchanges : ExchangeOK(x) /\ x \notin Asks
    BY Sorts DEF Inv
  <1>2. ASSUME NEW a \in Asks, NEW e \in Emails, NEW w \in Processes, AskLogin(a, e, w) PROVE SpacedOK'
    BY <1>k, <1>2, SpacedEnters
  <1>3. ASSUME NEW r \in Requests, LimitRate(r) PROVE SpacedOK'
    <2>1. /\ \A a \in Asks : /\ pc'[a] \in Asking <=> pc[a] \in Asking
                             /\ pc'[a] = "mail" <=> pc[a] = "mail"
                             /\ pc'[a] \in Asking \ {"limit"} => pc[a] # "limit" \/ email[a] \in rate'
          /\ rate \subseteq rate' /\ UNCHANGED <<servers, timeout, recent, email>>
      BY <1>t, <1>3 DEF LimitRate, Limit, Goto, locals, TypeOK
    <2>2. \A e \in Emails : Going(e)' = Going(e) /\ Mailing(e)' = Mailing(e)
      BY <2>1 DEF Going, Mailing
    <2>3. QED
      BY <1>k, <2>1, <2>2 DEF SpacedOK
  <1>4. ASSUME NEW a \in Asks, FetchUser(a) \/ OfferName(a) \/ InsertUser(a) \/ CheckTimeout(a) PROVE SpacedOK'
    <2>1. /\ pc[a] \in {"fetch", "name", "insert", "check"}
          /\ pc'[a] = "mail" => email[a] \notin timeout
          /\ pc'[a] # "limit"
          /\ \A b \in Asks \ {a} : pc'[b] = pc[b]
          /\ UNCHANGED <<servers, rate, timeout, recent, email>>
      BY <1>t, <1>4 DEF FetchUser, OfferName, InsertUser, CheckTimeout, Goto, keys, locals, TypeOK
    <2>2. QED
      BY <1>k, <2>1, SpacedLess
  <1>5. ASSUME NEW a \in Asks, SendMail(a) PROVE SpacedOK'
    BY <1>k, <1>5, SpacedMails
  <1>6. ASSUME NEW x \in Exchanges,
               \/ \E a \in Asks, w \in Processes : Exchange(x, a, w)
               \/ CheckToken(x) \/ ClearToken(x) \/ LookVerified(x) \/ VerifyUser(x) \/ StartSession(x)
        PROVE  SpacedOK'
    <2>1. /\ \A a \in Asks : pc'[a] = pc[a]
          /\ UNCHANGED <<servers, rate, timeout, recent, email>>
      BY <1>t, <1>6 DEF Exchange, CheckToken, ClearToken, LookVerified, VerifyUser, StartSession, Goto,
         keys, locals, TypeOK
    <2>2. QED
      BY <1>k, <2>1, SpacedLess
  <1>7. ASSUME NEW r \in Requests, Commit(r) \/ CommitFails(r) PROVE SpacedOK'
    <2>1. /\ \A a \in Asks : pc'[a] = pc[a] \/ pc'[a] \in {"done", "failed"}
          /\ UNCHANGED <<servers, rate, timeout, recent, email>>
      BY <1>t, <1>7 DEF Commit, CommitFails, Goto, keys, locals, TypeOK
    <2>2. QED
      BY <1>k, <2>1, SpacedLess
  <1>8. ASSUME NEW k \in Emails \cup Names, ExpireRate(k) PROVE SpacedOK'
    <2>1. /\ \A a \in Asks : pc[a] \in Asking => email[a] # k
          /\ rate' = rate \ {k} /\ UNCHANGED <<servers, timeout, recent, email, pc>>
      BY <1>k, <1>8 DEF ExpireRate, locals
    <2>2. \A e \in Emails : Going(e)' = Going(e) /\ Mailing(e)' = Mailing(e)
      BY <2>1 DEF Going, Mailing
    <2>3. QED
      BY <1>k, <2>1, <2>2 DEF SpacedOK
  <1>9. ASSUME NEW e \in Emails, ExpireTimeout(e) PROVE SpacedOK'
    <2>1. /\ timeout' = timeout \ {e} /\ UNCHANGED <<servers, rate, email, pc>>
          /\ \A f \in Emails : recent'[f] = IF f = e THEN 0 ELSE recent[f]
      BY <1>t, <1>9 DEF ExpireTimeout, locals, TypeOK
    <2>2. \A f \in Emails : Going(f)' = Going(f) /\ Mailing(f)' = Mailing(f)
      BY <2>1 DEF Going, Mailing
    <2>3. QED
      BY <1>k, <2>1, <2>2 DEF SpacedOK
  <1>10. ASSUME (\E n \in Names : ExpireToken(n)) \/ UNCHANGED vars PROVE SpacedOK'
    <2>1. UNCHANGED <<servers, rate, timeout, recent, email, pc>>
      BY <1>10 DEF ExpireToken, locals, vars
    <2>2. QED
      BY <1>k, <2>1, SpacedLess
  <1>11. QED
    BY <1>2, <1>3, <1>4, <1>5, <1>6, <1>7, <1>8, <1>9, <1>10 DEF Next, StepAsk, StepExchange

LEMMA SpacedAlways == Spec => []Spaced
  BY InvAlways, ApartAlways, SpacedInit, SpacedStep, PTL DEF Spec

\* While requests are quicker than the rate limit of their address, no address
\* gets more mails within the timeout than there are server processes: one, if
\* there is one process, although the check and the key that starts the timeout
\* are on two sides of an await; two of the Dockerfile's two processes, which may
\* both find no rate limit key before either sets it.
THEOREM AlwaysMailsPerTimeout == Spec => []MailsPerTimeout
  <1>1. Inv /\ Spaced => MailsPerTimeout
    <2> SUFFICES ASSUME Inv, SpacedOK, NEW e \in Emails PROVE recent[e] <= Cardinality(servers)
      BY DEF Spaced, MailsPerTimeout
    <2>1. Cardinality(servers) \in Nat /\ recent[e] \in Nat
      BY ServersFinite DEF Inv, TypeOK
    <2>2. CASE e \notin timeout
      BY <2>1, <2>2 DEF SpacedOK
    <2>3. CASE e \in timeout
      <3>1. Mailing(e) \in SUBSET Going(e) /\ IsFiniteSet(Going(e))
        BY DEF Mailing, Going, Asking, SpacedOK
      <3>2. Cardinality(Mailing(e)) \in Nat
        BY <3>1, FS_Subset, FS_CardinalityType
      <3>3. QED
        BY <2>1, <2>3, <3>2 DEF SpacedOK
    <2>4. QED
      BY <2>2, <2>3
  <1>2. QED
    BY <1>1, InvAlways, SpacedAlways, PTL
=============================================================================
