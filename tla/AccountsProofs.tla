---------------------------- MODULE AccountsProofs ----------------------------
(***************************************************************************)
(* Theorems about Accounts, for every set of requests, people, names and   *)
(* emails: the types, the uniqueness of user names and emails and the      *)
(* table of users that follows from it, that no update is lost, that       *)
(* requests come to their end, and, for the user names about which no two  *)
(* calls of the SessionManager overlap, that a change ends its sender's    *)
(* sessions and leaves none for an old name, and that sessions and changes *)
(* stay with the person whose they are.                                    *)
(***************************************************************************)
EXTENDS Accounts, TLAPS

\* What SessionManagerProofs says of the calls that the requests make.
SP == INSTANCE SessionManagerProofs
        WITH Workers <- Requests, Users <- Names, Tokens <- Sessions,
             NoUser <- NoName, NoToken <- NoOne, OneAtATime <- FALSE,
             pc <- cmd, who <- subject, must <- due, lost <- faults \cap {}, failing <- ("command" \in faults)

\* The commands of start_session.
StartingPcs == {"probe", "unlink", "draw", "link", "store"}

\* The user name of the session that r starts.
NameOf(r) == IF op[r] = "username" THEN want[r] ELSE who[r]

\* What the program counter and the command of a request say of the rest.
Stands(r) ==
    /\ pc[r] = "new" => op[r] = "none" /\ caller[r] = NoOne /\ row[r] = NoOne
                          /\ must[r] = {} /\ ~InCall(r)
    /\ r \in issued => pc[r] \in {"commit", "done", "failed"} /\ cmd[r] \notin StartingPcs
    /\ session[r] \in {NameOf(r), NoName}
    /\ pc[r] # "new" => caller[r] \in People /\ who[r] \in Names
    /\ pc[r] = "act" => op[r] \in Changes \cup {"log_me_out", "log_me_out_all"} /\ ~InCall(r)
    /\ pc[r] \in {"out", "again"} => op[r] \in Changes
    /\ pc[r] = "refuse" => op[r] = "username"
    /\ pc[r] = "update" => op[r] \in Changes \cup {"data"}
    /\ pc[r] = "load" => op[r] \in Changes \cup {"login"}
    /\ op[r] = "username" => want[r] \in Names
    /\ op[r] = "email" => want[r] \in Emails
    /\ op[r] = "log_me_out" => want[r] \in Sessions
    /\ left[r] \subseteq (IF op[r] = "username" THEN {who[r], want[r]} ELSE {who[r]})
    /\ left[r] # {} <=> pc[r] \in {"out", "again", "refuse"}
    /\ row[r] # NoOne => pc[r] \in {"again", "load", "commit"}
    /\ cmd[r] \in StartingPcs =>
          pc[r] = "commit" /\ op[r] \in Changes \cup {"login"} /\ subject[r] = NameOf(r)
    /\ cmd[r] \in {"link", "store"} => held[r] = r

Inv == TypeOK /\ SP!Inv1 /\ \A r \in Requests : Stands(r)
-----------------------------------------------------------------------------
(* The calls are those of SessionManager *)

\* A name is no null value, nor an email.
LEMMA Nulls ==
    /\ NoName \notin Names /\ NoName \notin Emails
    /\ NoOne \notin People /\ NoOne \notin Sessions
    /\ Names \cap Emails = {} /\ Requests \cap People = {}
  BY NullAssumption, SortsAssumption DEF NullAssumption, SortsAssumption, Sessions

\* What holds of the calls, in this module's words.
LEMMA CallFacts ==
    ASSUME Inv
    PROVE  /\ session \in [Sessions -> Names \cup {NoName}]
           /\ links \in [Names -> SUBSET Sessions] /\ issued \subseteq Sessions
           /\ cmd \in [Requests -> {"idle", "drop", "detach", "unindex", "purge"} \cup StartingPcs]
           /\ subject \in [Requests -> Names \cup {NoName}]
           /\ held \in [Requests -> Sessions \cup {NoOne}]
           /\ todo \in [Requests -> SUBSET Sessions]
           /\ \A r \in Requests :
                /\ cmd[r] = "idle" => subject[r] = NoName
                /\ cmd[r] \notin {"idle", "drop"} => subject[r] \in Names
                /\ cmd[r] \in {"link", "store"} => held[r] \in Sessions \ issued
                /\ cmd[r] = "unlink" => held[r] \in Sessions
                /\ cmd[r] \in {"drop", "detach"} => held[r] \in issued
           /\ \A t \in Sessions : session[t] # NoName => t \in issued
  BY DEF Inv, SP!Inv1, SP!TypeOK, SP!LocalsOK, SP!LiveIsIssued, SP!Live, StartingPcs,
         SP!PCs, SP!CullPcs, SP!StartPcs, SP!ClearPcs

\* A start of a session keeps what SessionManager's invariant says of the calls.
LEMMA StartKeeps ==
    ASSUME SP!Inv1, NEW r \in Requests, NEW n \in Names, Store!StartSession(r, n)
    PROVE  SP!Inv1'
  <1>1. /\ cmd[r] = "idle" /\ todo' = [todo EXCEPT ![r] = links[n]]
        /\ cmd' = [cmd EXCEPT ![r] = IF links[n] = {} THEN "draw" ELSE "probe"]
        /\ subject' = [subject EXCEPT ![r] = n]
        /\ due' = [due EXCEPT ![r] = {t \in links[n] : Store!Stale(t)}]
        /\ UNCHANGED <<session, links, issued, held, faults \cap {}, "command" \in faults>>
    BY DEF Store!StartSession, Store!Goto, Store!CullNext, Store!beyond
  <1>2. QED
    BY <1>1, Nulls DEF SP!Inv1, SP!TypeOK, SP!LocalsOK, SP!DrawsDiffer, SP!LiveIsIssued, SP!Live,
       SP!OwnershipOK, SP!Mine, SP!PCs, SP!CullPcs, SP!StartPcs, SP!ClearPcs

\* Every step of Accounts keeps it: it is a step of SessionManager, or changes
\* nothing there.
LEMMA CallsStep == Inv /\ [Next]_vars => SP!Inv1'
  <1> SUFFICES ASSUME Inv, [Next]_vars PROVE SP!Inv1'
    OBVIOUS
  <1>i. SP!Inv1
    BY DEF Inv
  <1>s. [SP!Next]_(SP!vars) => SP!Inv1'
    <2>1. FALSE \in BOOLEAN /\ NoName \notin Names /\ NoOne \notin Sessions
      BY Nulls
    <2>2. QED
      BY <1>i, <2>1, SP!Inv1Step
  <1>1. ASSUME NEW r \in Requests, Command(r) PROVE SP!Inv1'
    <2>1. Store!Step(r)
      BY <1>1 DEF Command
    <2>2. (Store!ProbeLink(r) => SP!ProbeLink(r)) /\ (Store!CullLink(r) => SP!CullLink(r))
      BY DEF Store!ProbeLink, SP!ProbeLink, Store!CullLink, SP!CullLink, Store!Goto, SP!Goto,
         Store!CullNext, SP!CullNext, Store!Live, SP!Live, Store!Unlink, SP!Unlink, Store!beyond, SP!beyond
    <2>3. (Store!DrawToken(r) => SP!DrawToken(r)) /\ (Store!LinkToken(r) => SP!LinkToken(r))
      BY DEF Store!DrawToken, SP!DrawToken, Store!LinkToken, SP!LinkToken, Store!Goto, SP!Goto,
         Store!Fresh, SP!Fresh, Store!Live, SP!Live, Store!beyond, SP!beyond
    <2>4. (Store!StoreSession(r) => SP!StoreSession(r)) /\ (Store!DropSession(r) => SP!DropSession(r))
      BY DEF Store!StoreSession, SP!StoreSession, Store!DropSession, SP!DropSession, Store!Goto, SP!Goto,
         Store!Return, SP!Return, Store!Delete, SP!Delete, Store!beyond, SP!beyond
    <2>5. (Store!DetachToken(r) => SP!DetachToken(r)) /\ (Store!DropIndex(r) => SP!DropIndex(r))
      BY DEF Store!DetachToken, SP!DetachToken, Store!DropIndex, SP!DropIndex, Store!Goto, SP!Goto,
         Store!Return, SP!Return, Store!Unlink, SP!Unlink, Store!beyond, SP!beyond
    <2>6. Store!PurgeToken(r) => SP!PurgeToken(r)
      BY DEF Store!PurgeToken, SP!PurgeToken, Store!Goto, SP!Goto,
         Store!Return, SP!Return, Store!Delete, SP!Delete, Store!beyond, SP!beyond
    <2>7. SP!Step(r)
      BY <2>1, <2>2, <2>3, <2>4, <2>5, <2>6 DEF Store!Step, SP!Step
    <2>8. QED
      BY <1>s, <2>7 DEF SP!Next
  <1>2. ASSUME NEW r \in Requests, LogMeOut(r) PROVE SP!Inv1'
    <2>1. want[r] \in Sessions
      BY <1>2 DEF LogMeOut, Inv, Stands
    <2>2. SP!EndSession(r, want[r])
      BY <1>2 DEF LogMeOut, Store!EndSession, SP!EndSession, Store!Live, SP!Live, Store!Undisturbed,
         SP!Undisturbed, Store!Goto, SP!Goto, Store!store, SP!store, Store!beyond, SP!beyond
    <2>3. QED
      BY <1>s, <2>1, <2>2 DEF SP!Next, SP!Call
  <1>3. ASSUME NEW r \in Requests, NEW n \in Names, Store!ClearSessions(r, n) PROVE SP!Inv1'
    <2>1. SP!ClearSessions(r, n)
      BY <1>3 DEF Store!ClearSessions, SP!ClearSessions, Store!LiveOf, SP!LiveOf, Store!Undisturbed,
         SP!Undisturbed, Store!Goto, SP!Goto, Store!store, SP!store, Store!beyond, SP!beyond
    <2>2. QED
      BY <1>s, <2>1 DEF SP!Next, SP!Call
  <1>4. ASSUME NEW t \in Sessions, Expire(t) PROVE SP!Inv1'
    <2>1. SP!Expire(t)
      BY <1>4 DEF Expire, Store!Expire, SP!Expire, Store!Live, SP!Live, Store!Delete, SP!Delete,
         Store!beyond, SP!beyond
    <2>2. QED
      BY <1>s, <2>1 DEF SP!Next
  <1>5. ASSUME UNCHANGED <<faults, calls>> PROVE SP!Inv1'
    BY <1>s, <1>5 DEF SP!vars, calls
  <1>6. ASSUME NEW r \in Requests, LogOut(r) \/ LogMeOutAll(r) PROVE SP!Inv1'
    <2>1. PICK n \in Names : Store!ClearSessions(r, n)
      <3>1. who[r] \in Names /\ (who[r] \in left[r] \/ (left[r] # {} => want[r] \in Names))
        BY <1>6 DEF LogOut, LogMeOutAll, Inv, Stands
      <3>2. CASE LogMeOutAll(r)
        BY <3>1, <3>2 DEF LogMeOutAll
      <3>3. CASE LogOut(r)
        <4>1. left[r] # {}
          BY <3>3 DEF LogOut, Inv, Stands
        <4>2. QED
          BY <3>1, <3>3, <4>1 DEF LogOut, ClearNext
      <3>4. QED
        BY <1>6, <3>2, <3>3
    <2>2. QED
      BY <1>3, <2>1
  <1>7. ASSUME NEW r \in Requests, StartSession(r) PROVE SP!Inv1'
    <2>1. who[r] \in Names /\ (op[r] = "username" => want[r] \in Names)
      BY <1>7 DEF StartSession, Inv, Stands
    <2>2. QED
      BY <1>i, <1>7, <2>1, StartKeeps DEF StartSession
  <1>8. ASSUME NEW r \in Requests,
               \/ \E p \in People : Login(r, p)
               \/ \E t \in Sessions : Arrive(r, t)
               \/ CheckEmail(r) \/ CheckName(r) \/ Update(r) \/ Upsert(r) \/ Commit(r) \/ CommitFails(r)
        PROVE  SP!Inv1'
    BY <1>5, <1>8 DEF Login, Arrive, Begin, CheckEmail, CheckName, Update, Upsert, Commit, CommitFails
  <1>9. QED
    BY <1>1, <1>2, <1>4, <1>5, <1>6, <1>7, <1>8 DEF Next, Step, vars, calls
-----------------------------------------------------------------------------
(* Steps *)

\* A request arrives for a name that a session or the users table gives.
LEMMA Arrivals ==
    ASSUME Inv, NEW r \in Requests,
           (\E p \in People : Login(r, p)) \/ (\E t \in Sessions : Arrive(r, t))
    PROVE  \E p \in People, n \in Names, e \in Ops, x \in Names \cup Emails \cup Sessions \cup {NoName},
              next \in {"act", "update", "load"} :
                /\ Begin(r, p, n, e, x, next)
                /\ \/ n = name[p]
                   \/ \E t \in Sessions : n = session[t] /\ p = Opener(t)
                /\ next = "act" => e \in Changes \cup {"log_me_out", "log_me_out_all"}
                /\ next = "update" => e = "data"
                /\ next = "load" => e = "login"
                /\ e = "username" => x \in Names
                /\ e = "email" => x \in Emails
                /\ e = "log_me_out" => x \in Sessions
  <1>1. ASSUME NEW p \in People, Login(r, p)
        PROVE  Begin(r, p, name[p], "login", NoName, "load") /\ name[p] \in Names
    BY <1>1 DEF Login, Inv, TypeOK
  <1>2. ASSUME NEW t \in Sessions, Arrive(r, t)
        PROVE  /\ session[t] \in Names /\ Opener(t) \in People
               /\ \/ \E e \in Emails : Begin(r, Opener(t), session[t], "email", e, "act")
                  \/ \E n \in Names : Begin(r, Opener(t), session[t], "username", n, "act")
                  \/ Begin(r, Opener(t), session[t], "data", NoName, "update")
                  \/ Begin(r, Opener(t), session[t], "log_me_out", t, "act")
                  \/ Begin(r, Opener(t), session[t], "log_me_out_all", NoName, "act")
    <2>1. session[t] # NoName /\ session[t] \in Names /\ t \in issued
      BY <1>2, CallFacts DEF Arrive
    <2>2. Opener(t) \in People
      <3>1. CASE t \in People
        BY <3>1 DEF Opener
      <3>2. CASE t \in Requests /\ t \notin People
        BY <2>1, <3>2 DEF Opener, Inv, Stands
      <3>3. QED
        BY <3>1, <3>2 DEF Sessions
    <2>3. QED
      BY <1>2, <2>1, <2>2 DEF Arrive
  <1>3. QED
    BY <1>1, <1>2 DEF Ops, Changes

\* What a request that begins changes.
LEMMA Begins ==
    ASSUME Inv, NEW r \in Requests, NEW p, NEW n, NEW e, NEW x, NEW next, Begin(r, p, n, e, x, next)
    PROVE  /\ pc[r] = "new" /\ pc' = [pc EXCEPT ![r] = next]
           /\ op' = [op EXCEPT ![r] = e] /\ who' = [who EXCEPT ![r] = n]
           /\ want' = [want EXCEPT ![r] = x] /\ caller' = [caller EXCEPT ![r] = p]
           /\ \E S \in SUBSET Sessions : /\ must' = [must EXCEPT ![r] = S]
                                         /\ \A t \in S : session[t] = n
           /\ UNCHANGED <<faults, name, mail, session, links, issued, cmd, subject, held, todo, due,
                          raced, left, row>>
  <1>1. PICK S \in SUBSET Sessions : /\ must' = [must EXCEPT ![r] = S]
                                     /\ \A t \in S : session[t] = n
    <2>1. must' = [must EXCEPT ![r] = {t \in Sessions : session[t] = n /\ e \in Changes}]
      BY DEF Begin
    <2>2. {t \in Sessions : session[t] = n /\ e \in Changes} \in SUBSET Sessions
      OBVIOUS
    <2>3. WITNESS {t \in Sessions : session[t] = n /\ e \in Changes} \in SUBSET Sessions
    <2>4. QED
      BY <2>1
  <1>2. QED
    BY <1>1 DEF Begin, Goto, tables, calls

\* A check lets the request go, refuse it or end it, and chooses the names to clear.
LEMMA Checks ==
    ASSUME Inv, NEW r \in Requests, CheckEmail(r) \/ CheckName(r)
    PROVE  \E next \in {"out", "refuse", "done", "failed"} :
             /\ pc[r] = "act" /\ pc' = [pc EXCEPT ![r] = next] /\ op[r] \in Changes
             /\ next = "refuse" => op[r] = "username"
             /\ IF next \in {"out", "refuse"}
                  THEN left' = [left EXCEPT ![r] = IF op[r] = "username" THEN {who[r], want[r]} ELSE {who[r]}]
                  ELSE left' = left
             /\ op[r] = "username" /\ next \in {"out", "refuse"} => want[r] # who[r]
             /\ UNCHANGED <<faults, name, mail, op, who, want, caller, must, row>>
             /\ UNCHANGED <<session, links, issued, cmd, subject, held, todo, due, raced>>
  <1>1. CASE CheckEmail(r)
    <2>1. \E next \in {"out", "done", "failed"} :
            /\ pc' = [pc EXCEPT ![r] = next]
            /\ IF next = "out" THEN left' = [left EXCEPT ![r] = {who[r]}] ELSE left' = left
      BY <1>1 DEF CheckEmail, Goto, Clear
    <2>2. QED
      BY <1>1, <2>1 DEF CheckEmail, tables, inputs, calls, Changes
  <1>2. CASE CheckName(r)
    <2>1. \E next \in {"out", "refuse", "done"} :
            /\ pc' = [pc EXCEPT ![r] = next]
            /\ IF next = "done" THEN left' = left
                                ELSE left' = [left EXCEPT ![r] = {who[r], want[r]}] /\ want[r] # who[r]
      BY <1>2 DEF CheckName, Goto, Clear, Touched
    <2>2. QED
      BY <1>2, <2>1 DEF CheckName, tables, inputs, calls, Changes
  <1>3. QED
    BY <1>1, <1>2

\* A write takes the row of its user, or is refused.
LEMMA Writes ==
    ASSUME Inv, NEW r \in Requests, Update(r) \/ Upsert(r)
    PROVE  \E next \in {"again", "refuse", "commit", "failed"} :
             /\ pc[r] = "update" /\ pc' = [pc EXCEPT ![r] = next]
             /\ next \in {"again", "refuse"} => op[r] \in Changes
             /\ next = "refuse" => op[r] = "username"
             /\ next = "commit" => op[r] = "data"
             /\ next # "commit" => ~InCall(r) \/ op[r] = "data"
             /\ IF next \in {"again", "refuse"}
                  THEN left' = [left EXCEPT ![r] = IF op[r] = "username" THEN {who[r], want[r]} ELSE {who[r]}]
                  ELSE left' = left
             /\ row' = row \/ (next \in {"again", "commit"} /\ \E p \in Target(r) : row' = [row EXCEPT ![r] = p])
             /\ Target(r) # {} /\ row' = row => next \notin {"again", "commit"}
             /\ UNCHANGED <<faults, name, mail, op, who, want, caller, must>>
             /\ UNCHANGED <<session, links, issued, cmd, subject, held, todo, due, raced>>
  <1>1. PICK next \in {"again", "refuse", "commit", "failed"} :
          /\ pc[r] = "update" /\ pc' = [pc EXCEPT ![r] = next]
          /\ next \in {"again", "refuse"} => op[r] \in Changes
          /\ next = "refuse" => op[r] = "username"
          /\ next = "commit" => op[r] = "data"
          /\ next # "commit" => ~InCall(r) \/ op[r] = "data"
          /\ IF next \in {"again", "refuse"}
               THEN left' = [left EXCEPT ![r] = IF op[r] = "username" THEN {who[r], want[r]} ELSE {who[r]}]
               ELSE left' = left
          /\ row' = row \/ (next \in {"again", "commit"} /\ \E p \in Target(r) : row' = [row EXCEPT ![r] = p])
          /\ next \in {"again", "commit"} /\ Target(r) # {} => \E p \in Target(r) : row' = [row EXCEPT ![r] = p]
    <2>1. CASE Update(r)
      BY <2>1 DEF Update, Clear, Goto, Touched, Changes
    <2>2. CASE Upsert(r)
      BY <2>2 DEF Upsert, Goto
    <2>3. QED
      BY <2>1, <2>2
  <1>2. UNCHANGED <<faults, name, mail, op, who, want, caller, must>>
        /\ UNCHANGED <<session, links, issued, cmd, subject, held, todo, due, raced>>
    BY DEF Update, Upsert, tables, inputs, calls
  <1>3. ASSUME NEW p \in Target(r), row' = [row EXCEPT ![r] = p] PROVE row' # row
    <2>1. row \in [Requests -> People \cup {NoOne}] /\ row[r] = NoOne /\ p # NoOne
      BY <1>1, <1>3, Nulls DEF Inv, TypeOK, Stands, Target
    <2>2. QED
      BY <1>3, <2>1
  <1>4. QED
    BY <1>1, <1>2, <1>3

\* r begins a call of the SessionManager.
Calls(r, n, c, next) ==
    /\ ~InCall(r) /\ pc' = [pc EXCEPT ![r] = next]
    /\ cmd' = [cmd EXCEPT ![r] = c] /\ subject' = [subject EXCEPT ![r] = n]
    /\ c = "drop" => /\ pc[r] = "act" /\ next = "done" /\ UNCHANGED <<left, raced>>
                     /\ held' = [held EXCEPT ![r] = want[r]] /\ todo' = [todo EXCEPT ![r] = {}]
    /\ c # "drop" => /\ n \in Names /\ held' = held /\ todo' = [todo EXCEPT ![r] = links[n]]
                     /\ Meet(n)
    /\ c = "unindex" =>
          \/ pc[r] = "act" /\ next = "done" /\ n = who[r] /\ left' = left /\ op[r] = "log_me_out_all"
          \/ /\ pc[r] \in {"out", "again", "refuse"} /\ left' = [left EXCEPT ![r] = @ \ {n}]
             /\ n \in left[r] /\ (who[r] \in left[r] => n = who[r])
             /\ next = IF left[r] # {n} THEN pc[r]
                         ELSE IF pc[r] = "out" THEN "update"
                           ELSE IF pc[r] = "again" THEN "load" ELSE "failed"
    /\ c \in {"probe", "draw"} => /\ pc[r] = "load" /\ next = "commit" /\ n = NameOf(r)
                                  /\ left' = left
    /\ UNCHANGED <<faults, name, mail, op, who, want, caller, must, row>>
    /\ UNCHANGED <<session, links, issued>>

LEMMA Callings ==
    ASSUME Inv, NEW r \in Requests,
           LogMeOut(r) \/ LogMeOutAll(r) \/ LogOut(r) \/ StartSession(r)
    PROVE  \E n \in Names \cup {NoName}, c \in {"drop", "unindex", "probe", "draw"}, next \in PCs :
              Calls(r, n, c, next)
  <1>t. /\ Stands(r) /\ left \in [Requests -> SUBSET Names]
        /\ session \in [Sessions -> Names \cup {NoName}] /\ who[r] \in Names \cup {NoName}
    BY CallFacts DEF Inv, TypeOK
  <1>1. CASE LogMeOut(r)
    <2>1. want[r] \in Sessions
      BY <1>t, <1>1 DEF LogMeOut, Stands
    <2>2. Calls(r, session[want[r]], "drop", "done")
      BY <1>1 DEF LogMeOut, Store!EndSession, Store!Goto, Store!store, Calls, InCall, Goto, tables, inputs
    <2>3. QED
      BY <1>t, <2>1, <2>2 DEF PCs
  <1>2. CASE LogMeOutAll(r)
    <2>1. who[r] \in Names
      BY <1>t, <1>2 DEF LogMeOutAll, Stands
    <2>2. Calls(r, who[r], "unindex", "done")
      BY <1>2, <2>1 DEF LogMeOutAll, Store!ClearSessions, Store!Goto, Store!store, Calls, InCall, Goto,
         tables, inputs
    <2>3. QED
      BY <2>1, <2>2 DEF PCs
  <1>3. CASE LogOut(r)
    <2>1. PICK after \in {"update", "load", "failed"} :
            /\ ClearNext(r, after)
            /\ pc[r] \in {"out", "again", "refuse"}
            /\ after = IF pc[r] = "out" THEN "update" ELSE IF pc[r] = "again" THEN "load" ELSE "failed"
      BY <1>3 DEF LogOut
    <2>2. left[r] # {} /\ left[r] \subseteq {who[r], want[r]} /\ left[r] \subseteq Names
      BY <1>t, <2>1 DEF Stands
    <2>3. PICK n \in Names : n = IF who[r] \in left[r] THEN who[r] ELSE want[r]
      BY <2>2
    <2>4. n \in left[r]
      BY <2>2, <2>3
    <2>5. /\ ~InCall(r) /\ Store!ClearSessions(r, n) /\ Meet(n)
          /\ left' = [left EXCEPT ![r] = @ \ {n}]
          /\ pc' = [pc EXCEPT ![r] = IF left[r] = {n} THEN after ELSE pc[r]]
          /\ UNCHANGED <<faults, tables, inputs, row>>
      BY <2>1, <2>3 DEF ClearNext, Goto
    <2>6. Calls(r, n, "unindex", IF left[r] = {n} THEN after ELSE pc[r])
      BY <2>1, <2>3, <2>4, <2>5 DEF Store!ClearSessions, Store!Goto, Store!store, Calls, tables, inputs
    <2>7. QED
      BY <2>1, <2>6 DEF PCs
  <1>4. CASE StartSession(r)
    <2>1. NameOf(r) \in Names
      BY <1>t, <1>4 DEF StartSession, NameOf, Stands
    <2>2. Store!StartSession(r, NameOf(r)) /\ Meet(NameOf(r))
      BY <1>4 DEF StartSession, NameOf
    <2>3. PICK c \in {"probe", "draw"} : cmd' = [cmd EXCEPT ![r] = c]
      BY <2>2 DEF Store!StartSession, Store!Goto, Store!CullNext
    <2>4. Calls(r, NameOf(r), c, "commit")
      BY <1>4, <2>1, <2>2, <2>3 DEF StartSession, Store!StartSession, Store!Goto, Calls, InCall, Goto,
         tables, inputs
    <2>5. QED
      BY <2>1, <2>4 DEF PCs
  <1>5. QED
    BY <1>1, <1>2, <1>3, <1>4

\* A command of r, for the other requests and for the sessions.
LEMMA Commands ==
    ASSUME Inv, NEW r \in Requests, Command(r)
    PROVE  /\ UNCHANGED <<faults, name, mail, op, who, want, caller, must, pc, left, row, raced>>
           /\ InCall(r)
           /\ \A q \in Requests \ {r} : /\ cmd'[q] = cmd[q] /\ subject'[q] = subject[q]
                                        /\ held'[q] = held[q] /\ todo'[q] = todo[q]
           /\ subject'[r] = IF cmd'[r] = "idle" THEN NoName ELSE subject[r]
           /\ cmd'[r] \in StartingPcs => cmd[r] \in StartingPcs
           /\ cmd'[r] \in {"drop", "detach"} => cmd[r] \in {"drop", "detach"}
           /\ cmd'[r] \in {"unindex", "purge"} => cmd[r] \in {"unindex", "purge"}
           /\ cmd'[r] = "unindex" => FALSE
           /\ cmd[r] \in {"drop", "detach"} => cmd'[r] \in {"idle", "drop", "detach"}
           /\ cmd'[r] \in {"link", "store"} => held'[r] = r
           /\ issued' = issued \/ (cmd[r] = "store" /\ cmd'[r] = "idle" /\ issued' = issued \cup {r})
           /\ \A t \in Sessions :
                \/ session'[t] \in {session[t], NoName}
                \/ t = r /\ cmd[r] = "store" /\ session'[t] = subject[r]
  <1>c. /\ cmd[r] \in {"idle", "drop", "detach", "unindex", "purge"} \cup StartingPcs
        /\ Stands(r) /\ Store!Step(r)
    BY CallFacts DEF Inv, Command
  <1>t. /\ session \in [Sessions -> Names \cup {NoName}]
        /\ cmd \in [Requests -> {"idle", "drop", "detach", "unindex", "purge"} \cup StartingPcs]
        /\ subject \in [Requests -> Names \cup {NoName}]
        /\ held \in [Requests -> Sessions \cup {NoOne}]
        /\ todo \in [Requests -> SUBSET Sessions]
    BY CallFacts
  <1>d. cmd[r] = "draw" => held'[r] = r
    BY DEF Command
  <1>h. cmd[r] \in {"link", "store"} => held[r] = r
    BY <1>c DEF Stands
  <1>0. UNCHANGED <<faults, name, mail, op, who, want, caller, must, pc, left, row, raced>>
    BY DEF Command, tables, inputs
  <1>1. CASE Store!ProbeLink(r) \/ Store!CullLink(r)
    BY <1>0, <1>1, <1>t DEF Store!ProbeLink, Store!CullLink, Store!Goto, Store!CullNext, InCall, StartingPcs
  <1>2. CASE Store!DrawToken(r) \/ Store!LinkToken(r)
    BY <1>0, <1>2, <1>t, <1>d, <1>h DEF Store!DrawToken, Store!LinkToken, Store!Goto, InCall, StartingPcs
  <1>3. CASE Store!StoreSession(r)
    BY <1>0, <1>3, <1>t, <1>h DEF Store!StoreSession, Store!Return, InCall, StartingPcs
  <1>4. CASE Store!DropSession(r)
    BY <1>0, <1>4, <1>t DEF Store!DropSession, Store!Delete, Store!Goto, Store!Return, InCall, StartingPcs
  <1>5. CASE Store!DetachToken(r)
    BY <1>0, <1>5, <1>t DEF Store!DetachToken, Store!Return, InCall, StartingPcs
  <1>6. CASE Store!DropIndex(r)
    BY <1>0, <1>6, <1>t DEF Store!DropIndex, Store!Goto, Store!Return, InCall, StartingPcs
  <1>7. CASE Store!PurgeToken(r)
    BY <1>0, <1>7, <1>t DEF Store!PurgeToken, Store!Delete, Store!Goto, Store!Return, InCall, StartingPcs
  <1>8. QED
    BY <1>c, <1>1, <1>2, <1>3, <1>4, <1>5, <1>6, <1>7 DEF Store!Step
-----------------------------------------------------------------------------
(* Types, and what a program counter says *)

\* The types that are not SessionManager's.
OwnTypes == /\ name \in [People -> Names] /\ mail \in [People -> Emails]
            /\ pc \in [Requests -> PCs] /\ op \in [Requests -> Ops]
            /\ who \in [Requests -> Names \cup {NoName}]
            /\ want \in [Requests -> Names \cup Emails \cup Sessions \cup {NoName}]
            /\ left \in [Requests -> SUBSET Names]
            /\ row \in [Requests -> People \cup {NoOne}]
            /\ caller \in [Requests -> People \cup {NoOne}]
            /\ must \in [Requests -> SUBSET Sessions]
            /\ raced \subseteq Names
            /\ faults \subseteq Faults

LEMMA Types == SP!Inv1 => (TypeOK <=> OwnTypes)
  BY DEF SP!Inv1, SP!TypeOK, SP!PCs, SP!CullPcs, SP!StartPcs, SP!ClearPcs, TypeOK, OwnTypes,
     Store!TypeOK, Store!PCs, Store!CullPcs, Store!StartPcs, Store!ClearPcs

LEMMA InvInit == Init => Inv
  <1> SUFFICES ASSUME Init PROVE Inv
    OBVIOUS
  <1>1. SP!Inv1
    BY Nulls DEF Init, SP!Inv1, SP!TypeOK, SP!LocalsOK, SP!DrawsDiffer, SP!LiveIsIssued, SP!Live,
       SP!OwnershipOK, SP!Mine, SP!PCs, SP!CullPcs, SP!StartPcs, SP!ClearPcs, Sessions
  <1>2. OwnTypes
    BY BoundsAssumption DEF Init, OwnTypes, PCs, Ops, BoundsAssumption
  <1>3. \A r \in Requests : Stands(r)
    BY Nulls DEF Init, Stands, InCall, StartingPcs, Sessions
  <1>4. QED
    BY <1>1, <1>2, <1>3, Types DEF Inv

LEMMA StandsStep == Inv /\ [Next]_vars => OwnTypes' /\ \A r \in Requests : Stands(r)'
  <1> SUFFICES ASSUME Inv, [Next]_vars PROVE OwnTypes' /\ \A r \in Requests : Stands(r)'
    OBVIOUS
  <1> USE Nulls DEF InCall
  <1>t. OwnTypes /\ \A q \in Requests : Stands(q)
    BY Types DEF Inv
  <1>c. /\ session \in [Sessions -> Names \cup {NoName}] /\ issued \subseteq Sessions
        /\ cmd \in [Requests -> {"idle", "drop", "detach", "unindex", "purge"} \cup StartingPcs]
        /\ subject \in [Requests -> Names \cup {NoName}]
        /\ held \in [Requests -> Sessions \cup {NoOne}]
        /\ \A q \in Requests : cmd[q] = "idle" => subject[q] = NoName
        /\ \A t \in Sessions : session[t] # NoName => t \in issued
        /\ \A q \in Requests : q \in Sessions
    BY CallFacts DEF Sessions
  <1>1. ASSUME NEW r \in Requests,
               (\E p \in People : Login(r, p)) \/ (\E t \in Sessions : Arrive(r, t))
        PROVE  OwnTypes' /\ \A q \in Requests : Stands(q)'
    <2>1. PICK p \in People, n \in Names, e \in Ops, x \in Names \cup Emails \cup Sessions \cup {NoName},
               next \in {"act", "update", "load"} :
                 /\ Begin(r, p, n, e, x, next)
                 /\ next = "act" => e \in Changes \cup {"log_me_out", "log_me_out_all"}
                 /\ next = "update" => e = "data"
                 /\ next = "load" => e = "login"
                 /\ e = "username" => x \in Names
                 /\ e = "email" => x \in Emails
                 /\ e = "log_me_out" => x \in Sessions
      BY <1>1, Arrivals
    <2>2. PICK S \in SUBSET Sessions :
            /\ pc[r] = "new" /\ pc' = [pc EXCEPT ![r] = next]
            /\ op' = [op EXCEPT ![r] = e] /\ who' = [who EXCEPT ![r] = n]
            /\ want' = [want EXCEPT ![r] = x] /\ caller' = [caller EXCEPT ![r] = p]
            /\ must' = [must EXCEPT ![r] = S]
            /\ UNCHANGED <<faults, name, mail, session, issued, cmd, subject, held, raced, left, row>>
      BY <2>1, Begins
    <2>3. OwnTypes'
      BY <1>t, <2>2 DEF OwnTypes, PCs
    <2>4. Stands(r)'
      <3>1. /\ session[r] = NoName /\ r \notin issued /\ left[r] = {} /\ row[r] = NoOne /\ cmd[r] = "idle"
        BY <1>t, <1>c, <2>2 DEF Stands
      <3>2. /\ pc'[r] = next /\ op'[r] = e /\ who'[r] = n /\ want'[r] = x /\ caller'[r] = p
        BY <1>t, <2>2 DEF OwnTypes
      <3>3. QED
        BY <2>1, <2>2, <3>1, <3>2 DEF Stands, StartingPcs
    <2>5. \A q \in Requests \ {r} : Stands(q)'
      BY <1>t, <2>2 DEF OwnTypes, Stands, NameOf
    <2>6. QED
      BY <2>3, <2>4, <2>5
  <1>2. ASSUME NEW r \in Requests, CheckEmail(r) \/ CheckName(r)
        PROVE  OwnTypes' /\ \A q \in Requests : Stands(q)'
    <2>1. PICK next \in {"out", "refuse", "done", "failed"} :
             /\ pc[r] = "act" /\ pc' = [pc EXCEPT ![r] = next] /\ op[r] \in Changes
             /\ next = "refuse" => op[r] = "username"
             /\ IF next \in {"out", "refuse"}
                  THEN left' = [left EXCEPT ![r] = IF op[r] = "username" THEN {who[r], want[r]} ELSE {who[r]}]
                  ELSE left' = left
             /\ UNCHANGED <<faults, name, mail, op, who, want, caller, must, row>>
             /\ UNCHANGED <<session, links, issued, cmd, subject, held, todo, due, raced>>
      BY <1>2, Checks
    <2>2. who[r] \in Names /\ (op[r] = "username" => want[r] \in Names)
      BY <1>t, <2>1 DEF Stands
    <2>3. OwnTypes'
      BY <1>t, <2>1, <2>2 DEF OwnTypes, PCs
    <2>4. \A q \in Requests \ {r} : Stands(q)'
      BY <1>t, <2>1 DEF OwnTypes, Stands, NameOf
    <2>5. Stands(r)'
      <3>1. /\ pc'[r] = next /\ left[r] = {} /\ r \notin issued /\ row[r] = NoOne
            /\ cmd[r] \notin StartingPcs
            /\ left'[r] = IF next \notin {"out", "refuse"} THEN {}
                          ELSE IF op[r] = "username" THEN {who[r], want[r]} ELSE {who[r]}
        BY <1>t, <2>1, <2>2 DEF OwnTypes, Stands
      <3>2. QED
        BY <1>t, <2>1, <3>1 DEF Stands, NameOf
    <2>6. QED
      BY <2>3, <2>4, <2>5
  <1>3. ASSUME NEW r \in Requests, Update(r) \/ Upsert(r)
        PROVE  OwnTypes' /\ \A q \in Requests : Stands(q)'
    <2>1. PICK next \in {"again", "refuse", "commit", "failed"} :
             /\ pc[r] = "update" /\ pc' = [pc EXCEPT ![r] = next]
             /\ next \in {"again", "refuse"} => op[r] \in Changes
             /\ next = "refuse" => op[r] = "username"
             /\ next = "commit" => op[r] = "data"
             /\ IF next \in {"again", "refuse"}
                  THEN left' = [left EXCEPT ![r] = IF op[r] = "username" THEN {who[r], want[r]} ELSE {who[r]}]
                  ELSE left' = left
             /\ row' = row \/ (next \in {"again", "commit"} /\ \E p \in Target(r) : row' = [row EXCEPT ![r] = p])
             /\ UNCHANGED <<faults, name, mail, op, who, want, caller, must>>
             /\ UNCHANGED <<session, links, issued, cmd, subject, held, todo, due, raced>>
      BY <1>3, Writes
    <2>2. who[r] \in Names /\ (op[r] = "username" => want[r] \in Names) /\ Target(r) \subseteq People
      BY <1>t, <2>1 DEF Stands, Target
    <2>3. OwnTypes'
      BY <1>t, <2>1, <2>2 DEF OwnTypes, PCs
    <2>4. row' = row \/ (next \in {"again", "commit"} /\ \A q \in Requests \ {r} : row'[q] = row[q])
      BY <1>t, <2>1 DEF OwnTypes
    <2>5. row[r] = NoOne /\ (r \notin issued) /\ cmd[r] \notin StartingPcs
      BY <1>t, <2>1 DEF Stands
    <2>6. Stands(r)'
      <3>1. /\ pc'[r] = next /\ left[r] = {}
            /\ left'[r] = IF next \notin {"again", "refuse"} THEN {}
                          ELSE IF op[r] = "username" THEN {who[r], want[r]} ELSE {who[r]}
        BY <1>t, <2>1, <2>2 DEF OwnTypes, Stands
      <3>2. row'[r] # NoOne => next \in {"again", "commit"}
        BY <2>4, <2>5
      <3>3. QED
        BY <1>t, <2>1, <2>5, <3>1, <3>2 DEF Stands, NameOf, Changes
    <2>7. \A q \in Requests \ {r} : Stands(q)'
      BY <1>t, <2>1, <2>4 DEF OwnTypes, Stands, NameOf
    <2>8. QED
      BY <2>3, <2>6, <2>7
  <1>4. ASSUME NEW r \in Requests, LogMeOut(r) \/ LogMeOutAll(r) \/ LogOut(r) \/ StartSession(r)
        PROVE  OwnTypes' /\ \A q \in Requests : Stands(q)'
    <2>1. PICK n \in Names \cup {NoName}, c \in {"drop", "unindex", "probe", "draw"}, next \in PCs :
             Calls(r, n, c, next)
      BY <1>4, Callings
    <2>2. raced' \subseteq Names
      BY <1>t, <2>1 DEF Calls, Meet, OwnTypes
    <2>3. left' = left \/ left' = [left EXCEPT ![r] = @ \ {n}]
      BY <2>1 DEF Calls
    <2>4. OwnTypes'
      BY <1>t, <2>1, <2>2, <2>3 DEF OwnTypes, Calls
    <2>5. Stands(r)'
      <3>1. cmd[r] = "idle" /\ cmd'[r] = c /\ subject'[r] = n /\ pc'[r] = next
        BY <1>t, <1>c, <2>1 DEF Calls, OwnTypes
      <3>2. CASE c = "drop"
        BY <1>t, <1>c, <2>1, <3>1, <3>2 DEF Calls, Stands, NameOf, StartingPcs
      <3>3. CASE c = "unindex"
        <4>1. \/ pc[r] = "act" /\ next = "done" /\ left'[r] = left[r]
              \/ /\ pc[r] \in {"out", "again", "refuse"} /\ left'[r] = left[r] \ {n}
                 /\ next = IF left[r] # {n} THEN pc[r]
                             ELSE IF pc[r] = "out" THEN "update"
                               ELSE IF pc[r] = "again" THEN "load" ELSE "failed"
          BY <1>t, <2>1, <3>3 DEF Calls, OwnTypes
        <4>2. QED
          BY <1>t, <1>c, <2>1, <3>1, <3>3, <4>1 DEF Calls, Stands, NameOf, StartingPcs, Changes
      <3>4. CASE c \in {"probe", "draw"}
        BY <1>t, <1>c, <2>1, <3>1, <3>4 DEF Calls, Stands, NameOf, StartingPcs
      <3>5. QED
        BY <3>2, <3>3, <3>4
    <2>6. \A q \in Requests \ {r} : Stands(q)'
      <3>1. \A q \in Requests \ {r} : /\ pc'[q] = pc[q] /\ cmd'[q] = cmd[q] /\ subject'[q] = subject[q]
                                      /\ left'[q] = left[q] /\ held'[q] = held[q]
        BY <1>t, <1>c, <2>1, <2>3 DEF Calls, OwnTypes
      <3>2. UNCHANGED <<op, who, want, caller, must, row, session, issued>>
        BY <2>1 DEF Calls
      <3>3. QED
        BY <1>t, <3>1, <3>2 DEF Stands, NameOf
    <2>7. QED
      BY <2>4, <2>5, <2>6
  <1>5. ASSUME NEW r \in Requests, Commit(r) \/ CommitFails(r)
        PROVE  OwnTypes' /\ \A q \in Requests : Stands(q)'
    <2>1. PICK next \in {"done", "failed"} :
            /\ pc[r] = "commit" /\ pc' = [pc EXCEPT ![r] = next] /\ cmd[r] = "idle"
            /\ row' = [row EXCEPT ![r] = NoOne]
            /\ UNCHANGED <<faults, left, op, who, want, caller, must>>
            /\ UNCHANGED <<session, issued, cmd, subject, held, raced>>
      BY <1>5 DEF Commit, CommitFails, Goto, inputs, calls
    <2>2. name' \in [People -> Names] /\ mail' \in [People -> Emails]
      <3>1. CASE Commit(r)
        BY <1>t, <3>1 DEF Commit, OwnTypes, Stands
      <3>2. CASE CommitFails(r)
        BY <1>t, <3>2 DEF CommitFails, tables, OwnTypes
      <3>3. QED
        BY <1>5, <3>1, <3>2
    <2>3. OwnTypes'
      BY <1>t, <2>1, <2>2 DEF OwnTypes, PCs
    <2>4. \A q \in Requests : Stands(q)'
      BY <1>t, <2>1 DEF OwnTypes, Stands, NameOf, StartingPcs
    <2>5. QED
      BY <2>3, <2>4
  <1>6. ASSUME NEW r \in Requests, Command(r)
        PROVE  OwnTypes' /\ \A q \in Requests : Stands(q)'
    <2>1. /\ UNCHANGED <<faults, name, mail, op, who, want, caller, must, pc, left, row, raced>>
          /\ cmd[r] # "idle"
          /\ \A q \in Requests \ {r} : /\ cmd'[q] = cmd[q] /\ subject'[q] = subject[q]
                                       /\ held'[q] = held[q]
          /\ subject'[r] = IF cmd'[r] = "idle" THEN NoName ELSE subject[r]
          /\ cmd'[r] \in StartingPcs => cmd[r] \in StartingPcs
          /\ cmd'[r] \in {"link", "store"} => held'[r] = r
          /\ issued' = issued \/ (cmd[r] = "store" /\ cmd'[r] = "idle" /\ issued' = issued \cup {r})
          /\ \A t \in Sessions :
                \/ session'[t] \in {session[t], NoName}
                \/ t = r /\ cmd[r] = "store" /\ session'[t] = subject[r]
      BY <1>6, Commands
    <2>2. OwnTypes'
      BY <1>t, <2>1 DEF OwnTypes
    <2>3. Stands(r)'
      BY <1>t, <1>c, <2>1 DEF Stands, NameOf, StartingPcs
    <2>4. \A q \in Requests \ {r} : Stands(q)'
      BY <1>t, <1>c, <2>1 DEF Stands, NameOf
    <2>5. QED
      BY <2>2, <2>3, <2>4
  <1>7. ASSUME NEW t \in Sessions, Expire(t) PROVE OwnTypes' /\ \A q \in Requests : Stands(q)'
    <2>1. /\ session' = [session EXCEPT ![t] = NoName]
          /\ UNCHANGED <<faults, name, mail, pc, op, who, want, caller, must, left, row, raced>>
          /\ UNCHANGED <<issued, cmd, subject, held>>
      BY <1>7 DEF Expire, Store!Expire, Store!Delete, tables, inputs
    <2>2. OwnTypes'
      BY <1>t, <2>1 DEF OwnTypes
    <2>3. \A q \in Requests : Stands(q)'
      BY <1>t, <1>c, <2>1 DEF Stands, NameOf
    <2>4. QED
      BY <2>2, <2>3
  <1>8. CASE UNCHANGED vars
    BY <1>t, <1>8 DEF vars, OwnTypes, Stands, NameOf
  <1>9. QED
    BY <1>1, <1>2, <1>3, <1>4, <1>5, <1>6, <1>7, <1>8 DEF Next, Step

LEMMA InvStep == Inv /\ [Next]_vars => Inv'
  <1>1. ASSUME Inv, [Next]_vars PROVE Inv'
    <2>1. SP!Inv1' /\ OwnTypes' /\ \A r \in Requests : Stands(r)'
      BY <1>1, CallsStep, StandsStep
    <2>2. TypeOK'
      BY <2>1, Types, PTL
    <2>3. QED
      BY <2>1, <2>2 DEF Inv
  <1>2. QED
    BY <1>1

\* Inv holds at all times.
LEMMA InvAlways == Spec => []Inv
  BY InvInit, InvStep, PTL DEF Spec

\* Rows, sessions, calls and requests keep their types: no session is for an email,
\* and no row gets a name that is none.
THEOREM AccountsTypeCorrect == Spec => []TypeOK
  <1>1. Inv => TypeOK
    BY DEF Inv
  <1>2. QED
    BY <1>1, InvAlways, PTL
-----------------------------------------------------------------------------
(* The sessions of a name whose calls do not overlap *)

OneCall(n) == \A q, r \in Requests : About(q, n) /\ About(r, n) => q = r

\* Each session for n is in the set of n, or the clear that took it out is about
\* to delete it.
Found(n) ==
    \A t \in Sessions : session[t] = n =>
       t \in links[n] \/ \E q \in Requests : cmd[q] = "purge" /\ subject[q] = n /\ t \in todo[q]

\* What the next command of a call about n is to do fits the set.
Fits(q, n) ==
    subject[q] = n =>
       /\ cmd[q] = "store" => q \in links[n]
       /\ cmd[q] = "unindex" => links[n] \subseteq todo[q]
       /\ cmd[q] = "purge" => links[n] = {}
       /\ cmd[q] \in {"unlink", "detach"} => session[held[q]] # n

TiesOK == \A n \in Names \ raced :
             OneCall(n) /\ Found(n) /\ \A q \in Requests : Fits(q, n)

LEMMA TiesInit == Init => TiesOK
  BY Nulls DEF Init, TiesOK, OneCall, Found, Fits, About, Sessions

\* A command of r, for the sets and for r itself.
LEMMA CommandSets ==
    ASSUME Inv, NEW r \in Requests, Command(r)
    PROVE  /\ \A n \in Names : subject[r] # n => links'[n] = links[n]
           /\ cmd[r] \notin {"unlink", "link", "detach", "unindex"} => links' = links
           /\ cmd[r] \in {"unlink", "detach"} =>
                 links'[subject[r]] = links[subject[r]] \ {held[r]} /\ session' = session
           /\ cmd[r] = "link" => links'[subject[r]] = links[subject[r]] \cup {r} /\ session' = session
           /\ cmd[r] = "unindex" =>
                 /\ links'[subject[r]] = {} /\ session' = session
                 /\ \/ todo[r] = {} /\ cmd'[r] = "idle"
                    \/ cmd'[r] = "purge" /\ todo'[r] = todo[r]
           /\ cmd[r] = "purge" =>
                 \E t0 \in todo[r] :
                    /\ session'[t0] = NoName /\ \A t \in Sessions \ {t0} : session'[t] = session[t]
                    /\ \/ todo[r] = {t0} /\ cmd'[r] = "idle"
                       \/ cmd'[r] = "purge" /\ todo'[r] = todo[r] \ {t0}
           /\ cmd'[r] = "unlink" => cmd[r] = "probe" /\ session[held'[r]] = NoName /\ session' = session
           /\ cmd'[r] = "detach" => cmd[r] = "drop" /\ session'[held'[r]] = NoName
           /\ cmd'[r] = "store" => cmd[r] = "link"
           /\ cmd'[r] = "purge" => cmd[r] \in {"unindex", "purge"}
  <1>t. /\ session \in [Sessions -> Names \cup {NoName}]
        /\ links \in [Names -> SUBSET Sessions] /\ issued \subseteq Sessions
        /\ cmd \in [Requests -> {"idle", "drop", "detach", "unindex", "purge"} \cup StartingPcs]
        /\ subject \in [Requests -> Names \cup {NoName}]
        /\ held \in [Requests -> Sessions \cup {NoOne}]
        /\ todo \in [Requests -> SUBSET Sessions]
        /\ cmd[r] \notin {"idle", "drop"} => subject[r] \in Names
        /\ cmd[r] \in {"drop", "detach"} => held[r] \in issued
        /\ cmd[r] \in {"link", "store"} => held[r] = r
    BY CallFacts DEF Inv, Stands
  <1>2. Store!Step(r)
    BY DEF Command
  <1>3. CASE Store!ProbeLink(r)
    <2>1. /\ cmd[r] = "probe" /\ UNCHANGED <<session, links>>
          /\ \/ cmd'[r] \in {"draw", "probe"}
             \/ cmd'[r] = "unlink" /\ session[held'[r]] = NoName
      BY <1>t, <1>3 DEF Store!ProbeLink, Store!Goto, Store!CullNext, Store!Live
    <2>2. QED
      BY <2>1
  <1>4. CASE Store!CullLink(r)
    BY <1>t, <1>4 DEF Store!CullLink, Store!Unlink, Store!Goto, Store!CullNext
  <1>5. CASE Store!DrawToken(r)
    BY <1>t, <1>5 DEF Store!DrawToken, Store!Goto
  <1>6. CASE Store!LinkToken(r)
    BY <1>t, <1>6 DEF Store!LinkToken, Store!Goto
  <1>7. CASE Store!StoreSession(r)
    BY <1>t, <1>7 DEF Store!StoreSession, Store!Return
  <1>8. CASE Store!DropSession(r)
    BY <1>t, <1>8 DEF Store!DropSession, Store!Delete, Store!Goto, Store!Return
  <1>9. CASE Store!DetachToken(r)
    BY <1>t, <1>9 DEF Store!DetachToken, Store!Unlink, Store!Return
  <1>10. CASE Store!DropIndex(r)
    BY <1>t, <1>10 DEF Store!DropIndex, Store!Goto, Store!Return
  <1>11. CASE Store!PurgeToken(r)
    <2>1. PICK t0 \in todo[r] :
            /\ session' = [session EXCEPT ![t0] = NoName]
            /\ IF todo[r] = {t0} THEN cmd' = [cmd EXCEPT ![r] = "idle"]
                                  ELSE /\ cmd' = [cmd EXCEPT ![r] = "purge"]
                                       /\ todo' = [todo EXCEPT ![r] = todo[r] \ {t0}]
      BY <1>11 DEF Store!PurgeToken, Store!Delete, Store!Goto, Store!Return
    <2>2. cmd[r] = "purge" /\ links' = links
      BY <1>11 DEF Store!PurgeToken
    <2>3. session'[t0] = NoName /\ \A t \in Sessions \ {t0} : session'[t] = session[t]
      BY <1>t, <2>1
    <2>4. \/ todo[r] = {t0} /\ cmd'[r] = "idle"
          \/ cmd'[r] = "purge" /\ todo'[r] = todo[r] \ {t0}
      BY <1>t, <2>1
    <2>5. QED
      BY <2>2, <2>3, <2>4
  <1>12. QED
    BY <1>2, <1>3, <1>4, <1>5, <1>6, <1>7, <1>8, <1>9, <1>10, <1>11 DEF Store!Step

\* A command leaves other calls alone, and no two about n arise.
LEMMA TiesCommand ==
    ASSUME Inv, TiesOK, NEW r \in Requests, Command(r), NEW n \in Names \ raced
    PROVE  OneCall(n)' /\ Found(n)' /\ \A q \in Requests : Fits(q, n)'
  <1>n. OneCall(n) /\ Found(n) /\ n # NoName /\ n \in Names /\ \A q \in Requests : Fits(q, n)
    BY Nulls DEF TiesOK
  <1>r. r \in Sessions /\ (cmd[r] \in {"link", "store"} => held[r] = r)
    BY DEF Inv, Stands, Sessions
  <1>f. \A q \in Requests : /\ cmd[q] = "unlink" => held[q] \in Sessions
                            /\ cmd[q] \in {"drop", "detach"} => held[q] \in issued
                            /\ cmd[q] \in {"link", "store"} => held[q] = q /\ held[q] \notin issued
    BY CallFacts DEF Inv, Stands
  <1>i. issued \subseteq Sessions
    BY CallFacts
  <1>c. /\ \A q \in Requests \ {r} : /\ cmd'[q] = cmd[q] /\ subject'[q] = subject[q]
                                     /\ held'[q] = held[q] /\ todo'[q] = todo[q]
        /\ subject'[r] = IF cmd'[r] = "idle" THEN NoName ELSE subject[r]
        /\ cmd[r] \in {"drop", "detach"} => cmd'[r] \in {"idle", "drop", "detach"}
        /\ cmd'[r] # "unindex"
        /\ \A t \in Sessions : \/ session'[t] \in {session[t], NoName}
                               \/ t = r /\ cmd[r] = "store" /\ session'[t] = subject[r]
    BY Commands
  <1>1. OneCall(n)'
    <2>1. \A q \in Requests : About(q, n)' => About(q, n)
      BY <1>n, <1>c DEF About
    <2>2. QED
      BY <1>n, <2>1 DEF OneCall
  <1>2. ASSUME NEW q \in Requests \ {r} PROVE Fits(q, n)'
    <2> SUFFICES ASSUME subject[q] = n
                 PROVE  /\ cmd[q] = "store" => q \in links'[n]
                        /\ cmd[q] = "unindex" => links'[n] \subseteq todo[q]
                        /\ cmd[q] = "purge" => links'[n] = {}
                        /\ cmd[q] \in {"unlink", "detach"} => session'[held[q]] # n
      BY <1>c DEF Fits
    <2>1. Fits(q, n)
      BY <1>n
    <2>2. cmd[q] \notin {"drop", "detach"} =>
             links'[n] = links[n] \/ (cmd[r] = "detach" /\ links'[n] = links[n] \ {held[r]})
      <3>1. CASE subject[r] # n \/ cmd[r] \in {"drop", "detach"}
        BY <1>n, <3>1, CommandSets
      <3>2. CASE subject[r] = n /\ cmd[r] \notin {"drop", "detach"}
        BY <1>n, <3>2 DEF OneCall, About
      <3>3. QED
        BY <3>1, <3>2
    <2>3. cmd[q] = "store" => q \in links'[n]
      BY <1>f, <2>1, <2>2 DEF Fits
    <2>4. cmd[q] \in {"unlink", "detach"} => session'[held[q]] # n
      <3> SUFFICES ASSUME cmd[q] \in {"unlink", "detach"} PROVE session'[held[q]] # n
        OBVIOUS
      <3>1. held[q] \in Sessions /\ session[held[q]] # n
        BY <1>f, <1>i, <2>1 DEF Fits
      <3>2. CASE held[q] = r /\ cmd[r] = "store" /\ subject[r] = n
        <4>1. cmd[q] = "unlink"
          BY <1>f, <3>2
        <4>2. QED
          BY <1>n, <3>2, <4>1 DEF OneCall, About
      <3>3. CASE ~(held[q] = r /\ cmd[r] = "store" /\ subject[r] = n)
        BY <1>n, <1>c, <3>1, <3>3
      <3>4. QED
        BY <3>2, <3>3
    <2>5. QED
      BY <2>1, <2>2, <2>3, <2>4 DEF Fits
  <1>3. Fits(r, n)'
    <2> SUFFICES ASSUME subject'[r] = n
                 PROVE  /\ cmd'[r] = "store" => r \in links'[n]
                        /\ cmd'[r] = "unindex" => links'[n] \subseteq todo'[r]
                        /\ cmd'[r] = "purge" => links'[n] = {}
                        /\ cmd'[r] \in {"unlink", "detach"} => session'[held'[r]] # n
      BY DEF Fits
    <2>1. subject[r] = n
      BY <1>n, <1>c
    <2>2. cmd'[r] = "store" => r \in links'[n]
      BY <1>n, <2>1, CommandSets
    <2>3. cmd'[r] = "purge" => links'[n] = {}
      BY <1>n, <2>1, CommandSets DEF Fits
    <2>4. cmd'[r] \in {"unlink", "detach"} => session'[held'[r]] # n
      BY <1>n, CommandSets
    <2>5. QED
      BY <1>c, <2>2, <2>3, <2>4
  <1>4. Found(n)'
    <2> SUFFICES ASSUME NEW t \in Sessions, session'[t] = n
                 PROVE  t \in links'[n]
                          \/ \E q \in Requests : cmd'[q] = "purge" /\ subject'[q] = n /\ t \in todo'[q]
      BY DEF Found
    <2>1. CASE t = r /\ cmd[r] = "store" /\ session'[t] = subject[r]
      <3>1. links' = links /\ t \in links[n]
        BY <1>n, <2>1, CommandSets DEF Fits
      <3>2. QED
        BY <3>1
    <2>2. CASE session[t] = n
      <3>1. CASE t \in links[n]
        <4>1. CASE subject[r] # n \/ cmd[r] \notin {"unlink", "detach", "unindex"}
          <5>1. links'[n] = links[n] \/ (cmd[r] = "link" /\ links'[n] = links[n] \cup {r})
            BY <1>n, <4>1, CommandSets
          <5>2. QED
            BY <3>1, <5>1
        <4>2. CASE subject[r] = n /\ cmd[r] \in {"unlink", "detach"}
          BY <1>n, <2>2, <3>1, <4>2, CommandSets DEF Fits
        <4>3. CASE subject[r] = n /\ cmd[r] = "unindex"
          <5>1. t \in todo[r]
            BY <1>n, <3>1, <4>3 DEF Fits
          <5>2. cmd'[r] = "purge" /\ todo'[r] = todo[r]
            BY <4>3, <5>1, CommandSets
          <5>3. QED
            BY <1>c, <4>3, <5>1, <5>2
        <4>4. QED
          BY <4>1, <4>2, <4>3
      <3>2. CASE t \notin links[n]
        <4>1. PICK q \in Requests : cmd[q] = "purge" /\ subject[q] = n /\ t \in todo[q]
          BY <1>n, <2>2, <3>2 DEF Found
        <4>2. CASE q # r
          BY <1>c, <4>1, <4>2
        <4>3. CASE q = r
          <5>1. PICK t0 \in todo[r] :
                  /\ session'[t0] = NoName
                  /\ \/ todo[r] = {t0} /\ cmd'[r] = "idle"
                     \/ cmd'[r] = "purge" /\ todo'[r] = todo[r] \ {t0}
            BY <4>1, <4>3, CommandSets
          <5>2. t # t0
            BY <1>n, <5>1
          <5>3. QED
            BY <1>c, <4>1, <4>3, <5>1, <5>2
        <4>4. QED
          BY <4>2, <4>3
      <3>3. QED
        BY <3>1, <3>2
    <2>3. QED
      BY <1>n, <1>c, <2>1, <2>2
  <1>5. QED
    BY <1>1, <1>2, <1>3, <1>4

\* When a clear of a name returns, no session is for the name.
LEMMA ClearReturns ==
    ASSUME Inv, TiesOK, NEW r \in Requests, Command(r), NEW n \in Names \ raced,
           cmd[r] \in {"unindex", "purge"}, subject[r] = n, cmd'[r] = "idle"
    PROVE  \A t \in Sessions : session'[t] # n
  <1>n. OneCall(n) /\ Found(n) /\ n # NoName /\ n \in Names /\ Fits(r, n)
    BY Nulls DEF TiesOK
  <1>1. \A q \in Requests : cmd[q] = "purge" /\ subject[q] = n => q = r
    BY <1>n DEF OneCall, About
  <1>2. CASE cmd[r] = "unindex"
    <2>1. session' = session /\ todo[r] = {} /\ links[n] = {}
      BY <1>n, <1>2, CommandSets DEF Fits
    <2>2. QED
      BY <1>n, <1>1, <1>2, <2>1 DEF Found
  <1>3. CASE cmd[r] = "purge"
    <2>1. PICK t0 \in todo[r] : /\ session'[t0] = NoName
                                /\ \A t \in Sessions \ {t0} : session'[t] = session[t]
                                /\ todo[r] = {t0}
      BY <1>3, CommandSets
    <2>2. links[n] = {}
      BY <1>n, <1>3 DEF Fits
    <2>3. QED
      BY <1>n, <1>1, <2>1, <2>2 DEF Found
  <1>4. QED
    BY <1>2, <1>3

LEMMA TiesStep == Inv /\ TiesOK /\ [Next]_vars => TiesOK'
  <1> SUFFICES ASSUME Inv, TiesOK, [Next]_vars, NEW n \in Names, n \notin raced'
               PROVE  OneCall(n)' /\ Found(n)' /\ \A q \in Requests : Fits(q, n)'
    BY DEF TiesOK
  <1>n. n \notin raced => OneCall(n) /\ Found(n) /\ n # NoName /\ \A q \in Requests : Fits(q, n)
    BY Nulls DEF TiesOK
  <1>1. ASSUME UNCHANGED <<session, links, cmd, subject, held, todo, raced>>
        PROVE  OneCall(n)' /\ Found(n)' /\ \A q \in Requests : Fits(q, n)'
    BY <1>n, <1>1 DEF OneCall, Found, Fits, About
  <1>2. ASSUME NEW r \in Requests, Command(r)
        PROVE  OneCall(n)' /\ Found(n)' /\ \A q \in Requests : Fits(q, n)'
    <2>1. n \notin raced
      BY <1>2, Commands
    <2>2. QED
      BY <1>2, <2>1, TiesCommand
  <1>3. ASSUME NEW r \in Requests, LogMeOut(r) \/ LogMeOutAll(r) \/ LogOut(r) \/ StartSession(r)
        PROVE  OneCall(n)' /\ Found(n)' /\ \A q \in Requests : Fits(q, n)'
    <2>1. PICK m \in Names \cup {NoName}, c \in {"drop", "unindex", "probe", "draw"}, next \in PCs :
             Calls(r, m, c, next)
      BY <1>3, Callings
    <2>2. /\ cmd[r] = "idle" /\ subject[r] = NoName
          /\ cmd' = [cmd EXCEPT ![r] = c] /\ subject' = [subject EXCEPT ![r] = m]
          /\ UNCHANGED <<session, links>>
      BY <2>1, CallFacts DEF Calls, InCall
    <2>3. \A q \in Requests \ {r} : /\ cmd'[q] = cmd[q] /\ subject'[q] = subject[q]
                                    /\ held'[q] = held[q] /\ todo'[q] = todo[q]
      BY <2>1, <2>2, CallFacts DEF Calls
    <2>4. cmd'[r] = c /\ subject'[r] = m /\ (c = "unindex" => todo'[r] = links[m])
      BY <2>1, <2>2, CallFacts DEF Calls
    <2>5. n \notin raced /\ (c # "drop" /\ m = n => \A q \in Requests : ~About(q, n))
      BY <2>1 DEF Calls, Meet
    <2>6. OneCall(n)'
      <3>1. \A q \in Requests \ {r} : About(q, n)' <=> About(q, n)
        BY <2>3 DEF About
      <3>2. About(r, n)' => c # "drop" /\ m = n
        BY <2>4 DEF About
      <3>3. QED
        BY <1>n, <2>5, <3>1, <3>2 DEF OneCall
    <2>7. Found(n)'
      <3>1. \A q \in Requests : cmd[q] = "purge" => q # r
        BY <2>2
      <3>2. QED
        BY <1>n, <2>2, <2>3, <2>5, <3>1 DEF Found
    <2>8. \A q \in Requests : Fits(q, n)'
      <3>1. \A q \in Requests \ {r} : Fits(q, n)'
        BY <1>n, <2>2, <2>3, <2>5 DEF Fits
      <3>2. Fits(r, n)'
        BY <2>2, <2>4 DEF Fits
      <3>3. QED
        BY <3>1, <3>2
    <2>9. QED
      BY <2>6, <2>7, <2>8
  <1>4. ASSUME NEW t \in Sessions, Expire(t)
        PROVE  OneCall(n)' /\ Found(n)' /\ \A q \in Requests : Fits(q, n)'
    <2>1. /\ session' = [session EXCEPT ![t] = NoName]
          /\ UNCHANGED <<links, cmd, subject, held, todo, raced>>
      BY <1>4 DEF Expire, Store!Expire, Store!Delete
    <2>2. \A s \in Sessions : session'[s] \in {session[s], NoName}
      BY <2>1, CallFacts
    <2>3. \A q \in Requests : cmd[q] \in {"unlink", "detach"} => held[q] \in Sessions
      BY CallFacts
    <2>4. OneCall(n)' /\ Found(n)'
      BY <1>n, <2>1, <2>2 DEF OneCall, Found, About
    <2>5. \A q \in Requests : Fits(q, n)'
      BY <1>n, <2>1, <2>2, <2>3 DEF Fits
    <2>6. QED
      BY <2>4, <2>5
  <1>5. ASSUME NEW r \in Requests,
               \/ \E p \in People : Login(r, p)
               \/ \E t \in Sessions : Arrive(r, t)
               \/ CheckEmail(r) \/ CheckName(r) \/ Update(r) \/ Upsert(r) \/ Commit(r) \/ CommitFails(r)
        PROVE  OneCall(n)' /\ Found(n)' /\ \A q \in Requests : Fits(q, n)'
    BY <1>1, <1>5 DEF Login, Arrive, Begin, CheckEmail, CheckName, Update, Upsert, Commit, CommitFails, calls
  <1>6. QED
    BY <1>1, <1>2, <1>3, <1>4, <1>5 DEF Next, Step, vars

LEMMA TiesAlways == Spec => []TiesOK
  BY InvAlways, TiesInit, TiesStep, PTL DEF Spec
-----------------------------------------------------------------------------
(* What a step may change *)

\* The environment stays, and history only grows.
LEMMA HistoryGrows == Inv /\ [Next]_vars => raced \subseteq raced' /\ faults' = faults
  <1> SUFFICES ASSUME Inv, [Next]_vars PROVE raced \subseteq raced' /\ faults' = faults
    OBVIOUS
  <1>1. ASSUME NEW q \in Requests,
               (\E p \in People : Login(q, p)) \/ (\E t \in Sessions : Arrive(q, t))
        PROVE  raced' = raced /\ faults' = faults
    BY <1>1 DEF Login, Arrive, Begin, calls
  <1>2. ASSUME NEW q \in Requests, Step(q) \/ CommitFails(q) PROVE faults' = faults
    BY <1>2 DEF Step, LogMeOut, LogMeOutAll, CheckEmail, CheckName, Update, Upsert, LogOut, ClearNext,
       StartSession, Commit, CommitFails, Command
  <1>3. ASSUME NEW q \in Requests, Step(q) \/ CommitFails(q) PROVE raced \subseteq raced'
    BY <1>3 DEF Step, LogMeOut, LogMeOutAll, CheckEmail, CheckName, Update, Upsert, LogOut, ClearNext,
       StartSession, Commit, CommitFails, Command, calls, Meet
  <1>4. ASSUME NEW t \in Sessions, Expire(t) PROVE UNCHANGED <<raced, faults>>
    BY <1>4 DEF Expire
  <1>5. QED
    BY <1>1, <1>2, <1>3, <1>4 DEF Next, vars

\* What a request was sent with stays, from its arrival on.
LEMMA InputsStay ==
    ASSUME Inv, [Next]_vars, NEW r \in Requests
    PROVE  \/ (\E p \in People : Login(r, p)) \/ (\E t \in Sessions : Arrive(r, t))
           \/ /\ op'[r] = op[r] /\ who'[r] = who[r] /\ want'[r] = want[r]
              /\ caller'[r] = caller[r] /\ must'[r] = must[r]
  <1>1. ASSUME NEW q \in Requests,
               (\E p \in People : Login(q, p)) \/ (\E t \in Sessions : Arrive(q, t)), q # r
        PROVE  /\ op'[r] = op[r] /\ who'[r] = who[r] /\ want'[r] = want[r]
               /\ caller'[r] = caller[r] /\ must'[r] = must[r]
    BY <1>1 DEF Login, Arrive, Begin, Inv, TypeOK
  <1>2. ASSUME NEW q \in Requests, Step(q) \/ CommitFails(q) PROVE UNCHANGED inputs
    BY <1>2 DEF Step, LogMeOut, LogMeOutAll, CheckEmail, CheckName, Update, Upsert, LogOut, ClearNext,
       StartSession, Commit, CommitFails, Command
  <1>3. ASSUME NEW t \in Sessions, Expire(t) PROVE UNCHANGED inputs
    BY <1>3 DEF Expire
  <1>4. QED
    BY <1>1, <1>2, <1>3 DEF Next, vars, inputs

\* Only the last command of start_session makes a session; all others but end them.
LEMMA SessionsGo ==
    ASSUME Inv, [Next]_vars, NEW t \in Sessions
    PROVE  /\ \/ session'[t] \in {session[t], NoName}
              \/ /\ t \in Requests \ issued /\ Command(t) /\ cmd[t] = "store"
                 /\ session'[t] = NameOf(t) /\ subject[t] = NameOf(t)
           /\ issued \subseteq issued'
  <1>1. ASSUME NEW r \in Requests, Command(r)
        PROVE  /\ \/ session'[t] \in {session[t], NoName}
                  \/ t = r /\ cmd[r] = "store" /\ session'[t] = subject[r]
               /\ issued \subseteq issued'
               /\ cmd[r] = "store" => subject[r] = NameOf(r) /\ r \notin issued
    BY <1>1, Commands DEF Inv, Stands, StartingPcs
  <1>2. ASSUME NEW x \in Sessions, Expire(x) PROVE session'[t] \in {session[t], NoName} /\ issued' = issued
    BY <1>2, CallFacts DEF Expire, Store!Expire, Store!Delete
  <1>3. ASSUME NEW r \in Requests, LogMeOut(r) \/ LogMeOutAll(r) \/ LogOut(r) \/ StartSession(r)
        PROVE  UNCHANGED <<session, issued>>
    <2>1. PICK m \in Names \cup {NoName}, c \in {"drop", "unindex", "probe", "draw"}, next \in PCs :
             Calls(r, m, c, next)
      BY <1>3, Callings
    <2>2. QED
      BY <2>1 DEF Calls
  <1>4. ASSUME NEW r \in Requests,
               \/ \E p \in People : Login(r, p)
               \/ \E x \in Sessions : Arrive(r, x)
               \/ CheckEmail(r) \/ CheckName(r) \/ Update(r) \/ Upsert(r) \/ Commit(r) \/ CommitFails(r)
        PROVE  UNCHANGED <<session, issued>>
    BY <1>4 DEF Login, Arrive, Begin, CheckEmail, CheckName, Update, Upsert, Commit, CommitFails, calls
  <1>5. QED
    BY <1>1, <1>2, <1>3, <1>4 DEF Next, Step, vars

\* r has cleared the sessions of its user, and goes on with the change or fails.
Past(r) == /\ op[r] \in Changes /\ who[r] \notin left[r]
           /\ pc[r] \in {"out", "update", "again", "refuse", "load", "commit"}
           /\ ~(cmd[r] \in {"unindex", "purge"} /\ subject[r] = who[r])

\* It gets there by the last command of such a clear.
LEMMA PastStep ==
    ASSUME Inv, [Next]_vars, NEW r \in Requests, Past(r)'
    PROVE  /\ op'[r] = op[r] /\ who'[r] = who[r] /\ want'[r] = want[r]
           /\ caller'[r] = caller[r] /\ must'[r] = must[r]
           /\ \/ Past(r)
              \/ /\ Command(r) /\ cmd[r] \in {"unindex", "purge"} /\ subject[r] = who[r]
                 /\ cmd'[r] = "idle"
  <1> USE DEF Changes
  <1>t. /\ pc \in [Requests -> PCs] /\ op \in [Requests -> Ops]
        /\ who \in [Requests -> Names \cup {NoName}] /\ left \in [Requests -> SUBSET Names]
        /\ Stands(r)
    BY DEF Inv, TypeOK
  <1>c. /\ cmd \in [Requests -> {"idle", "drop", "detach", "unindex", "purge"} \cup StartingPcs]
        /\ subject \in [Requests -> Names \cup {NoName}]
    BY CallFacts
  <1>a. ASSUME (\E p \in People : Login(r, p)) \/ (\E t \in Sessions : Arrive(r, t)) PROVE FALSE
    <2>1. PICK p \in People, n \in Names, e \in Ops, x \in Names \cup Emails \cup Sessions \cup {NoName},
               next \in {"act", "update", "load"} :
                 /\ Begin(r, p, n, e, x, next)
                 /\ next = "update" => e = "data"
                 /\ next = "load" => e = "login"
      BY <1>a, Arrivals
    <2>2. pc'[r] = next /\ op'[r] = e
      BY <1>t, <2>1, Begins
    <2>3. QED
      BY <2>1, <2>2 DEF Past
  <1>i. /\ op'[r] = op[r] /\ who'[r] = who[r] /\ want'[r] = want[r]
        /\ caller'[r] = caller[r] /\ must'[r] = must[r]
    BY <1>a, InputsStay
  <1>1. ASSUME pc'[r] = pc[r], left'[r] = left[r], cmd'[r] = cmd[r], subject'[r] = subject[r]
        PROVE  Past(r)
    BY <1>i, <1>1 DEF Past
  <1>2. ASSUME NEW q \in Requests,
               (\E p \in People : Login(q, p)) \/ (\E t \in Sessions : Arrive(q, t))
        PROVE  Past(r)
    <2>1. q # r
      BY <1>a, <1>2
    <2>2. pc'[r] = pc[r] /\ UNCHANGED <<left, cmd, subject>>
      BY <1>2, <1>t, <2>1 DEF Login, Arrive, Begin, Goto, calls
    <2>3. QED
      BY <1>1, <2>2
  <1>3. ASSUME NEW q \in Requests, CheckEmail(q) \/ CheckName(q) PROVE Past(r)
    <2>1. PICK next \in {"out", "refuse", "done", "failed"} :
             /\ pc' = [pc EXCEPT ![q] = next]
             /\ IF next \in {"out", "refuse"}
                  THEN left' = [left EXCEPT ![q] = IF op[q] = "username" THEN {who[q], want[q]} ELSE {who[q]}]
                  ELSE left' = left
             /\ UNCHANGED <<cmd, subject>>
      BY <1>3, Checks
    <2>2. CASE q = r
      BY <1>t, <1>i, <2>1, <2>2 DEF Past
    <2>3. CASE q # r
      BY <1>1, <1>t, <2>1, <2>3
    <2>4. QED
      BY <2>2, <2>3
  <1>4. ASSUME NEW q \in Requests, Update(q) \/ Upsert(q) PROVE Past(r)
    <2>1. PICK next \in {"again", "refuse", "commit", "failed"} :
             /\ pc' = [pc EXCEPT ![q] = next]
             /\ next = "commit" => op[q] = "data"
             /\ IF next \in {"again", "refuse"}
                  THEN left' = [left EXCEPT ![q] = IF op[q] = "username" THEN {who[q], want[q]} ELSE {who[q]}]
                  ELSE left' = left
             /\ UNCHANGED <<cmd, subject>>
      BY <1>4, Writes
    <2>2. CASE q = r
      BY <1>t, <1>i, <2>1, <2>2 DEF Past
    <2>3. CASE q # r
      BY <1>1, <1>t, <2>1, <2>3
    <2>4. QED
      BY <2>2, <2>3
  <1>5. ASSUME NEW q \in Requests, LogMeOut(q) \/ LogMeOutAll(q) \/ LogOut(q) \/ StartSession(q)
        PROVE  Past(r)
    <2>1. PICK m \in Names \cup {NoName}, c \in {"drop", "unindex", "probe", "draw"}, next \in PCs :
             Calls(q, m, c, next)
      BY <1>5, Callings
    <2>2. CASE q # r
      <3>1. pc'[r] = pc[r] /\ cmd'[r] = cmd[r] /\ subject'[r] = subject[r] /\ left'[r] = left[r]
        BY <1>t, <1>c, <2>1, <2>2 DEF Calls
      <3>2. QED
        BY <1>1, <3>1
    <2>3. CASE q = r
      <3>1. /\ cmd[r] = "idle" /\ pc'[r] = next /\ cmd'[r] = c /\ subject'[r] = m
        BY <1>t, <1>c, <2>1, <2>3 DEF Calls, InCall
      <3>2. CASE c = "drop"
        BY <2>1, <2>3, <3>1, <3>2 DEF Calls, Past
      <3>3. CASE c = "unindex"
        <4>1. /\ pc[r] \in {"out", "again", "refuse"} /\ left'[r] = left[r] \ {m}
              /\ who[r] \in left[r] => m = who[r]
          BY <1>t, <2>1, <2>3, <3>1, <3>3 DEF Calls, Past
        <4>2. QED
          BY <1>i, <3>1, <3>3, <4>1 DEF Past
      <3>4. CASE c \in {"probe", "draw"}
        BY <1>i, <2>1, <2>3, <3>1, <3>4 DEF Calls, Past
      <3>5. QED
        BY <3>2, <3>3, <3>4
    <2>4. QED
      BY <2>2, <2>3
  <1>6. ASSUME NEW q \in Requests, Commit(q) \/ CommitFails(q) PROVE Past(r)
    <2>1. PICK next \in {"done", "failed"} :
            pc' = [pc EXCEPT ![q] = next] /\ UNCHANGED <<left, cmd, subject>>
      BY <1>6 DEF Commit, CommitFails, Goto, calls
    <2>2. q # r
      BY <1>t, <2>1 DEF Past
    <2>3. QED
      BY <1>1, <1>t, <2>1, <2>2
  <1>7. ASSUME NEW q \in Requests, Command(q)
        PROVE  \/ Past(r)
               \/ /\ Command(r) /\ cmd[r] \in {"unindex", "purge"} /\ subject[r] = who[r]
                  /\ cmd'[r] = "idle"
    <2>1. CASE q # r
      BY <1>1, <1>7, <2>1, Commands
    <2>2. CASE q = r
      <3>1. /\ UNCHANGED <<pc, left>>
            /\ subject'[r] = IF cmd'[r] = "idle" THEN NoName ELSE subject[r]
        BY <1>7, <2>2, Commands
      <3>2. cmd[r] \in {"unindex", "purge"} => cmd'[r] \in {"purge", "idle"}
        BY <1>7, <2>2, CommandSets
      <3>3. QED
        BY <1>7, <1>i, <2>2, <3>1, <3>2 DEF Past
    <2>3. QED
      BY <2>1, <2>2
  <1>8. ASSUME NEW t \in Sessions, Expire(t) PROVE Past(r)
    BY <1>1, <1>8 DEF Expire, Store!Expire
  <1>9. CASE UNCHANGED vars
    BY <1>1, <1>9 DEF vars
  <1>10. QED
    BY <1>i, <1>2, <1>3, <1>4, <1>5, <1>6, <1>7, <1>8, <1>9 DEF Next, Step
-----------------------------------------------------------------------------
(* A change ends the sessions its user had *)

\* The sessions that a request found are for its user until they are gone, as
\* they are when it has cleared them and no other call disturbed the clear.
MustOK ==
    \A r \in Requests : \A t \in must[r] :
        /\ t \in issued /\ session[t] \in {who[r], NoName}
        /\ Past(r) /\ who[r] \notin raced => session[t] = NoName

LEMMA MustInit == Init => MustOK
  BY DEF Init, MustOK

LEMMA MustStep == Inv /\ TiesOK /\ MustOK /\ [Next]_vars => MustOK'
  <1> SUFFICES ASSUME Inv, TiesOK, MustOK, [Next]_vars, NEW r \in Requests, NEW t \in must'[r]
               PROVE  /\ t \in issued' /\ session'[t] \in {who'[r], NoName}
                      /\ Past(r)' /\ who'[r] \notin raced' => session'[t] = NoName
    BY DEF MustOK
  <1>t. must \in [Requests -> SUBSET Sessions] /\ who \in [Requests -> Names \cup {NoName}]
    BY DEF Inv, TypeOK
  <1>1. CASE (\E p \in People : Login(r, p)) \/ (\E x \in Sessions : Arrive(r, x))
    <2>1. PICK p \in People, n \in Names, e \in Ops, x \in Names \cup Emails \cup Sessions \cup {NoName},
               next \in {"act", "update", "load"} : Begin(r, p, n, e, x, next)
      BY <1>1, Arrivals
    <2>2. /\ pc[r] = "new" /\ who' = [who EXCEPT ![r] = n]
          /\ must' = [must EXCEPT ![r] = {s \in Sessions : session[s] = n /\ e \in Changes}]
          /\ UNCHANGED <<session, issued>>
      BY <2>1 DEF Begin, calls
    <2>3. t \in Sessions /\ session[t] = n /\ n # NoName
      <3>1. must'[r] = {s \in Sessions : session[s] = n /\ e \in Changes}
        BY <1>t, <2>2
      <3>2. n # NoName
        BY <2>1, Nulls
      <3>3. QED
        BY <3>1, <3>2
    <2>4. t \in issued
      BY <2>3, CallFacts
    <2>5. who'[r] = n
      BY <1>t, <2>2
    <2>6. Past(r)' => FALSE
      <3> SUFFICES ASSUME Past(r)' PROVE FALSE
        OBVIOUS
      <3>1. Past(r) \/ Command(r)
        BY PastStep
      <3>2. CASE Past(r)
        BY <2>2, <3>2 DEF Past
      <3>3. CASE Command(r)
        <4>1. InCall(r)
          BY <3>3, Commands
        <4>2. QED
          BY <2>2, <4>1 DEF Inv, Stands
      <3>4. QED
        BY <3>1, <3>2, <3>3
    <2>7. QED
      BY <2>2, <2>3, <2>4, <2>5, <2>6
  <1>2. CASE /\ op'[r] = op[r] /\ who'[r] = who[r] /\ want'[r] = want[r]
             /\ caller'[r] = caller[r] /\ must'[r] = must[r]
    <2>1. t \in must[r] /\ t \in Sessions /\ t \in issued /\ session[t] \in {who[r], NoName}
      BY <1>t, <1>2 DEF MustOK
    <2>2. session'[t] \in {session[t], NoName} /\ t \in issued'
      BY <2>1, SessionsGo
    <2>3. ASSUME Past(r)', who'[r] \notin raced' PROVE session'[t] = NoName
      <3>1. who[r] \notin raced
        BY <1>2, <2>3, HistoryGrows
      <3>2. CASE Past(r)
        BY <2>1, <2>2, <3>1, <3>2 DEF MustOK
      <3>3. CASE Command(r) /\ cmd[r] \in {"unindex", "purge"} /\ subject[r] = who[r] /\ cmd'[r] = "idle"
        <4>1. who[r] \in Names
          BY <3>3, CallFacts
        <4>2. session'[t] # who[r]
          BY <2>1, <3>1, <3>3, <4>1, ClearReturns
        <4>3. QED
          BY <2>1, <2>2, <4>2
      <3>4. QED
        BY <2>3, <3>2, <3>3, PastStep
    <2>4. QED
      BY <1>2, <2>1, <2>2, <2>3
  <1>3. QED
    BY <1>1, <1>2, InputsStay

LEMMA MustAlways == Spec => []MustOK
  BY InvAlways, TiesAlways, MustInit, MustStep, PTL DEF Spec

\* When a change of email or user name is answered 200, every session that its
\* user had when the request arrived is gone, whatever else ran meanwhile, unless
\* two calls about that user name overlapped.
THEOREM AlwaysLoggedOutEverywhere == Spec => LoggedOutEverywhere
  <1> DEFINE A == \A r \in Requests : StartSession(r) /\ op[r] \in Changes /\ who[r] \notin raced =>
                     \A t \in must[r] : session'[t] = NoName
  <1>1. ASSUME Inv, MustOK, [Next]_vars PROVE A
    <2> SUFFICES ASSUME NEW r \in Requests, StartSession(r), op[r] \in Changes, who[r] \notin raced,
                        NEW t \in must[r]
                 PROVE  session'[t] = NoName
      OBVIOUS
    <2>1. pc[r] = "load" /\ cmd[r] = "idle" /\ session' = session
      BY DEF StartSession, InCall, Store!StartSession
    <2>2. left[r] = {}
      BY <1>1, <2>1 DEF Inv, Stands
    <2>3. Past(r)
      BY <2>1, <2>2 DEF Past
    <2>4. QED
      BY <1>1, <2>1, <2>3 DEF MustOK
  <1>2. QED
    BY <1>1, InvAlways, MustAlways, PTL DEF Spec, LoggedOutEverywhere
-----------------------------------------------------------------------------
(* User names stay unique *)

\* User names are unique, and so are those that are about to be committed.
NamesUnique ==
    /\ \A p, q \in People : name[p] = name[q] => p = q
    /\ \A q, r \in Requests :
          q # r /\ row[q] # NoOne /\ row[r] # NoOne => want[q] # want[r] \/ want[r] = NoName
    /\ \A r \in Requests : row[r] # NoOne /\ op[r] = "username" =>
          \A p \in People : p # row[r] => name[p] # want[r]

LEMMA NamesInit == Init => NamesUnique
  BY DEF Init, NamesUnique

LEMMA NamesStep == Inv /\ NamesUnique /\ [Next]_vars => NamesUnique'
  <1> SUFFICES ASSUME Inv, NamesUnique, [Next]_vars PROVE NamesUnique'
    OBVIOUS
  <1> USE Nulls
  <1>t. TypeOK /\ \A q \in Requests : Stands(q)
    BY DEF Inv
  <1>1. ASSUME NEW r \in Requests,
               (\E p \in People : Login(r, p)) \/ (\E t \in Sessions : Arrive(r, t))
        PROVE  NamesUnique'
    <2>1. PICK p \in People, n \in Names, e \in Ops, x \in Names \cup Emails \cup Sessions \cup {NoName},
               next \in {"act", "update", "load"} : Begin(r, p, n, e, x, next)
      BY <1>1, Arrivals
    <2>2. /\ pc[r] = "new" /\ op' = [op EXCEPT ![r] = e] /\ want' = [want EXCEPT ![r] = x]
          /\ UNCHANGED <<name, row>>
      BY <2>1 DEF Begin, tables
    <2>3. row[r] = NoOne
      BY <1>t, <2>2 DEF Stands
    <2>4. QED
      BY <1>t, <2>2, <2>3 DEF TypeOK, NamesUnique
  <1>2. ASSUME UNCHANGED <<name, op, want, row>> PROVE NamesUnique'
    BY <1>2 DEF NamesUnique
  <1>3. ASSUME NEW r \in Requests, Update(r) \/ Upsert(r) PROVE NamesUnique'
    <2>1. UNCHANGED <<name, op, want>>
      BY <1>3 DEF Update, Upsert, tables, inputs
    <2>2. CASE row' = row
      BY <1>2, <2>1, <2>2
    <2>3. CASE row' # row
      <3>1. PICK p \in Target(r) : row' = [row EXCEPT ![r] = p]
        BY <1>3, <2>3 DEF Update, Upsert
      <3>2. \A q \in Requests \ {r} : row[q] # NoOne => want[q] # want[r] \/ want[r] = NoName
        BY <1>3 DEF Update, Upsert, Blocked, Keys
      <3>3. p \in People /\ name[p] = who[r]
        BY <3>1 DEF Target
      <3>4. op[r] = "username" => Holder(r) \ Target(r) = {}
        BY <1>3, <2>3, <3>1 DEF Update, Upsert
      <3>5. op[r] = "username" => \A q \in People : q # p => name[q] # want[r]
        BY <3>3, <3>4 DEF Holder, Target, NamesUnique
      <3>6. QED
        BY <1>t, <2>1, <3>1, <3>2, <3>3, <3>5 DEF TypeOK, NamesUnique
    <2>4. QED
      BY <2>2, <2>3
  <1>4. ASSUME NEW r \in Requests, Commit(r) PROVE NamesUnique'
    <2>1. /\ row' = [row EXCEPT ![r] = NoOne]
          /\ UNCHANGED <<op, want>>
          /\ \A p \in People : name'[p] = IF p = row[r] /\ op[r] = "username" THEN want[r] ELSE name[p]
      BY <1>4 DEF Commit, inputs
    <2>2. op[r] = "username" => want[r] # NoName
      BY <1>t DEF Stands
    <2>3. \A p, q \in People : name'[p] = name'[q] => p = q
      BY <2>1 DEF NamesUnique
    <2>4. \A q \in Requests : row'[q] # NoOne => q # r /\ row'[q] = row[q]
      BY <1>t, <2>1 DEF TypeOK
    <2>5. \A q \in Requests : row'[q] # NoOne /\ op[q] = "username" =>
             \A p \in People : p # row[q] => name'[p] # want[q]
      BY <1>t, <2>1, <2>2, <2>4 DEF NamesUnique, Stands
    <2>6. QED
      BY <2>1, <2>3, <2>4, <2>5 DEF NamesUnique
  <1>5. ASSUME NEW r \in Requests, CommitFails(r) PROVE NamesUnique'
    <2>1. row' = [row EXCEPT ![r] = NoOne] /\ UNCHANGED <<name, op, want>>
      BY <1>5 DEF CommitFails, tables, inputs
    <2>2. QED
      BY <1>t, <2>1 DEF TypeOK, NamesUnique
  <1>6. ASSUME NEW r \in Requests,
               \/ LogMeOut(r) \/ LogMeOutAll(r) \/ CheckEmail(r) \/ CheckName(r)
               \/ LogOut(r) \/ StartSession(r) \/ Command(r)
        PROVE  NamesUnique'
    BY <1>2, <1>6 DEF LogMeOut, LogMeOutAll, CheckEmail, CheckName, LogOut, ClearNext,
       StartSession, Command, tables, inputs
  <1>7. ASSUME NEW t \in Sessions, Expire(t) PROVE NamesUnique'
    BY <1>2, <1>7 DEF Expire, tables, inputs
  <1>8. CASE UNCHANGED vars
    BY <1>2, <1>8 DEF vars, tables, inputs
  <1>9. QED
    BY <1>1, <1>3, <1>4, <1>5, <1>6, <1>7, <1>8 DEF Next, Step
-----------------------------------------------------------------------------
(* Writers exclude one another *)

\* Emails are unique, and so are those that are about to be committed; an account
\* has one writer at a time.
MailsUnique ==
    /\ \A p, q \in People : mail[p] = mail[q] => p = q
    /\ \A r \in Requests : row[r] # NoOne /\ op[r] = "email" =>
          \A p \in People : p # row[r] => mail[p] # want[r]

OneWriter == \A q, r \in Requests : row[q] = row[r] /\ row[q] # NoOne => q = r

Exclusive == NamesUnique /\ MailsUnique /\ OneWriter

LEMMA NamesAlways == Spec => []NamesUnique
  BY InvAlways, NamesInit, NamesStep, PTL DEF Spec

LEMMA ExclusiveInit == Init => MailsUnique /\ OneWriter
  BY DEF Init, MailsUnique, OneWriter

\* A write that goes on found no other writer of its user's row and no holder of
\* the value it wants.
LEMMA TakesRow ==
    ASSUME Inv, NEW r \in Requests, Update(r) \/ Upsert(r), row' # row
    PROVE  \E p \in People :
             /\ row' = [row EXCEPT ![r] = p] /\ name[p] = who[r]
             /\ \A q \in Requests : row[q] # p
             /\ \A q \in Requests \ {r} : row[q] # NoOne => want[q] # want[r] \/ want[r] = NoName
             /\ op[r] = "email" => \A q \in People : mail[q] = want[r] => name[q] = who[r]
  <1>1. PICK p \in Target(r) : row' = [row EXCEPT ![r] = p]
    BY DEF Update, Upsert
  <1>2. p \in People /\ name[p] = who[r] /\ name[p] # NoName /\ p # NoOne
    BY <1>1, Nulls DEF Target, Inv, TypeOK
  <1>3. \A q \in Requests : row[q] # NoOne => Keys(q) \cap Keys(r) = {}
    BY DEF Update, Upsert, Blocked
  <1>4. \A q \in Requests : row[q] # p
    <2>1. ASSUME NEW q \in Requests, row[q] = p PROVE FALSE
      <3>1. name[p] \in Keys(q) /\ name[p] \in Keys(r)
        BY <1>2, <2>1 DEF Keys
      <3>2. QED
        BY <1>2, <1>3, <2>1, <3>1
    <2>2. QED
      BY <2>1
  <1>5. \A q \in Requests \ {r} : row[q] # NoOne => want[q] # want[r] \/ want[r] = NoName
    BY <1>3 DEF Keys
  <1>6. op[r] = "email" => \A q \in People : mail[q] = want[r] => name[q] = who[r]
    <2>1. op[r] = "email" => Holder(r) \ Target(r) = {}
      BY <1>1 DEF Update, Upsert
    <2>2. QED
      BY <2>1 DEF Holder, Target
  <1>7. QED
    BY <1>1, <1>2, <1>4, <1>5, <1>6

LEMMA ExclusiveStep == Inv /\ Exclusive /\ [Next]_vars => (MailsUnique /\ OneWriter)'
  <1> SUFFICES ASSUME Inv, Exclusive, [Next]_vars PROVE (MailsUnique /\ OneWriter)'
    OBVIOUS
  <1> USE Nulls
  <1>t. TypeOK /\ \A q \in Requests : Stands(q)
    BY DEF Inv
  <1>1. ASSUME NEW r \in Requests,
               (\E p \in People : Login(r, p)) \/ (\E t \in Sessions : Arrive(r, t))
        PROVE  (MailsUnique /\ OneWriter)'
    <2>1. PICK p \in People, n \in Names, e \in Ops, x \in Names \cup Emails \cup Sessions \cup {NoName},
               next \in {"act", "update", "load"} : Begin(r, p, n, e, x, next)
      BY <1>1, Arrivals
    <2>2. /\ pc[r] = "new" /\ op' = [op EXCEPT ![r] = e] /\ want' = [want EXCEPT ![r] = x]
          /\ UNCHANGED <<mail, row>>
      BY <2>1 DEF Begin, tables
    <2>3. row[r] = NoOne
      BY <1>t, <2>2 DEF Stands
    <2>4. QED
      BY <1>t, <2>2, <2>3 DEF TypeOK, Exclusive, MailsUnique, OneWriter
  <1>2. ASSUME UNCHANGED <<mail, op, want, row>> PROVE (MailsUnique /\ OneWriter)'
    BY <1>2 DEF Exclusive, MailsUnique, OneWriter
  <1>3. ASSUME NEW r \in Requests, Update(r) \/ Upsert(r) PROVE (MailsUnique /\ OneWriter)'
    <2>1. UNCHANGED <<mail, op, want>>
      BY <1>3 DEF Update, Upsert, tables, inputs
    <2>2. CASE row' = row
      BY <1>2, <2>1, <2>2
    <2>3. CASE row' # row
      <3>1. PICK p \in People :
              /\ row' = [row EXCEPT ![r] = p] /\ name[p] = who[r]
              /\ \A q \in Requests : row[q] # p
              /\ op[r] = "email" => \A q \in People : mail[q] = want[r] => name[q] = who[r]
        BY <1>3, <2>3, TakesRow
      <3>2. op[r] = "email" => \A q \in People : q # p => mail[q] # want[r]
        BY <3>1 DEF Exclusive, NamesUnique
      <3>3. OneWriter'
        BY <1>t, <3>1 DEF TypeOK, Exclusive, OneWriter
      <3>4. MailsUnique'
        BY <1>t, <2>1, <3>1, <3>2 DEF TypeOK, Exclusive, MailsUnique
      <3>5. QED
        BY <3>3, <3>4
    <2>4. QED
      BY <2>2, <2>3
  <1>4. ASSUME NEW r \in Requests, Commit(r) PROVE (MailsUnique /\ OneWriter)'
    <2>1. /\ row' = [row EXCEPT ![r] = NoOne]
          /\ UNCHANGED <<op, want>>
          /\ \A p \in People : mail'[p] = IF p = row[r] /\ op[r] = "email" THEN want[r] ELSE mail[p]
      BY <1>4 DEF Commit, inputs
    <2>2. op[r] = "email" => want[r] # NoName
      BY <1>t DEF Stands
    <2>3. \A q \in Requests : row'[q] # NoOne => q # r /\ row'[q] = row[q]
      BY <1>t, <2>1 DEF TypeOK
    <2>4. \A p, q \in People : mail'[p] = mail'[q] => p = q
      BY <2>1 DEF Exclusive, MailsUnique
    <2>5. \A q \in Requests : row'[q] # NoOne /\ op[q] = "email" =>
             \A p \in People : p # row[q] => mail'[p] # want[q]
      BY <1>t, <2>1, <2>2, <2>3 DEF Exclusive, MailsUnique, NamesUnique, Stands
    <2>6. QED
      BY <2>1, <2>3, <2>4, <2>5 DEF Exclusive, MailsUnique, OneWriter
  <1>5. ASSUME NEW r \in Requests, CommitFails(r) PROVE (MailsUnique /\ OneWriter)'
    <2>1. row' = [row EXCEPT ![r] = NoOne] /\ UNCHANGED <<mail, op, want>>
      BY <1>5 DEF CommitFails, tables, inputs
    <2>2. QED
      BY <1>t, <2>1 DEF TypeOK, Exclusive, MailsUnique, OneWriter
  <1>6. ASSUME NEW r \in Requests,
               \/ LogMeOut(r) \/ LogMeOutAll(r) \/ CheckEmail(r) \/ CheckName(r)
               \/ LogOut(r) \/ StartSession(r) \/ Command(r)
        PROVE  (MailsUnique /\ OneWriter)'
    BY <1>2, <1>6 DEF LogMeOut, LogMeOutAll, CheckEmail, CheckName, LogOut, ClearNext,
       StartSession, Command, tables, inputs
  <1>7. ASSUME NEW t \in Sessions, Expire(t) PROVE (MailsUnique /\ OneWriter)'
    BY <1>2, <1>7 DEF Expire, tables, inputs
  <1>8. CASE UNCHANGED vars
    BY <1>2, <1>8 DEF vars, tables, inputs
  <1>9. QED
    BY <1>1, <1>3, <1>4, <1>5, <1>6, <1>7, <1>8 DEF Next, Step

LEMMA ExclusiveAlways == Spec => []Exclusive
  <1>1. Inv /\ Exclusive /\ [Next]_vars => Exclusive'
    BY NamesStep, ExclusiveStep DEF Exclusive
  <1>2. Init => Exclusive
    BY NamesInit, ExclusiveInit DEF Exclusive
  <1>3. QED
    BY <1>1, <1>2, InvAlways, PTL DEF Spec

\* No two accounts ever share a user name or an email, although a change checks
\* the table before it writes and commits after the response, and changes of
\* several requests overlap.
UsersUnique == \A p, q \in People : name[p] = name[q] \/ mail[p] = mail[q] => p = q

THEOREM UsersStayUnique == Spec => []UsersUnique
  <1>1. Exclusive => UsersUnique
    BY DEF Exclusive, NamesUnique, MailsUnique, UsersUnique
  <1>2. QED
    BY <1>1, ExclusiveAlways, PTL

\* The tables change by commits only.
LEMMA OnlyCommits == [Next]_vars => UNCHANGED tables \/ \E r \in Requests : Commit(r)
  <1> SUFFICES ASSUME [Next]_vars, \A r \in Requests : ~Commit(r) PROVE UNCHANGED tables
    OBVIOUS
  <1>1. ASSUME NEW r \in Requests,
               (\E q \in People : Login(r, q)) \/ (\E t \in Sessions : Arrive(r, t))
        PROVE  UNCHANGED tables
    BY <1>1 DEF Login, Arrive, Begin
  <1>2. ASSUME NEW r \in Requests, Step(r) \/ CommitFails(r) PROVE UNCHANGED tables
    BY <1>2 DEF Step, LogMeOut, LogMeOutAll, CheckEmail, CheckName, Update, Upsert, LogOut, ClearNext,
       StartSession, Command, CommitFails
  <1>3. ASSUME NEW t \in Sessions, Expire(t) PROVE UNCHANGED tables
    BY <1>3 DEF Expire
  <1>4. QED
    BY <1>1, <1>2, <1>3 DEF Next, vars, tables

\* No update is lost: from a request's write until its transaction ends, no other
\* request changes the row it wrote.
NoLostUpdate ==
    [][\A r \in Requests : row[r] # NoOne /\ row'[r] = row[r] =>
          name'[row[r]] = name[row[r]] /\ mail'[row[r]] = mail[row[r]]]_vars

THEOREM NeverLosesUpdates == Spec => NoLostUpdate
  <1> DEFINE A == \A r \in Requests : row[r] # NoOne /\ row'[r] = row[r] =>
                     name'[row[r]] = name[row[r]] /\ mail'[row[r]] = mail[row[r]]
  <1>1. ASSUME Inv, OneWriter, [Next]_vars PROVE A
    <2> SUFFICES ASSUME NEW r \in Requests, row[r] # NoOne, row'[r] = row[r]
                 PROVE  name'[row[r]] = name[row[r]] /\ mail'[row[r]] = mail[row[r]]
      OBVIOUS
    <2>1. TypeOK
      BY <1>1 DEF Inv
    <2>2. ASSUME NEW q \in Requests, Commit(q)
          PROVE  name'[row[r]] = name[row[r]] /\ mail'[row[r]] = mail[row[r]]
      <3>1. q # r
        BY <2>1, <2>2 DEF Commit, TypeOK
      <3>2. row[q] # row[r] /\ row[r] \in People
        BY <1>1, <2>1, <3>1 DEF OneWriter, TypeOK
      <3>3. QED
        BY <2>2, <3>2 DEF Commit
    <2>3. CASE UNCHANGED tables
      BY <2>3 DEF tables
    <2>4. QED
      BY <1>1, <2>2, <2>3, OnlyCommits
  <1>2. QED
    BY <1>1, InvAlways, ExclusiveAlways, PTL DEF Spec, NoLostUpdate, Exclusive
-----------------------------------------------------------------------------
(* The users table is written one row and one key at a time *)

\* The row of a person.
UserRow(p) == [username |-> name[p], email |-> mail[p]]

LEMMA TableInit == Init => Table!Init
  <1> SUFFICES ASSUME Init PROVE Table!Init
    OBVIOUS
  <1>1. UserRows \in SUBSET Table!Rows
    BY DEF Init, UserRows, Table!Rows
  <1>2. \A u, v \in UserRows : u.username = v.username \/ u.email = v.email => u = v
    BY DEF Init, UserRows
  <1>3. QED
    BY <1>1, <1>2 DEF Table!Init

\* What a commit does to the table, when one row changes.
LEMMA RowReplaced ==
    ASSUME Exclusive, NEW p \in People, \A q \in People \ {p} : UserRow(q)' = UserRow(q)
    PROVE  /\ UserRow(p) \in UserRows
           /\ UserRows' = (UserRows \ {UserRow(p)}) \cup {UserRow(p)'}
  <1>1. \A q \in People \ {p} : UserRow(q) # UserRow(p)
    BY DEF UserRow, Exclusive, NamesUnique
  <1>2. UserRows = {UserRow(q) : q \in People} /\ UserRows' = {UserRow(q)' : q \in People}
    BY DEF UserRows, UserRow
  <1>3. QED
    BY <1>1, <1>2

LEMMA TableCommits ==
    ASSUME Inv, Exclusive, NEW r \in Requests, Commit(r)
    PROVE  [Table!Next]_UserRows
  <1>1. /\ \A p \in People : name'[p] = IF p = row[r] /\ op[r] = "username" THEN want[r] ELSE name[p]
        /\ \A p \in People : mail'[p] = IF p = row[r] /\ op[r] = "email" THEN want[r] ELSE mail[p]
    BY DEF Commit
  <1>2. CASE \A p \in People : name'[p] = name[p] /\ mail'[p] = mail[p]
    BY <1>2 DEF UserRows
  <1>3. CASE row[r] \in People /\ op[r] = "username" /\ name[row[r]] # want[r]
    <2>0. PICK p \in People : p = row[r]
      BY <1>3
    <2>1. /\ want[r] \in Names
          /\ UserRow(p).username = name[p] /\ UserRow(p).email = mail[p]
          /\ UserRow(p)' = [username |-> want[r], email |-> UserRow(p).email]
      BY <1>1, <1>3, <2>0 DEF Inv, Stands, UserRow
    <2>2. \A q \in People \ {p} : UserRow(q)' = UserRow(q)
      BY <1>1, <1>3, <2>0 DEF UserRow
    <2>3. \A q \in People : name[q] # want[r]
      BY <1>3, <2>0, Nulls DEF Exclusive, NamesUnique
    <2>4. Table!NameFree(want[r])
      BY <2>3 DEF Table!NameFree, UserRows
    <2>5. UserRow(p) \in UserRows /\ Table!Rename(UserRow(p), want[r])
      BY <2>1, <2>2, <2>4, RowReplaced DEF Table!Rename
    <2>6. QED
      BY <2>1, <2>5 DEF Table!Next
  <1>4. CASE row[r] \in People /\ op[r] = "email" /\ mail[row[r]] # want[r]
    <2>0. PICK p \in People : p = row[r]
      BY <1>4
    <2>1. /\ want[r] \in Emails
          /\ UserRow(p).username = name[p] /\ UserRow(p).email = mail[p]
          /\ UserRow(p)' = [username |-> UserRow(p).username, email |-> want[r]]
      BY <1>1, <1>4, <2>0 DEF Inv, Stands, UserRow
    <2>2. \A q \in People \ {p} : UserRow(q)' = UserRow(q)
      BY <1>1, <1>4, <2>0 DEF UserRow
    <2>3. \A q \in People : mail[q] # want[r]
      BY <1>4, <2>0, Nulls DEF Exclusive, MailsUnique
    <2>4. Table!EmailFree(want[r])
      BY <2>3 DEF Table!EmailFree, UserRows
    <2>5. UserRow(p) \in UserRows /\ Table!ChangeEmail(UserRow(p), want[r])
      BY <2>1, <2>2, <2>4, RowReplaced DEF Table!ChangeEmail
    <2>6. QED
      BY <2>1, <2>5 DEF Table!Next
  <1>5. QED
    BY <1>1, <1>2, <1>3, <1>4

\* A step of Accounts is a step of the users table or none of its business.
LEMMA TableStep == Inv /\ Exclusive /\ [Next]_vars => [Table!Next]_UserRows
  <1> SUFFICES ASSUME Inv, Exclusive, [Next]_vars PROVE [Table!Next]_UserRows
    OBVIOUS
  <1>1. CASE \E r \in Requests : Commit(r)
    BY <1>1, TableCommits
  <1>2. CASE UNCHANGED tables
    BY <1>2 DEF tables, UserRows
  <1>3. QED
    BY <1>1, <1>2, OnlyCommits

\* Changes of user names and emails implement the users table: each is a check, a
\* write and a commit that interleave with those of others, and all that anybody
\* sees of it is one key of one row going to a value that nobody has.
THEOREM UserTableImplemented == Spec => ImplementsUserTable
  <1>1. Spec => [](Inv /\ Exclusive)
    BY InvAlways, ExclusiveAlways, PTL
  <1>2. QED
    BY <1>1, TableInit, TableStep, PTL DEF Spec, ImplementsUserTable, Table!Spec
-----------------------------------------------------------------------------
(* Every request comes to its end *)

\* Requests never all wait: who is waited for has written, and writes once.
THEOREM NeverAllWait == Spec => []NotAllWait
  <1>1. Inv => NotAllWait
    <2> SUFFICES ASSUME Inv, NEW r \in Requests, Under(r)
                 PROVE  \E q \in Requests : Under(q) /\ ~Waits(q)
      BY DEF NotAllWait
    <2>1. CASE ~Waits(r)
      BY <2>1
    <2>2. CASE Waits(r)
      <3>1. PICK q \in Requests : row[q] # NoOne
        BY <2>2 DEF Waits, Blocked
      <3>2. pc[q] \in {"again", "load", "commit"}
        BY <3>1 DEF Inv, Stands
      <3>3. QED
        BY <3>2 DEF Under, Waits
    <2>3. QED
      BY <2>1, <2>2
  <1>2. QED
    BY <1>1, InvAlways, PTL

\* How many names a request is still to clear.
Clears(r) == (IF who[r] \in left[r] THEN 1 ELSE 0)
           + (IF want[r] \in left[r] /\ want[r] # who[r] THEN 1 ELSE 0)

\* How many steps a request has left at most, the commands of its calls aside.
Left(r) == CASE pc[r] = "new" -> 9 [] pc[r] = "act" -> 8 [] pc[r] = "out" -> 5 + Clears(r)
             [] pc[r] = "update" -> 5 [] pc[r] = "again" -> 2 + Clears(r) [] pc[r] = "load" -> 2
             [] pc[r] = "commit" -> 1 [] pc[r] = "refuse" -> Clears(r) [] OTHER -> 0

\* A step of r brings r nearer to its end, and no other request.
LEMMA Nearer ==
    ASSUME Inv, NEW r \in Requests,
           \/ \E p \in People : Login(r, p)
           \/ \E t \in Sessions : Arrive(r, t)
           \/ Step(r) /\ ~Command(r)
           \/ CommitFails(r)
    PROVE  /\ Left(r)' < Left(r)
           /\ \A q \in Requests \ {r} : Left(q)' = Left(q)
  <1>t. /\ pc \in [Requests -> PCs] /\ who \in [Requests -> Names \cup {NoName}]
        /\ want \in [Requests -> Names \cup Emails \cup Sessions \cup {NoName}]
        /\ left \in [Requests -> SUBSET Names] /\ Stands(r)
    BY DEF Inv, TypeOK
  <1>1. ASSUME (\E p \in People : Login(r, p)) \/ (\E t \in Sessions : Arrive(r, t))
        PROVE  Left(r)' < Left(r) /\ \A q \in Requests \ {r} : Left(q)' = Left(q)
    <2>1. PICK p \in People, n \in Names, e \in Ops, x \in Names \cup Emails \cup Sessions \cup {NoName},
               next \in {"act", "update", "load"} : Begin(r, p, n, e, x, next)
      BY <1>1, Arrivals
    <2>2. /\ pc[r] = "new" /\ pc' = [pc EXCEPT ![r] = next] /\ left' = left
          /\ who' = [who EXCEPT ![r] = n] /\ want' = [want EXCEPT ![r] = x]
      BY <2>1 DEF Begin, Goto
    <2>3. QED
      BY <1>t, <2>1, <2>2 DEF Left, Clears
  <1>2. ASSUME CheckEmail(r) \/ CheckName(r)
        PROVE  Left(r)' < Left(r) /\ \A q \in Requests \ {r} : Left(q)' = Left(q)
    <2>1. PICK next \in {"out", "refuse", "done", "failed"} :
            /\ pc[r] = "act" /\ pc' = [pc EXCEPT ![r] = next] /\ UNCHANGED <<who, want>>
            /\ \A q \in Requests \ {r} : left'[q] = left[q]
      BY <1>t, <1>2, Checks
    <2>2. QED
      BY <1>t, <2>1 DEF Left, Clears
  <1>3. ASSUME Update(r) \/ Upsert(r)
        PROVE  Left(r)' < Left(r) /\ \A q \in Requests \ {r} : Left(q)' = Left(q)
    <2>1. PICK next \in {"again", "refuse", "commit", "failed"} :
            /\ pc[r] = "update" /\ pc' = [pc EXCEPT ![r] = next] /\ UNCHANGED <<who, want>>
            /\ \A q \in Requests \ {r} : left'[q] = left[q]
      BY <1>t, <1>3, Writes
    <2>2. QED
      BY <1>t, <2>1 DEF Left, Clears
  <1>4. ASSUME LogMeOut(r) \/ LogMeOutAll(r) \/ LogOut(r) \/ StartSession(r)
        PROVE  Left(r)' < Left(r) /\ \A q \in Requests \ {r} : Left(q)' = Left(q)
    <2>1. PICK n \in Names \cup {NoName}, c \in {"drop", "unindex", "probe", "draw"}, next \in PCs :
             Calls(r, n, c, next)
      BY <1>4, Callings
    <2>2. pc' = [pc EXCEPT ![r] = next] /\ UNCHANGED <<who, want>>
      BY <2>1 DEF Calls
    <2>3. \A q \in Requests \ {r} : left'[q] = left[q]
      BY <1>t, <2>1 DEF Calls
    <2>4. \A q \in Requests \ {r} : Left(q)' = Left(q)
      BY <1>t, <2>2, <2>3 DEF Left, Clears
    <2>5. CASE pc[r] = "act" /\ next = "done"
      BY <1>t, <2>2, <2>4, <2>5 DEF Left
    <2>6. CASE pc[r] = "load" /\ next = "commit"
      BY <1>t, <2>2, <2>4, <2>6 DEF Left
    <2>7. CASE /\ pc[r] \in {"out", "again", "refuse"} /\ left' = [left EXCEPT ![r] = @ \ {n}]
               /\ n \in left[r]
               /\ next = IF left[r] # {n} THEN pc[r]
                           ELSE IF pc[r] = "out" THEN "update"
                             ELSE IF pc[r] = "again" THEN "load" ELSE "failed"
      <3>1. n \in {who[r], want[r]}
        BY <1>t, <2>7 DEF Stands
      <3>2. left'[r] = left[r] \ {n}
        BY <1>t, <2>7
      <3>3. Clears(r)' = Clears(r) - 1 /\ Clears(r) \in 1 .. 2
        BY <2>2, <2>7, <3>1, <3>2 DEF Clears
      <3>4. pc'[r] = next
        BY <1>t, <2>2
      <3>5. QED
        BY <2>4, <2>7, <3>3, <3>4 DEF Left
    <2>8. QED
      BY <2>1, <2>5, <2>6, <2>7 DEF Calls
  <1>5. ASSUME Commit(r) \/ CommitFails(r)
        PROVE  Left(r)' < Left(r) /\ \A q \in Requests \ {r} : Left(q)' = Left(q)
    <2>1. PICK next \in {"done", "failed"} :
            /\ pc[r] = "commit" /\ pc' = [pc EXCEPT ![r] = next] /\ UNCHANGED <<who, want, left>>
      BY <1>5 DEF Commit, CommitFails, Goto, inputs
    <2>2. QED
      BY <1>t, <2>1 DEF Left, Clears
  <1>6. QED
    BY <1>1, <1>2, <1>3, <1>4, <1>5 DEF Step

\* Each step of a request brings it nearer to its end, and nothing sets it back:
\* besides the commands of its calls, a request has at most nine steps, whatever
\* the others do.
OnlyForward ==
    [][\A r \in Requests : /\ Left(r)' <= Left(r)
                           /\ (Step(r) /\ ~Command(r)) \/ CommitFails(r) => Left(r)' < Left(r)]_vars

THEOREM AlwaysForward == Spec => OnlyForward
  <1> DEFINE A == \A r \in Requests :
                     /\ Left(r)' <= Left(r)
                     /\ (Step(r) /\ ~Command(r)) \/ CommitFails(r) => Left(r)' < Left(r)
  <1>1. ASSUME Inv, [Next]_vars PROVE A
    <2> SUFFICES ASSUME NEW r \in Requests
                 PROVE  /\ Left(r)' <= Left(r)
                        /\ (Step(r) /\ ~Command(r)) \/ CommitFails(r) => Left(r)' < Left(r)
      OBVIOUS
    <2>1. (Step(r) /\ ~Command(r)) \/ CommitFails(r) => Left(r)' < Left(r)
      BY <1>1, Nearer
    <2>2. Left(r) \in Nat
      BY DEF Left, Clears
    <2>3. ASSUME NEW q \in Requests,
                 \/ \E p \in People : Login(q, p)
                 \/ \E t \in Sessions : Arrive(q, t)
                 \/ Step(q) /\ ~Command(q)
                 \/ CommitFails(q)
          PROVE  Left(r)' <= Left(r)
      <3>1. Left(q)' < Left(q) /\ \A x \in Requests \ {q} : Left(x)' = Left(x)
        BY <1>1, <2>3, Nearer
      <3>2. Left(r)' \in Nat
        BY DEF Left, Clears
      <3>3. QED
        BY <2>2, <3>1, <3>2
    <2>4. ASSUME UNCHANGED <<pc, who, want, left>> PROVE Left(r)' <= Left(r)
      <3>1. Left(r)' = Left(r)
        BY <2>4 DEF Left, Clears
      <3>2. QED
        BY <2>2, <3>1
    <2>5. ASSUME NEW q \in Requests, Command(q) PROVE UNCHANGED <<pc, who, want, left>>
      BY <1>1, <2>5, Commands
    <2>6. QED
      BY <1>1, <2>1, <2>3, <2>4, <2>5 DEF Next, Expire, vars, inputs
  <1>2. QED
    BY <1>1, InvAlways, PTL DEF Spec, OnlyForward
-----------------------------------------------------------------------------
(* A person's own sessions and row *)

\* The requests of a person do not overlap, all that goes by a user name goes to
\* the person who has it, and a request that has cleared its user's sessions leaves
\* none for that name but its own.
OwnOK ==
    /\ \A q, r \in Requests : q # r /\ Under(q) /\ Under(r) => caller[q] # caller[r]
    /\ \A r \in Requests :
          /\ Under(r) => who[r] = name[caller[r]]
          /\ row[r] \in {caller[r], NoOne}
          /\ pc[r] \in {"again", "load", "commit"} /\ op[r] \in Changes => row[r] = caller[r]
          /\ Past(r) => \A t \in Sessions \ {r} : session[t] # who[r]
    /\ \A t \in Sessions : session[t] # NoName =>
          \/ session[t] = name[Opener(t)]
          \/ t \in Requests /\ op[t] = "username" /\ session[t] = want[t] /\ row[t] = caller[t]

Own == faults = {} /\ raced = {} => OwnOK

LEMMA OwnInit == Init => Own
  BY Nulls DEF Init, Own, OwnOK, Under, InCall, Past, Opener, Sessions

\* A new session is for the name of the request that stores it, or for the one that
\* the request is about to give.
LEMMA StoredFor ==
    ASSUME Inv, OwnOK, [Next]_vars, NEW t \in Sessions, session'[t] \notin {session[t], NoName}
    PROVE  /\ t \in Requests /\ Under(t) /\ caller[t] \in People /\ Command(t)
           /\ op[t] = "username" => session'[t] = want[t] /\ row[t] = caller[t]
           /\ op[t] # "username" => session'[t] = name[caller[t]]
  <1>1. /\ t \in Requests /\ Command(t) /\ cmd[t] = "store" /\ session'[t] = NameOf(t)
    BY SessionsGo
  <1>2. Stands(t)
    BY <1>1 DEF Inv
  <1>3. pc[t] = "commit" /\ op[t] \in Changes \cup {"login"} /\ caller[t] \in People
    BY <1>1, <1>2 DEF Stands, StartingPcs
  <1>4. Under(t)
    BY <1>3 DEF Under
  <1>5. QED
    BY <1>1, <1>3, <1>4 DEF OwnOK, NameOf, Changes

\* Whatever happens meanwhile, no session is for the name whose sessions r cleared.
LEMMA PastStays ==
    ASSUME Inv, TiesOK, NamesUnique, OwnOK, raced = {}, [Next]_vars,
           NEW r \in Requests, Past(r)', NEW t \in Sessions \ {r}
    PROVE  session'[t] # who'[r]
  <1>1. who'[r] = who[r]
    BY PastStep
  <1>2. CASE Past(r)
    <2>1. Under(r) /\ pc[r] # "new"
      BY <1>2 DEF Past, Under
    <2>2. /\ who[r] = name[caller[r]] /\ caller[r] \in People /\ who[r] # NoName
          /\ session[t] # who[r]
      BY <1>2, <2>1, Nulls DEF OwnOK, Inv, Stands
    <2>3. CASE session'[t] \in {session[t], NoName}
      BY <1>1, <2>2, <2>3
    <2>4. CASE session'[t] \notin {session[t], NoName}
      <3>1. /\ t \in Requests /\ Under(t) /\ caller[t] \in People
            /\ op[t] = "username" => session'[t] = want[t] /\ row[t] = caller[t]
            /\ op[t] # "username" => session'[t] = name[caller[t]]
        BY <2>4, StoredFor
      <3>2. caller[t] # caller[r]
        BY <2>1, <3>1 DEF OwnOK
      <3>3. CASE op[t] = "username"
        BY <1>1, <2>2, <3>1, <3>2, <3>3, Nulls DEF NamesUnique
      <3>4. CASE op[t] # "username"
        BY <1>1, <2>2, <3>1, <3>2, <3>4 DEF NamesUnique
      <3>5. QED
        BY <3>3, <3>4
    <2>5. QED
      BY <2>3, <2>4
  <1>3. CASE Command(r) /\ cmd[r] \in {"unindex", "purge"} /\ subject[r] = who[r] /\ cmd'[r] = "idle"
    <2>1. who[r] \in Names \ raced
      BY <1>3, CallFacts
    <2>2. QED
      BY <1>1, <1>3, <2>1, ClearReturns
  <1>4. QED
    BY <1>2, <1>3, PastStep

\* OwnOK stays when requests go on and neither rows nor tables change.
LEMMA OwnGoesOn ==
    ASSUME Inv, TiesOK, NamesUnique, OwnOK, raced = {}, [Next]_vars,
           UNCHANGED <<name, op, who, want, caller, row>>,
           \A q \in Requests :
              /\ Under(q)' => Under(q)
              /\ pc'[q] \in {"again", "load", "commit"} => pc[q] \in {"again", "load", "commit"}
    PROVE  OwnOK'
  <1>1. \A t \in Sessions : Opener(t)' = Opener(t)
    BY DEF Opener
  <1>2. ASSUME NEW t \in Sessions, session'[t] # NoName
        PROVE  \/ session'[t] = name[Opener(t)]
               \/ t \in Requests /\ op[t] = "username" /\ session'[t] = want[t] /\ row[t] = caller[t]
    <2>1. CASE session'[t] \in {session[t], NoName}
      BY <1>2, <2>1 DEF OwnOK
    <2>2. CASE session'[t] \notin {session[t], NoName}
      <3>1. /\ t \in Requests
            /\ op[t] = "username" => session'[t] = want[t] /\ row[t] = caller[t]
            /\ op[t] # "username" => session'[t] = name[caller[t]]
        BY <2>2, StoredFor
      <3>2. Opener(t) = caller[t]
        BY <3>1, Nulls DEF Opener
      <3>3. QED
        BY <3>1, <3>2
    <2>3. QED
      BY <2>1, <2>2
  <1>3. \A q \in Requests : Past(q)' => \A t \in Sessions \ {q} : session'[t] # who'[q]
    BY PastStays
  <1>4. QED
    BY <1>1, <1>2, <1>3 DEF OwnOK

LEMMA OwnArrives ==
    ASSUME Inv, TiesOK, NamesUnique, OwnOK, raced = {}, faults = {}, [Next]_vars, NEW r \in Requests,
           (\E p \in People : Login(r, p)) \/ (\E t \in Sessions : Arrive(r, t))
    PROVE  OwnOK'
  <1>t. TypeOK /\ \A q \in Requests : Stands(q) /\ q \in Sessions
    BY DEF Inv, Sessions
  <1>1. PICK p \in People, n \in Names, e \in Ops, x \in Names \cup Emails \cup Sessions \cup {NoName},
             next \in {"act", "update", "load"} :
               /\ Begin(r, p, n, e, x, next)
               /\ \/ n = name[p]
                  \/ \E t \in Sessions : n = session[t] /\ p = Opener(t)
               /\ next = "load" => e = "login"
    BY Arrivals
  <1>2. /\ pc[r] = "new" /\ pc' = [pc EXCEPT ![r] = next]
        /\ op' = [op EXCEPT ![r] = e] /\ who' = [who EXCEPT ![r] = n]
        /\ want' = [want EXCEPT ![r] = x] /\ caller' = [caller EXCEPT ![r] = p]
        /\ UNCHANGED <<name, session, cmd, row>>
    BY <1>1 DEF Begin, Goto, tables, calls
  <1>3. session[r] = NoName /\ row[r] = NoOne
    <2>1. r \notin issued /\ row[r] = NoOne
      BY <1>t, <1>2 DEF Stands
    <2>2. QED
      BY <1>t, <2>1, CallFacts
  <1>4. \A q \in Requests : Under(q) => caller[q] # p
    BY <1>1 DEF Begin, Free
  <1>5. \A q \in Requests : row[q] # NoOne => Under(q)
    BY <1>t DEF Stands, Under
  <1>6. n = name[p]
    <2>1. ASSUME NEW t \in Sessions, n = session[t], p = Opener(t) PROVE n = name[p]
      <3>1. n # NoName
        BY <1>1, Nulls
      <3>2. CASE t \in Requests /\ row[t] = caller[t]
        BY <1>1, <1>4, <1>5, <2>1, <3>2, Nulls DEF Opener
      <3>3. QED
        BY <2>1, <3>1, <3>2 DEF OwnOK
    <2>2. QED
      BY <1>1, <2>1
  <1>7. \A t \in Sessions : t # r => Opener(t)' = Opener(t)
    BY <1>t, <1>2 DEF Opener, TypeOK, Sessions
  <1>8. \A q \in Requests \ {r} :
          /\ pc'[q] = pc[q] /\ op'[q] = op[q] /\ who'[q] = who[q]
          /\ want'[q] = want[q] /\ caller'[q] = caller[q] /\ (Under(q)' <=> Under(q))
    BY <1>t, <1>2 DEF TypeOK, Under, InCall
  <1>9. pc'[r] = next /\ op'[r] = e /\ who'[r] = n /\ caller'[r] = p
    BY <1>t, <1>2 DEF TypeOK
  <1>10. \A q, s \in Requests : q # s /\ Under(q)' /\ Under(s)' => caller'[q] # caller'[s]
    BY <1>4, <1>8, <1>9 DEF OwnOK
  <1>11. ASSUME NEW q \in Requests
         PROVE  /\ Under(q)' => who'[q] = name[caller'[q]]
                /\ row[q] \in {caller'[q], NoOne}
                /\ pc'[q] \in {"again", "load", "commit"} /\ op'[q] \in Changes => row[q] = caller'[q]
    <2>1. CASE q = r
      BY <1>1, <1>3, <1>6, <1>9, <2>1 DEF Changes
    <2>2. CASE q # r
      BY <1>3, <1>7, <1>8, <2>2 DEF OwnOK
    <2>3. QED
      BY <2>1, <2>2
  <1>12. ASSUME NEW t \in Sessions, session[t] # NoName
         PROVE  \/ session[t] = name[Opener(t)']
                \/ t \in Requests /\ op'[t] = "username" /\ session[t] = want'[t] /\ row[t] = caller'[t]
    BY <1>3, <1>7, <1>8, <1>12 DEF OwnOK
  <1>13. \A q \in Requests : Past(q)' => \A t \in Sessions \ {q} : session'[t] # who'[q]
    BY PastStays
  <1>14. QED
    BY <1>2, <1>10, <1>11, <1>12, <1>13 DEF OwnOK

LEMMA OwnWrites ==
    ASSUME Inv, TiesOK, NamesUnique, OwnOK, raced = {}, [Next]_vars, NEW r \in Requests,
           Update(r) \/ Upsert(r)
    PROVE  OwnOK'
  <1>t. TypeOK /\ \A q \in Requests : Stands(q) /\ q \in Sessions
    BY DEF Inv, Sessions
  <1>1. PICK next \in {"again", "refuse", "commit", "failed"} :
          /\ pc[r] = "update" /\ pc' = [pc EXCEPT ![r] = next]
          /\ next = "commit" => op[r] = "data"
          /\ row' = row \/ (next \in {"again", "commit"} /\ \E p \in Target(r) : row' = [row EXCEPT ![r] = p])
          /\ Target(r) # {} /\ row' = row => next \notin {"again", "commit"}
          /\ UNCHANGED <<faults, name, mail, op, who, want, caller, must>>
          /\ UNCHANGED <<session, links, issued, cmd, subject, held, todo, due, raced>>
    BY Writes
  <1>2. Under(r) /\ caller[r] \in People /\ who[r] = name[caller[r]]
    BY <1>t, <1>1 DEF Stands, Under, OwnOK
  <1>3. Target(r) = {caller[r]}
    BY <1>2 DEF Target, NamesUnique
  <1>4. row' = row \/ row' = [row EXCEPT ![r] = caller[r]]
    BY <1>1, <1>3
  <1>5. /\ next \in {"again", "commit"} => row'[r] = caller[r]
        /\ row'[r] \in {caller[r], NoOne}
        /\ \A q \in Requests \ {r} : row'[q] = row[q]
    BY <1>t, <1>1, <1>3, <1>4 DEF TypeOK, OwnOK
  <1>6. /\ pc'[r] = next /\ \A q \in Requests \ {r} : pc'[q] = pc[q]
        /\ \A q \in Requests : Under(q)' => Under(q)
        /\ \A t \in Sessions : Opener(t)' = Opener(t)
    BY <1>t, <1>1, <1>2 DEF TypeOK, Under, InCall, Opener
  <1>7. session[r] = NoName
    BY <1>t, <1>1, CallFacts DEF Stands
  <1>8. ASSUME NEW q \in Requests
        PROVE  /\ Under(q)' => who[q] = name[caller[q]]
               /\ row'[q] \in {caller[q], NoOne}
               /\ pc'[q] \in {"again", "load", "commit"} /\ op[q] \in Changes => row'[q] = caller[q]
    <2>1. CASE q = r
      BY <1>1, <1>2, <1>5, <1>6, <2>1
    <2>2. CASE q # r
      BY <1>1, <1>5, <1>6, <2>2 DEF OwnOK
    <2>3. QED
      BY <2>1, <2>2
  <1>9. ASSUME NEW t \in Sessions, session[t] # NoName
        PROVE  \/ session[t] = name[Opener(t)]
               \/ t \in Requests /\ op[t] = "username" /\ session[t] = want[t] /\ row'[t] = caller[t]
    BY <1>5, <1>7, <1>9 DEF OwnOK
  <1>10. \A q, s \in Requests : q # s /\ Under(q)' /\ Under(s)' => caller[q] # caller[s]
    BY <1>6 DEF OwnOK
  <1>11. \A q \in Requests : Past(q)' => \A t \in Sessions \ {q} : session'[t] # who'[q]
    BY PastStays
  <1>12. QED
    BY <1>1, <1>6, <1>8, <1>9, <1>10, <1>11 DEF OwnOK

LEMMA OwnCommits ==
    ASSUME Inv, TiesOK, NamesUnique, OwnOK, raced = {}, [Next]_vars, NEW r \in Requests, Commit(r)
    PROVE  OwnOK'
  <1>t. TypeOK /\ \A q \in Requests : Stands(q) /\ q \in Sessions
    BY DEF Inv, Sessions
  <1>1. /\ pc[r] = "commit" /\ cmd[r] = "idle" /\ pc' = [pc EXCEPT ![r] = "done"]
        /\ row' = [row EXCEPT ![r] = NoOne]
        /\ \A p \in People : name'[p] = IF p = row[r] /\ op[r] = "username" THEN want[r] ELSE name[p]
        /\ UNCHANGED <<session, cmd, op, who, want, caller>>
    BY DEF Commit, Goto, InCall, inputs, calls
  <1>2. /\ \A q \in Requests : Under(q)' <=> Under(q) /\ q # r
        /\ \A q \in Requests : pc'[q] \in {"again", "load", "commit"} =>
                                  q # r /\ pc[q] \in {"again", "load", "commit"}
        /\ \A q \in Requests : row'[q] = IF q = r THEN NoOne ELSE row[q]
        /\ \A t \in Sessions : Opener(t)' = Opener(t)
        /\ Under(r)
    BY <1>t, <1>1 DEF TypeOK, Under, InCall, Opener
  <1>3. row[r] \in {caller[r], NoOne} /\ caller[r] \in People /\ who[r] = name[caller[r]]
    BY <1>t, <1>1, <1>2 DEF OwnOK, Stands
  <1>4. ASSUME NEW q \in Requests, Under(q), q # r PROVE who[q] = name'[caller[q]]
    <2>1. caller[q] \in People
      BY <1>t, <1>4 DEF Stands, Under
    <2>2. caller[q] # row[r]
      BY <1>2, <1>3, <1>4, <2>1, Nulls DEF OwnOK
    <2>3. QED
      BY <1>1, <1>4, <2>1, <2>2 DEF OwnOK
  <1>5. ASSUME NEW t \in Sessions, session[t] # NoName
        PROVE  \/ session[t] = name'[Opener(t)]
               \/ t \in Requests /\ op[t] = "username" /\ session[t] = want[t] /\ row'[t] = caller[t]
    <2>1. Opener(t) \in People
      <3>1. t \in issued
        BY <1>5, CallFacts
      <3>2. CASE t \in People
        BY <3>2 DEF Opener
      <3>3. CASE t \in Requests /\ t \notin People
        BY <1>t, <3>1, <3>3 DEF Stands, Opener
      <3>4. QED
        BY <3>2, <3>3 DEF Sessions
    <2>2. CASE t = r
      <3>1. Opener(r) = caller[r]
        BY Nulls DEF Opener
      <3>2. op[r] = "username" => session[r] = want[r] /\ row[r] = caller[r]
        BY <1>t, <1>1, <1>5, <2>2 DEF Stands, NameOf, OwnOK, Changes
      <3>3. CASE op[r] = "username"
        BY <1>1, <1>3, <2>2, <3>1, <3>2, <3>3
      <3>4. CASE op[r] # "username"
        BY <1>1, <1>5, <2>1, <2>2, <3>1, <3>4 DEF OwnOK
      <3>5. QED
        BY <3>3, <3>4
    <2>3. CASE t # r /\ name'[Opener(t)] = name[Opener(t)]
      BY <1>2, <1>5, <2>3 DEF OwnOK
    <2>4. CASE t # r /\ name'[Opener(t)] # name[Opener(t)]
      <3>1. Opener(t) = row[r] /\ op[r] = "username" /\ row[r] = caller[r]
        BY <1>1, <1>3, <2>1, <2>4, Nulls
      <3>2. left[r] = {} /\ Past(r)
        BY <1>t, <1>1, <3>1 DEF Stands, Past, Changes
      <3>3. session[t] # name[Opener(t)]
        BY <1>3, <2>4, <3>1, <3>2 DEF OwnOK
      <3>4. QED
        BY <1>2, <1>5, <2>4, <3>3 DEF OwnOK
    <2>5. QED
      BY <2>2, <2>3, <2>4
  <1>6. ASSUME NEW q \in Requests
        PROVE  /\ Under(q)' => who[q] = name'[caller[q]]
               /\ row'[q] \in {caller[q], NoOne}
               /\ pc'[q] \in {"again", "load", "commit"} /\ op[q] \in Changes => row'[q] = caller[q]
    BY <1>2, <1>4 DEF OwnOK
  <1>7. \A q, s \in Requests : q # s /\ Under(q)' /\ Under(s)' => caller[q] # caller[s]
    BY <1>2 DEF OwnOK
  <1>8. \A q \in Requests : Past(q)' => \A t \in Sessions \ {q} : session'[t] # who'[q]
    BY PastStays
  <1>9. QED
    BY <1>1, <1>2, <1>5, <1>6, <1>7, <1>8 DEF OwnOK

LEMMA OwnStep == Inv /\ TiesOK /\ NamesUnique /\ Own /\ [Next]_vars => Own'
  <1> SUFFICES ASSUME Inv, TiesOK, NamesUnique, Own, [Next]_vars, faults' = {}, raced' = {} PROVE OwnOK'
    BY DEF Own
  <1>o. OwnOK /\ faults = {} /\ raced = {}
    BY HistoryGrows DEF Own
  <1>t. /\ pc \in [Requests -> PCs] /\ \A q \in Requests : Stands(q)
        /\ cmd \in [Requests -> {"idle", "drop", "detach", "unindex", "purge"} \cup StartingPcs]
    BY CallFacts DEF Inv, TypeOK
  <1> DEFINE GoesOn == \A q \in Requests :
               /\ Under(q)' => Under(q)
               /\ pc'[q] \in {"again", "load", "commit"} => pc[q] \in {"again", "load", "commit"}
  <1>1. ASSUME NEW r \in Requests,
               (\E p \in People : Login(r, p)) \/ (\E t \in Sessions : Arrive(r, t))
        PROVE  OwnOK'
    BY <1>1, <1>o, OwnArrives
  <1>2. ASSUME NEW r \in Requests, CheckEmail(r) \/ CheckName(r) PROVE OwnOK'
    <2>1. PICK next \in {"out", "refuse", "done", "failed"} :
             /\ pc[r] = "act" /\ pc' = [pc EXCEPT ![r] = next]
             /\ UNCHANGED <<faults, name, mail, op, who, want, caller, must, row>>
             /\ UNCHANGED <<session, links, issued, cmd, subject, held, todo, due, raced>>
      BY <1>2, Checks
    <2>2. GoesOn
      BY <1>t, <2>1 DEF Under, InCall
    <2>3. QED
      BY <1>o, <2>1, <2>2, OwnGoesOn
  <1>3. ASSUME NEW r \in Requests, Update(r) \/ Upsert(r) PROVE OwnOK'
    BY <1>3, <1>o, OwnWrites
  <1>4. ASSUME NEW r \in Requests, LogMeOut(r) \/ LogMeOutAll(r) \/ LogOut(r) \/ StartSession(r)
        PROVE  OwnOK'
    <2>1. PICK n \in Names \cup {NoName}, c \in {"drop", "unindex", "probe", "draw"}, next \in PCs :
             Calls(r, n, c, next)
      BY <1>4, Callings
    <2>2. /\ pc' = [pc EXCEPT ![r] = next] /\ cmd' = [cmd EXCEPT ![r] = c]
          /\ UNCHANGED <<name, op, who, want, caller, row>>
          /\ pc[r] \in {"act", "out", "again", "refuse", "load"}
          /\ next \in {"again", "load", "commit"} => pc[r] \in {"again", "load", "commit"}
      BY <2>1 DEF Calls
    <2>3. GoesOn
      BY <1>t, <2>2 DEF Under, InCall
    <2>4. QED
      BY <1>o, <2>2, <2>3, OwnGoesOn
  <1>5. ASSUME NEW r \in Requests, Commit(r) PROVE OwnOK'
    BY <1>5, <1>o, OwnCommits
  <1>6. ASSUME NEW r \in Requests, CommitFails(r) PROVE OwnOK'
    BY <1>6, <1>o DEF CommitFails
  <1>7. ASSUME NEW r \in Requests, Command(r) PROVE OwnOK'
    <2>1. /\ UNCHANGED <<name, op, who, want, caller, pc, row>>
          /\ InCall(r) /\ \A q \in Requests \ {r} : cmd'[q] = cmd[q]
      BY <1>7, Commands
    <2>2. GoesOn
      BY <2>1 DEF Under, InCall
    <2>3. QED
      BY <1>o, <2>1, <2>2, OwnGoesOn
  <1>8. ASSUME UNCHANGED <<name, op, who, want, caller, pc, cmd, row>> PROVE OwnOK'
    <2>1. GoesOn
      BY <1>8 DEF Under, InCall
    <2>2. QED
      BY <1>o, <1>8, <2>1, OwnGoesOn
  <1>9. ASSUME NEW t \in Sessions, Expire(t) PROVE OwnOK'
    BY <1>8, <1>9 DEF Expire, Store!Expire, tables, inputs
  <1>10. CASE UNCHANGED vars
    BY <1>8, <1>10 DEF vars
  <1>11. QED
    BY <1>1, <1>2, <1>3, <1>4, <1>5, <1>6, <1>7, <1>9, <1>10 DEF Next, Step

LEMMA OwnAlways == Spec => [](NamesUnique /\ Own)
  BY InvAlways, TiesAlways, NamesInit, NamesStep, OwnInit, OwnStep, PTL DEF Spec

\* Without overlapping requests of a person, failing commits and overlapping calls
\* about a user name, a session is for the person who opened it: no change of names
\* hands it to another.
THEOREM SessionsAlwaysNameTheirUser == Spec => []SessionsNameTheirUser
  <1>1. Own => SessionsNameTheirUser
    BY DEF Own, OwnOK, SessionsNameTheirUser
  <1>2. QED
    BY <1>1, OwnAlways, PTL

\* Under the same conditions an account and its data change only by a request of
\* the person whose account it is.
THEOREM AlwaysChangesOwnRow == Spec => ChangesOwnRow
  <1> DEFINE A == faults = {} /\ raced = {} =>
        /\ \A p \in People : name'[p] # name[p] \/ mail'[p] # mail[p] =>
              \E r \in Requests : caller[r] = p /\ Commit(r)
        /\ \A r \in Requests : Commit(r) => row[r] \in {caller[r], NoOne}
  <1>1. ASSUME Own, [Next]_vars, faults = {}, raced = {} PROVE A
    <2>1. \A r \in Requests : row[r] \in {caller[r], NoOne}
      BY <1>1 DEF Own, OwnOK
    <2>2. ASSUME NEW p \in People, name'[p] # name[p] \/ mail'[p] # mail[p]
          PROVE  \E r \in Requests : caller[r] = p /\ Commit(r)
      <3>1. PICK r \in Requests : Commit(r)
        BY <1>1, <2>2, OnlyCommits DEF tables
      <3>2. p = row[r]
        BY <2>2, <3>1 DEF Commit
      <3>3. QED
        BY <2>1, <3>1, <3>2, Nulls
    <2>3. QED
      BY <2>1, <2>2
  <1>2. QED
    BY <1>1, OwnAlways, PTL DEF Spec, ChangesOwnRow
-----------------------------------------------------------------------------
(* The old name *)

\* A change of user name that writes is to another name.
NewName == \A r \in Requests :
              pc[r] \in {"out", "update", "again", "load", "commit"} /\ op[r] = "username" =>
                 want[r] # who[r]

LEMMA NewNameStep == Inv /\ NewName /\ [Next]_vars => NewName'
  <1> SUFFICES ASSUME Inv, NewName, [Next]_vars PROVE NewName'
    OBVIOUS
  <1>t. OwnTypes /\ \A q \in Requests : Stands(q)
    BY Types DEF Inv
  <1>1. ASSUME NEW r \in Requests,
               (\E p \in People : Login(r, p)) \/ (\E t \in Sessions : Arrive(r, t))
        PROVE  NewName'
    <2>1. PICK p \in People, n \in Names, e \in Ops, x \in Names \cup Emails \cup Sessions \cup {NoName},
               next \in {"act", "update", "load"} :
                 /\ Begin(r, p, n, e, x, next)
                 /\ next = "update" => e = "data"
                 /\ next = "load" => e = "login"
      BY <1>1, Arrivals
    <2>2. /\ pc' = [pc EXCEPT ![r] = next] /\ op' = [op EXCEPT ![r] = e]
          /\ who' = [who EXCEPT ![r] = n] /\ want' = [want EXCEPT ![r] = x]
      BY <2>1 DEF Begin, Goto
    <2>3. QED
      BY <1>t, <2>1, <2>2 DEF OwnTypes, NewName
  <1>2. ASSUME NEW r \in Requests, CheckEmail(r) \/ CheckName(r) PROVE NewName'
    <2>1. PICK next \in {"out", "refuse", "done", "failed"} :
             /\ pc' = [pc EXCEPT ![r] = next] /\ UNCHANGED <<op, who, want>>
             /\ op[r] = "username" /\ next \in {"out", "refuse"} => want[r] # who[r]
      BY <1>2, Checks
    <2>2. QED
      BY <1>t, <2>1 DEF OwnTypes, NewName
  <1>3. ASSUME NEW r \in Requests, Update(r) \/ Upsert(r) PROVE NewName'
    <2>1. PICK next \in {"again", "refuse", "commit", "failed"} :
            pc[r] = "update" /\ pc' = [pc EXCEPT ![r] = next] /\ UNCHANGED <<op, who, want>>
      BY <1>3, Writes
    <2>2. QED
      BY <1>t, <2>1 DEF OwnTypes, NewName
  <1>4. ASSUME NEW r \in Requests, LogMeOut(r) \/ LogMeOutAll(r) \/ LogOut(r) \/ StartSession(r)
        PROVE  NewName'
    <2>1. PICK n \in Names \cup {NoName}, c \in {"drop", "unindex", "probe", "draw"}, next \in PCs :
             Calls(r, n, c, next)
      BY <1>4, Callings
    <2>2. /\ pc' = [pc EXCEPT ![r] = next] /\ UNCHANGED <<op, who, want>>
          /\ \/ next \in {"done", "failed"}
             \/ pc[r] \in {"out", "update", "again", "load", "commit"}
             \/ pc[r] = next
      BY <2>1 DEF Calls
    <2>3. QED
      BY <1>t, <2>2 DEF OwnTypes, NewName
  <1>5. ASSUME NEW r \in Requests, Commit(r) \/ CommitFails(r) PROVE NewName'
    <2>1. PICK next \in {"done", "failed"} : pc' = [pc EXCEPT ![r] = next] /\ UNCHANGED <<op, who, want>>
      BY <1>5 DEF Commit, CommitFails, Goto, inputs
    <2>2. QED
      BY <1>t, <2>1 DEF OwnTypes, NewName
  <1>6. ASSUME UNCHANGED <<pc, op, who, want>> PROVE NewName'
    BY <1>6 DEF NewName
  <1>7. ASSUME NEW r \in Requests, Command(r) PROVE NewName'
    BY <1>6, <1>7 DEF Command, inputs
  <1>8. ASSUME NEW t \in Sessions, Expire(t) PROVE NewName'
    BY <1>6, <1>8 DEF Expire, inputs
  <1>9. CASE UNCHANGED vars
    BY <1>6, <1>9 DEF vars
  <1>10. QED
    BY <1>1, <1>2, <1>3, <1>4, <1>5, <1>7, <1>8, <1>9 DEF Next, Step

\* "The user is logged out of __ALL__ sessions" (api/me.py:102): when a change of
\* user name commits, no session of anybody is for the old name, and those of its
\* sender are for the new one.
OldNameGone ==
    [][faults = {} /\ raced = {} =>
         \A r \in Requests : Commit(r) /\ row[r] # NoOne /\ op[r] = "username" =>
            \A t \in Sessions :
               /\ session'[t] # name[row[r]]
               /\ Opener(t) = caller[r] => session'[t] \in {want[r], NoName}]_vars

\* OldNameLoggedOut, which the run AccountsRename refutes, holds as long as the
\* requests of a person do not overlap, commits succeed and no two calls about a
\* user name overlap: what is left behind is stored in the window between the last
\* clear and the commit, or by a call that overlaps a clear.
THEOREM AlwaysOldNameGone == Spec => OldNameGone
  <1> DEFINE A == faults = {} /\ raced = {} =>
        \A r \in Requests : Commit(r) /\ row[r] # NoOne /\ op[r] = "username" =>
           \A t \in Sessions :
              /\ session'[t] # name[row[r]]
              /\ Opener(t) = caller[r] => session'[t] \in {want[r], NoName}
  <1>1. Init => NewName
    BY DEF Init, NewName
  <1>2. ASSUME Inv, NamesUnique, Own, NewName, [Next]_vars PROVE A
    <2> SUFFICES ASSUME faults = {}, raced = {}, NEW r \in Requests, Commit(r), row[r] # NoOne,
                        op[r] = "username", NEW t \in Sessions
                 PROVE  /\ session'[t] # name[row[r]]
                        /\ Opener(t) = caller[r] => session'[t] \in {want[r], NoName}
      OBVIOUS
    <2>o. OwnOK /\ TypeOK /\ \A q \in Requests : Stands(q)
      BY <1>2 DEF Own, Inv
    <2>1. pc[r] = "commit" /\ cmd[r] = "idle" /\ session' = session
      BY DEF Commit, InCall, calls
    <2>2. /\ Under(r) /\ row[r] = caller[r] /\ caller[r] \in People
          /\ who[r] = name[row[r]] /\ who[r] \in Names /\ want[r] # who[r]
          /\ session[r] \in {want[r], NoName}
      BY <1>2, <2>o, <2>1, Nulls DEF OwnOK, Stands, NameOf, Under, NewName
    <2>3. Past(r)
      BY <2>o, <2>1 DEF Stands, Past, Changes
    <2>4. session[t] # who[r]
      <3>1. CASE t = r
        BY <2>2, <3>1, Nulls
      <3>2. CASE t # r
        BY <2>o, <2>3, <3>2 DEF OwnOK
      <3>3. QED
        BY <3>1, <3>2
    <2>5. Opener(t) = caller[r] => session[t] \in {want[r], NoName}
      <3> SUFFICES ASSUME Opener(t) = caller[r], session[t] # NoName PROVE session[t] = want[r]
        OBVIOUS
      <3>1. t \in Requests /\ session[t] = want[t] /\ row[t] = caller[t]
        BY <2>o, <2>2, <2>4 DEF OwnOK
      <3>2. caller[t] = caller[r] /\ row[t] # NoOne
        BY <2>2, <3>1, Nulls DEF Opener
      <3>3. Under(t)
        BY <2>o, <3>1, <3>2 DEF Stands, Under
      <3>4. t = r
        BY <2>o, <2>2, <3>1, <3>2, <3>3 DEF OwnOK
      <3>5. QED
        BY <3>1, <3>4
    <2>6. QED
      BY <2>1, <2>2, <2>4, <2>5
  <1>3. QED
    BY <1>1, <1>2, NewNameStep, InvAlways, OwnAlways, PTL DEF Spec, OldNameGone
=============================================================================
