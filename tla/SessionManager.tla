---------------------------- MODULE SessionManager ----------------------------
(***************************************************************************)
(* The session store of src/muistot/security/sessions.py.                  *)
(*                                                                         *)
(* Redis holds two kinds of key: `token_hash` -> session (with a time to   *)
(* live) and `user:<name>` -> the set of that user's token hashes (with    *)
(* none).  The Redis client is synchronous, so inside one server process a *)
(* SessionManager call runs without interruption; the server runs several  *)
(* processes (`uvicorn --workers 2`), and between two of them every Redis  *)
(* command may interleave.  Each action below is ONE Redis command of one  *)
(* worker, with the Python code up to the next command.                    *)
(*                                                                         *)
(* A token stands for its sha256 hash: the 64 random bytes that            *)
(* start_session draws never repeat, so a drawn token is Fresh.            *)
(***************************************************************************)
EXTENDS Naturals, FiniteSets

CONSTANTS Workers,     \* server processes, each running one call at a time
          Users,       \* user names
          Tokens,      \* token hashes (the bound on logins in one run)
          NoUser,      \* no session under this key; no user in this call
          NoToken,
          OneAtATime   \* environment: calls about one user never overlap

ASSUME NullAssumption == NoUser \notin Users /\ NoToken \notin Tokens
ASSUME EnvironmentAssumption == OneAtATime \in BOOLEAN

VARIABLES
    session,  \* session[t]: the user of the session stored under t, or NoUser
    links,    \* links[u]: the members of the set `user:<u>`
    issued,   \* tokens whose session was ever stored (only these reach clients)
    pc,       \* pc[w]: the next Redis command of worker w
    who,      \* who[w]: the user its call is about
    held,     \* held[w]: the token in its hand
    todo,     \* todo[w]: what is left of the SMEMBERS reply it iterates over
    must,     \* must[w]: history, the tokens its call has promised to remove
    lost,     \* history: tokens that a clear took out of their set and never deleted
    failing   \* environment, never changes: a Redis command may raise

store  == <<session, links, issued>>
beyond == <<lost, failing>>
vars   == <<session, links, issued, pc, who, held, todo, must, lost, failing>>

Live(t) == session[t] # NoUser
LiveOf(u) == {t \in Tokens : session[t] = u}

CullPcs  == {"probe", "unlink"}        \* clear_stale
StartPcs == {"link", "store"}          \* start_session, with its token
ClearPcs == {"unindex", "purge"}       \* clear_sessions
PCs == {"idle", "draw", "drop", "detach"} \cup CullPcs \cup StartPcs \cup ClearPcs

TypeOK == /\ session \in [Tokens -> Users \cup {NoUser}]
          /\ links \in [Users -> SUBSET Tokens]
          /\ issued \in SUBSET Tokens
          /\ pc \in [Workers -> PCs]
          /\ who \in [Workers -> Users \cup {NoUser}]
          /\ held \in [Workers -> Tokens \cup {NoToken}]
          /\ todo \in [Workers -> SUBSET Tokens]
          /\ must \in [Workers -> SUBSET Tokens]
          /\ lost \in SUBSET Tokens /\ failing \in BOOLEAN

Init == /\ session = [t \in Tokens |-> NoUser]
        /\ links = [u \in Users |-> {}]
        /\ issued = {}
        /\ pc = [w \in Workers |-> "idle"]
        /\ who = [w \in Workers |-> NoUser]
        /\ held = [w \in Workers |-> NoToken]
        /\ todo = [w \in Workers |-> {}]
        /\ must = [w \in Workers |-> {}]
        /\ lost = {} /\ failing \in BOOLEAN
-----------------------------------------------------------------------------
\* Nothing in Redis or in a worker refers to t: it stands for 64 new random bytes.
Fresh(t) == /\ t \notin issued \cup lost
            /\ \A u \in Users : t \notin links[u]
            /\ \A w \in Workers : t # held[w] /\ t \notin todo[w] \cup must[w]

\* The bound on logins: start_session is called while a token is left to draw.
TokensLeft == Cardinality({w \in Workers : pc[w] \in CullPcs \cup {"draw"}})
                < Cardinality({t \in Tokens : Fresh(t)})

\* Under OneAtATime no other worker is in a call about user u.
Undisturbed(u) == OneAtATime => \A w \in Workers : who[w] # u

\* Worker w goes on to the command `next` with what is left of its reply.
Goto(w, next, left) == /\ pc' = [pc EXCEPT ![w] = next]
                       /\ todo' = [todo EXCEPT ![w] = left]

\* Worker w returns from its call.
Return(w) == /\ pc' = [pc EXCEPT ![w] = "idle"]
             /\ who' = [who EXCEPT ![w] = NoUser]
             /\ held' = [held EXCEPT ![w] = NoToken]
             /\ todo' = [todo EXCEPT ![w] = {}]
             /\ must' = [must EXCEPT ![w] = {}]

\* The commands DEL and SREM.
Delete(t) == session' = [session EXCEPT ![t] = NoUser]
Unlink(u, t) == links' = [links EXCEPT ![u] = @ \ {t}]
-----------------------------------------------------------------------------
\* No session is stored under t, and no login is on its way to store one.
Stale(t) == ~Live(t) /\ ~\E w \in Workers : pc[w] \in StartPcs /\ held[w] = t

\* The loop of clear_stale goes on while there are members to look at.
CullNext(left) == IF left = {} THEN "draw" ELSE "probe"

\* Mutant: start_session without clear_stale.
StartSession_KeepStale(w, u) ==
    /\ pc[w] = "idle" /\ Undisturbed(u) /\ TokensLeft
    /\ Goto(w, "draw", {})
    /\ who' = [who EXCEPT ![w] = u]
    /\ must' = [must EXCEPT ![w] = {t \in links[u] : Stale(t)}]
    /\ UNCHANGED <<session, links, issued, held, beyond>>

\* start_session(u) calls clear_stale(u): SMEMBERS.
StartSession(w, u) ==
    /\ pc[w] = "idle" /\ Undisturbed(u) /\ TokensLeft
    /\ Goto(w, CullNext(links[u]), links[u])
    /\ who' = [who EXCEPT ![w] = u]
    /\ must' = [must EXCEPT ![w] = {t \in links[u] : Stale(t)}]
    /\ UNCHANGED <<session, links, issued, held, beyond>>

\* Mutant: clear_stale removes the members that exist.
ProbeLink_Inverted(w) ==
    /\ pc[w] = "probe"
    /\ \E t \in todo[w] :
         IF ~Live(t) THEN /\ Goto(w, CullNext(todo[w] \ {t}), todo[w] \ {t})
                          /\ UNCHANGED held
                     ELSE /\ Goto(w, "unlink", todo[w])
                          /\ held' = [held EXCEPT ![w] = t]
    /\ UNCHANGED <<session, links, issued, who, must, beyond>>

\* Mutant: the cull never moves past a member that exists.
ProbeLink_Stuck(w) ==
    /\ pc[w] = "probe"
    /\ \E t \in todo[w] :
         IF Live(t) THEN Goto(w, "probe", todo[w]) /\ UNCHANGED held
                    ELSE /\ Goto(w, "unlink", todo[w])
                         /\ held' = [held EXCEPT ![w] = t]
    /\ UNCHANGED <<session, links, issued, who, must, beyond>>

\* EXISTS: a member without a session is removed by the next command.
ProbeLink(w) ==
    /\ pc[w] = "probe"
    /\ \E t \in todo[w] :
         IF Live(t) THEN /\ Goto(w, CullNext(todo[w] \ {t}), todo[w] \ {t})
                         /\ UNCHANGED held
                    ELSE /\ Goto(w, "unlink", todo[w])
                         /\ held' = [held EXCEPT ![w] = t]
    /\ UNCHANGED <<session, links, issued, who, must, beyond>>

\* SREM
CullLink(w) ==
    /\ pc[w] = "unlink"
    /\ Unlink(who[w], held[w])
    /\ Goto(w, CullNext(todo[w] \ {held[w]}), todo[w] \ {held[w]})
    /\ held' = [held EXCEPT ![w] = NoToken]
    /\ UNCHANGED <<session, issued, who, must, beyond>>

\* Mutant: a token that was used before is drawn again.
DrawToken_Reused(w) ==
    /\ pc[w] = "draw"
    /\ \E t \in Tokens : ~Live(t) /\ held' = [held EXCEPT ![w] = t]
    /\ Goto(w, "link", {})
    /\ UNCHANGED <<session, links, issued, who, must, beyond>>

\* start_session draws a token until EXISTS says that it is not in use.
DrawToken(w) ==
    /\ pc[w] = "draw"
    /\ \E t \in Tokens : /\ Fresh(t) /\ ~Live(t)
                         /\ held' = [held EXCEPT ![w] = t]
    /\ Goto(w, "link", {})
    /\ UNCHANGED <<session, links, issued, who, must, beyond>>

\* Mutant: the key of the set lacks the user's name.
LinkToken_SharedKey(w) ==
    /\ pc[w] = "link"
    /\ links' = [u \in Users |-> links[u] \cup {held[w]}]
    /\ Goto(w, "store", {})
    /\ UNCHANGED <<session, issued, who, held, must, beyond>>

\* SADD
LinkToken(w) ==
    /\ pc[w] = "link"
    /\ links' = [links EXCEPT ![who[w]] = @ \cup {held[w]}]
    /\ Goto(w, "store", {})
    /\ UNCHANGED <<session, issued, who, held, must, beyond>>

\* SET with the session lifetime, then return the token to the client.
StoreSession(w) ==
    /\ pc[w] = "store"
    /\ session' = [session EXCEPT ![held[w]] = who[w]]
    /\ issued' = issued \cup {held[w]}
    /\ Return(w)
    /\ UNCHANGED <<links, beyond>>
-----------------------------------------------------------------------------
\* end_session(t), for a token that a client once received: GET.
EndSession(w, t) ==
    /\ pc[w] = "idle" /\ t \in issued
    /\ Live(t) => Undisturbed(session[t])
    /\ Goto(w, "drop", {})
    /\ who' = [who EXCEPT ![w] = session[t]]
    /\ held' = [held EXCEPT ![w] = t]
    /\ UNCHANGED <<store, must, beyond>>

\* DEL; the user is known, and its link removed, only if GET found a session.
DropSession(w) ==
    /\ pc[w] = "drop"
    /\ Delete(held[w])
    /\ IF who[w] = NoUser THEN Return(w)
                          ELSE /\ Goto(w, "detach", {})
                               /\ UNCHANGED <<who, held, must>>
    /\ UNCHANGED <<links, issued, beyond>>

\* SREM
DetachToken(w) ==
    /\ pc[w] = "detach"
    /\ Unlink(who[w], held[w])
    /\ Return(w)
    /\ UNCHANGED <<session, issued, beyond>>
-----------------------------------------------------------------------------
\* Mutant: the members are read after the set was deleted.
ClearSessions_ReadTooLate(w, u) ==
    /\ pc[w] = "idle" /\ Undisturbed(u)
    /\ Goto(w, "unindex", {})
    /\ who' = [who EXCEPT ![w] = u]
    /\ must' = [must EXCEPT ![w] = LiveOf(u)]
    /\ UNCHANGED <<store, held, beyond>>

\* clear_sessions(u): SMEMBERS.
ClearSessions(w, u) ==
    /\ pc[w] = "idle" /\ Undisturbed(u)
    /\ Goto(w, "unindex", links[u])
    /\ who' = [who EXCEPT ![w] = u]
    /\ must' = [must EXCEPT ![w] = LiveOf(u)]
    /\ UNCHANGED <<store, held, beyond>>

\* DEL `user:<u>`
DropIndex(w) ==
    /\ pc[w] = "unindex"
    /\ links' = [links EXCEPT ![who[w]] = {}]
    /\ IF todo[w] = {} THEN Return(w)
                       ELSE /\ Goto(w, "purge", todo[w])
                            /\ UNCHANGED <<who, held, must>>
    /\ UNCHANGED <<session, issued, beyond>>

\* Mutant: clear_sessions stops after the first member.
PurgeToken_OnlyOne(w) ==
    /\ pc[w] = "purge"
    /\ \E t \in todo[w] : Delete(t)
    /\ Return(w)
    /\ UNCHANGED <<links, issued, beyond>>

\* DEL of each member
PurgeToken(w) ==
    /\ pc[w] = "purge"
    /\ \E t \in todo[w] :
         /\ Delete(t)
         /\ IF todo[w] = {t} THEN Return(w)
                             ELSE /\ Goto(w, "purge", todo[w] \ {t})
                                  /\ UNCHANGED <<who, held, must>>
    /\ UNCHANGED <<links, issued, beyond>>

\* clear_all_sessions(): FLUSHDB.
ClearAllSessions(w) ==
    /\ pc[w] = "idle"
    /\ OneAtATime => \A v \in Workers : pc[v] = "idle"
    /\ session' = [t \in Tokens |-> NoUser]
    /\ links' = [u \in Users |-> {}]
    /\ UNCHANGED <<issued, pc, who, held, todo, must, beyond>>
-----------------------------------------------------------------------------
\* Redis drops a session whose time to live has run out; the set keeps its member.
Expire(t) ==
    /\ Live(t)
    /\ Delete(t)
    /\ UNCHANGED <<links, issued, pc, who, held, todo, must, beyond>>

\* The next command of w raises (connection lost, process killed): nothing in
\* the SessionManager undoes the commands already sent.
Fail(w) ==
    /\ failing /\ pc[w] # "idle"
    /\ lost' = lost \cup (IF pc[w] = "purge" THEN todo[w] ELSE {})
    /\ Return(w)
    /\ UNCHANGED <<store, failing>>

Step(w) == \/ ProbeLink(w) \/ CullLink(w) \/ DrawToken(w)
           \/ LinkToken(w) \/ StoreSession(w)
           \/ DropSession(w) \/ DetachToken(w)
           \/ DropIndex(w) \/ PurgeToken(w)

Call(w) == \/ \E u \in Users : StartSession(w, u) \/ ClearSessions(w, u)
           \/ \E t \in Tokens : EndSession(w, t)
           \/ ClearAllSessions(w)

Next == \/ \E w \in Workers : Call(w) \/ Step(w) \/ Fail(w)
        \/ \E t \in Tokens : Expire(t)

Spec == Init /\ [][Next]_vars

\* A worker that is in a call runs on: the loop holds no lock and waits for
\* nobody (the client's socket timeout would turn a silent Redis into Fail).
FairSpec == Spec /\ \A w \in Workers : WF_vars(Step(w))
-----------------------------------------------------------------------------
\* Every stored session is in its user's set, or was taken out of it by a
\* clear_sessions call that is about to delete it, or that failed before it could:
\* "The session manager maintains a linking to all user sessions so that it can
\* clear them" (README.md:127).
Linked == \A t \in Tokens : Live(t) =>
             \/ t \in links[session[t]]
             \/ \E w \in Workers : pc[w] = "purge" /\ t \in todo[w]
             \/ t \in lost

\* When clear_sessions returns, each session its user had at the call is gone,
\* but for those that a clear lost before.
LogoutAllIsComplete ==
    [][\A w \in Workers : pc[w] \in ClearPcs /\ pc'[w] = "idle" /\ ~Fail(w)
          => \A t \in must[w] \ lost : session'[t] = NoUser]_vars

\* A session that has ended (logged out, cleared, lapsed) never comes back.
NoRevival ==
    [][\A t \in issued : ~Live(t) => session'[t] = NoUser]_vars

\* A session ends by a call about its own user, by its lifetime or by the reset
\* of the whole store; never by another user's login, logout or clear.
EndsProperly(t) == \/ \E w \in Workers : who[w] = session[t] \/ ClearAllSessions(w)
                   \/ Expire(t)

EndedByOwner ==
    [][\A t \in Tokens : Live(t) /\ session'[t] = NoUser => EndsProperly(t)]_vars

\* "Stale sessions get removed from the user pool on login" (README.md:126):
\* every link that was stale when a login began is gone when it returns.
LoginCullsStale ==
    [][\A w \in Workers : pc[w] = "store" /\ pc'[w] = "idle"
          => must[w] \cap links'[who[w]] = {}]_vars

\* Every call returns.
CallsReturn == \A w \in Workers : pc[w] # "idle" ~> pc[w] = "idle"
-----------------------------------------------------------------------------
\* The sessions that a registry with instantaneous operations would hold: a
\* clear takes effect when its SMEMBERS has read the set.
Open(u) == {t \in LiveOf(u) :
              \A w \in Workers : pc[w] \in ClearPcs => t \notin todo[w]}

OpenTo == [u \in Users |-> Open(u)]

Registry == INSTANCE SessionRegistry WITH open <- OpenTo, given <- issued

\* The calls are atomic to their callers while calls about one user do not
\* overlap and none fails.
ImplementsRegistry == Registry!Init /\ [][failing \/ Registry!Next]_(Registry!vars)
=============================================================================
