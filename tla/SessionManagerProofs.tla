-------------------------- MODULE SessionManagerProofs --------------------------
(***************************************************************************)
(* Theorems about SessionManager, for every set of workers, users and      *)
(* tokens.  Part 1 holds in every environment; part 2 while calls about    *)
(* one user do not overlap, with commands that fail or not.                *)
(***************************************************************************)
EXTENDS SessionManager, FiniteSetTheorems, TLAPS

(***************************************************************************)
(* Part 1.  The inductive invariant of every environment: which locals a   *)
(* worker holds at each command, and that a token met while working for u  *)
(* is not, and will not become, a token of another user.                   *)
(***************************************************************************)
Mine(t, u) == /\ session[t] \in {u, NoUser}
              /\ \A v \in Workers : pc[v] \in StartPcs /\ held[v] = t => who[v] = u

LocalsOK ==
    \A w \in Workers :
      /\ pc[w] = "idle" => who[w] = NoUser
      /\ pc[w] \notin {"idle", "drop"} => who[w] \in Users
      /\ pc[w] \in StartPcs => held[w] \in Tokens \ issued
      /\ pc[w] = "unlink" => held[w] \in Tokens
      /\ pc[w] \in {"drop", "detach"} => held[w] \in Tokens \cap issued

DrawsDiffer ==
    \A v, w \in Workers :
      pc[v] \in StartPcs /\ pc[w] \in StartPcs /\ held[v] = held[w] => v = w

LiveIsIssued == \A t \in Tokens : Live(t) => t \in issued

OwnershipOK ==
    /\ \A u \in Users : \A t \in links[u] : Mine(t, u)
    /\ \A w \in Workers : \A t \in todo[w] : Mine(t, who[w])
    /\ \A w \in Workers : pc[w] \in {"unlink", "drop", "detach"} => Mine(held[w], who[w])

Inv1 == TypeOK /\ LocalsOK /\ DrawsDiffer /\ LiveIsIssued /\ OwnershipOK

\* Every reachable state satisfies Inv1, whatever the environment does.
LEMMA Inv1Init == Init => Inv1
  BY NullAssumption DEF Init, Inv1, TypeOK, LocalsOK, DrawsDiffer, LiveIsIssued,
     OwnershipOK, PCs, StartPcs, Live

\* Every command of every call, a lapse and a failure keep Inv1.
LEMMA Inv1Step == Inv1 /\ [Next]_vars => Inv1'
  <2> SUFFICES ASSUME Inv1, [Next]_vars PROVE Inv1'
    OBVIOUS
  <2> USE NullAssumption DEF Inv1, TypeOK, LocalsOK, DrawsDiffer, LiveIsIssued,
        OwnershipOK, Mine, PCs, CullPcs, StartPcs, ClearPcs, store, beyond
  <2>1. ASSUME NEW w \in Workers, NEW u \in Users, StartSession(w, u) PROVE Inv1'
    BY <2>1 DEF StartSession, Goto, CullNext, Stale, Live
  <2>2. ASSUME NEW w \in Workers, ProbeLink(w) PROVE Inv1'
    BY <2>2 DEF ProbeLink, Goto, CullNext, Live
  <2>3. ASSUME NEW w \in Workers, CullLink(w) PROVE Inv1'
    BY <2>3 DEF CullLink, Unlink, Goto, CullNext, Live
  <2>4. ASSUME NEW w \in Workers, DrawToken(w) PROVE Inv1'
    <3>1. TypeOK' /\ LocalsOK' /\ DrawsDiffer' /\ LiveIsIssued'
      BY <2>4 DEF DrawToken, Fresh, Goto, Live
    <3>2. OwnershipOK'
      BY <2>4 DEF DrawToken, Fresh, Goto, Live
    <3>3. QED
      BY <3>1, <3>2
  <2>5. ASSUME NEW w \in Workers, LinkToken(w) PROVE Inv1'
    BY <2>5 DEF LinkToken, Goto, Live
  <2>6. ASSUME NEW w \in Workers, StoreSession(w) PROVE Inv1'
    <3>1. TypeOK' /\ LocalsOK' /\ DrawsDiffer' /\ LiveIsIssued'
      BY <2>6 DEF StoreSession, Return, Live
    <3>2. OwnershipOK'
      BY <2>6 DEF StoreSession, Return, Live
    <3>3. QED
      BY <3>1, <3>2
  <2>7. ASSUME NEW w \in Workers, NEW t \in Tokens, EndSession(w, t) PROVE Inv1'
    BY <2>7 DEF EndSession, Goto, Live
  <2>8. ASSUME NEW w \in Workers, DropSession(w) PROVE Inv1'
    <3>1. TypeOK'
      BY <2>8 DEF DropSession, Delete, Goto, Return
    <3>2. LiveIsIssued'
      BY <2>8 DEF DropSession, Delete, Live
    <3>3. LocalsOK' /\ DrawsDiffer'
      BY <2>8 DEF DropSession, Delete, Goto, Return
    <3>4. OwnershipOK'
      BY <2>8 DEF DropSession, Delete, Goto, Return, Live
    <3>5. QED
      BY <3>1, <3>2, <3>3, <3>4
  <2>9. ASSUME NEW w \in Workers, DetachToken(w) PROVE Inv1'
    BY <2>9 DEF DetachToken, Unlink, Return, Live
  <2>10. ASSUME NEW w \in Workers, NEW u \in Users, ClearSessions(w, u) PROVE Inv1'
    BY <2>10 DEF ClearSessions, LiveOf, Goto, Live
  <2>11. ASSUME NEW w \in Workers, DropIndex(w) PROVE Inv1'
    <3>1. TypeOK'
      <4>1. links' \in [Users -> SUBSET Tokens]
        BY <2>11 DEF DropIndex
      <4>2. CASE Return(w)
        BY <2>11, <4>1, <4>2 DEF DropIndex, Return
      <4>3. CASE Goto(w, "purge", todo[w]) /\ UNCHANGED <<who, held, must>>
        BY <2>11, <4>1, <4>3 DEF DropIndex, Goto
      <4>4. QED
        BY <2>11, <4>2, <4>3 DEF DropIndex
    <3>i. LiveIsIssued'
      BY <2>11 DEF DropIndex, Live
    <3>2. LocalsOK' /\ DrawsDiffer'
      BY <2>11 DEF DropIndex, Goto, Return, Live
    <3>3. OwnershipOK'
      BY <2>11 DEF DropIndex, Goto, Return
    <3>4. QED
      BY <3>1, <3>i, <3>2, <3>3
  <2>12. ASSUME NEW w \in Workers, PurgeToken(w) PROVE Inv1'
    <3>1. TypeOK' /\ LiveIsIssued'
      BY <2>12 DEF PurgeToken, Delete, Goto, Return, Live
    <3>2. LocalsOK' /\ DrawsDiffer'
      BY <2>12 DEF PurgeToken, Delete, Goto, Return, Live
    <3>3. OwnershipOK'
      BY <2>12 DEF PurgeToken, Delete, Goto, Return
    <3>4. QED
      BY <3>1, <3>2, <3>3
  <2>13. ASSUME NEW w \in Workers, ClearAllSessions(w) PROVE Inv1'
    BY <2>13 DEF ClearAllSessions, Live
  <2>14. ASSUME NEW t \in Tokens, Expire(t) PROVE Inv1'
    BY <2>14 DEF Expire, Delete, Live
  <2>15. ASSUME NEW w \in Workers, Fail(w) PROVE Inv1'
    BY <2>15 DEF Fail, Return, Live
  <2>16. CASE UNCHANGED vars
    BY <2>16 DEF vars, Live
  <2>17. QED
    BY <2>1, <2>2, <2>3, <2>4, <2>5, <2>6, <2>7, <2>8,
       <2>9, <2>10, <2>11, <2>12, <2>13, <2>14, <2>15, <2>16
       DEF Next, Call, Step

\* Inv1 holds at all times.
LEMMA Inv1Always == Spec => []Inv1
  BY Inv1Init, Inv1Step, PTL DEF Spec

\* Every reachable state is of the declared type: a token or a user of a call
\* (lines 100-139 of sessions.py) is never missing where a command uses it.
THEOREM TypeCorrect == Spec => []TypeOK
  <1>1. Inv1 => TypeOK
    BY DEF Inv1
  <1>2. QED
    BY <1>1, Inv1Always, PTL

\* A session that ended stays ended, also under races, lapses and failures: the
\* only command that stores a session (SET in start_session) uses a new token.
THEOREM NeverRevived == Spec => NoRevival
  <1>1. Inv1 /\ [Next]_vars
          => [\A t \in issued : ~Live(t) => session'[t] = NoUser]_vars
    <2> SUFFICES ASSUME Inv1, Next, NEW t \in issued, ~Live(t)
                 PROVE session'[t] = NoUser
      BY DEF vars
    <2> USE DEF Live
    <2>1. ASSUME NEW w \in Workers, StoreSession(w) PROVE session'[t] = NoUser
      BY <2>1 DEF Inv1, TypeOK, LocalsOK, StartPcs, StoreSession
    <2>2. ASSUME NEW w \in Workers, DropSession(w) \/ PurgeToken(w) PROVE session'[t] = NoUser
      BY <2>2 DEF Inv1, TypeOK, DropSession, PurgeToken, Delete
    <2>3. ASSUME NEW w \in Workers, ClearAllSessions(w) PROVE session'[t] = NoUser
      BY <2>3 DEF Inv1, TypeOK, ClearAllSessions
    <2>4. ASSUME NEW x \in Tokens, Expire(x) PROVE session'[t] = NoUser
      BY <2>4 DEF Inv1, TypeOK, Expire, Delete
    <2>5. CASE UNCHANGED session
      BY <2>5
    <2>6. QED
      BY <2>1, <2>2, <2>3, <2>4, <2>5 DEF Next, Call, Step, StartSession, ProbeLink,
         CullLink, DrawToken, LinkToken, EndSession, DetachToken, ClearSessions,
         DropIndex, Fail, store
  <1>2. QED
    BY <1>1, Inv1Always, PTL DEF Spec, NoRevival

\* A session ends by a call about its own user, by its lifetime or by the reset
\* of the whole store: no token of one user is ever in another user's set.
THEOREM EndsByOwner == Spec => EndedByOwner
  <1>1. Inv1 /\ [Next]_vars
          => [\A t \in Tokens : Live(t) /\ session'[t] = NoUser => EndsProperly(t)]_vars
    <2> SUFFICES ASSUME Inv1, Next, NEW t \in Tokens, Live(t), session'[t] = NoUser
                 PROVE EndsProperly(t)
      BY DEF vars
    <2> USE DEF Live, Inv1, TypeOK
    <2>1. ASSUME NEW w \in Workers, StoreSession(w) PROVE FALSE
      BY <2>1, NullAssumption DEF LocalsOK, StoreSession, PCs
    <2>2. ASSUME NEW w \in Workers, DropSession(w) PROVE who[w] = session[t]
      BY <2>2 DEF OwnershipOK, Mine, DropSession, Delete
    <2>3. ASSUME NEW w \in Workers, PurgeToken(w) PROVE who[w] = session[t]
      BY <2>3 DEF OwnershipOK, Mine, PurgeToken, Delete
    <2>4. ASSUME NEW x \in Tokens, Expire(x) PROVE Expire(t)
      BY <2>4 DEF Expire, Delete
    <2>5. ASSUME UNCHANGED session PROVE FALSE
      BY <2>5
    <2>6. QED
      BY <2>1, <2>2, <2>3, <2>4, <2>5 DEF Next, Call, Step, StartSession, ProbeLink,
         CullLink, DrawToken, LinkToken, EndSession, DetachToken, ClearSessions,
         DropIndex, Fail, store, EndsProperly
  <1>2. QED
    BY <1>1, Inv1Always, PTL DEF Spec, EndedByOwner

\* What is left of the promise of a login: a link that was stale when it began is
\* no session, becomes none, and is in the set only while the cull is to reach it.
Culled ==
    \A w \in Workers : pc[w] \in CullPcs \cup StartPcs \cup {"draw"} =>
      /\ \A t \in must[w] : ~Live(t)
      /\ \A v \in Workers : pc[v] \in StartPcs => held[v] \notin must[w]
      /\ must[w] \cap links[who[w]] \subseteq (IF pc[w] \in CullPcs THEN todo[w] ELSE {})

LEMMA CulledInit == Init => Culled
  BY DEF Init, Culled, CullPcs, StartPcs

LEMMA CulledStep == Inv1 /\ Culled /\ [Next]_vars => Culled'
  <1> SUFFICES ASSUME Inv1, Culled, [Next]_vars PROVE Culled'
    OBVIOUS
  <1> USE NullAssumption DEF CullPcs, StartPcs, Live
  <1>t. TypeOK /\ LocalsOK
    BY DEF Inv1
  <1>1. ASSUME NEW w \in Workers, NEW u \in Users, StartSession(w, u) PROVE Culled'
    BY <1>t, <1>1 DEF StartSession, Goto, CullNext, Stale, TypeOK, Culled
  <1>2. ASSUME NEW w \in Workers, ProbeLink(w) PROVE Culled'
    BY <1>t, <1>2 DEF ProbeLink, Goto, CullNext, TypeOK, Culled
  <1>3. ASSUME NEW w \in Workers, CullLink(w) PROVE Culled'
    BY <1>t, <1>3 DEF CullLink, Unlink, Goto, CullNext, TypeOK, LocalsOK, Culled
  <1>4. ASSUME NEW w \in Workers, DrawToken(w) PROVE Culled'
    BY <1>t, <1>4 DEF DrawToken, Fresh, Goto, TypeOK, Culled
  <1>5. ASSUME NEW w \in Workers, LinkToken(w) PROVE Culled'
    BY <1>t, <1>5 DEF LinkToken, Goto, TypeOK, LocalsOK, Culled
  <1>6. ASSUME NEW w \in Workers, StoreSession(w) PROVE Culled'
    BY <1>t, <1>6 DEF StoreSession, Return, TypeOK, LocalsOK, Culled
  <1>7. ASSUME NEW w \in Workers, NEW t \in Tokens, EndSession(w, t) PROVE Culled'
    BY <1>t, <1>7 DEF EndSession, Goto, store, TypeOK, Culled
  <1>8. ASSUME NEW w \in Workers, DropSession(w) PROVE Culled'
    BY <1>t, <1>8 DEF DropSession, Delete, Goto, Return, TypeOK, Culled
  <1>9. ASSUME NEW w \in Workers, DetachToken(w) PROVE Culled'
    BY <1>t, <1>9 DEF DetachToken, Unlink, Return, TypeOK, LocalsOK, Culled
  <1>10. ASSUME NEW w \in Workers, NEW u \in Users, ClearSessions(w, u) PROVE Culled'
    BY <1>t, <1>10 DEF ClearSessions, Goto, store, TypeOK, Culled
  <1>11. ASSUME NEW w \in Workers, DropIndex(w) PROVE Culled'
    BY <1>t, <1>11 DEF DropIndex, Goto, Return, TypeOK, LocalsOK, Culled
  <1>12. ASSUME NEW w \in Workers, PurgeToken(w) PROVE Culled'
    BY <1>t, <1>12 DEF PurgeToken, Delete, Goto, Return, TypeOK, Culled
  <1>13. ASSUME NEW w \in Workers, ClearAllSessions(w) PROVE Culled'
    BY <1>t, <1>13 DEF ClearAllSessions, TypeOK, LocalsOK, Culled
  <1>14. ASSUME NEW t \in Tokens, Expire(t) PROVE Culled'
    BY <1>t, <1>14 DEF Expire, Delete, TypeOK, Culled
  <1>15. ASSUME NEW w \in Workers, Fail(w) PROVE Culled'
    BY <1>t, <1>15 DEF Fail, Return, store, TypeOK, Culled
  <1>16. CASE UNCHANGED vars
    BY <1>16 DEF vars, Culled
  <1>17. QED
    BY <1>1, <1>2, <1>3, <1>4, <1>5, <1>6, <1>7, <1>8,
       <1>9, <1>10, <1>11, <1>12, <1>13, <1>14, <1>15, <1>16
       DEF Next, Call, Step

\* When a login returns, no link is left that was stale when it began, although
\* other workers link, cull and clear meanwhile and may fail at any command.
THEOREM LoginsCullStale == Spec => LoginCullsStale
  <1> DEFINE A == \A w \in Workers : pc[w] = "store" /\ pc'[w] = "idle"
                     => must[w] \cap links'[who[w]] = {}
  <1>1. ASSUME Inv1, Culled, [Next]_vars PROVE A
    <2> SUFFICES ASSUME NEW w \in Workers, pc[w] = "store", pc'[w] = "idle"
                 PROVE  must[w] \cap links'[who[w]] = {}
      OBVIOUS
    <2>1. must[w] \cap links[who[w]] = {} /\ who[w] \in Users
      BY <1>1 DEF Culled, CullPcs, StartPcs, Inv1, LocalsOK
    <2>2. \A u \in Users : links'[u] \subseteq links[u]
      <3>1. pc \in [Workers -> PCs] /\ links \in [Users -> SUBSET Tokens]
        BY <1>1 DEF Inv1, TypeOK
      <3>2. ~\E v \in Workers : LinkToken(v)
        BY <3>1 DEF LinkToken, Goto
      <3>3. ASSUME NEW v \in Workers, Call(v) \/ Step(v) \/ Fail(v)
            PROVE  \A u \in Users : links'[u] \subseteq links[u]
        BY <3>1, <3>2, <3>3 DEF Call, Step, StartSession, ClearSessions, EndSession,
           ClearAllSessions, ProbeLink, CullLink, DrawToken, StoreSession, DropSession, DetachToken,
           DropIndex, PurgeToken, Fail, Unlink, store
      <3>4. (\E t \in Tokens : Expire(t)) \/ UNCHANGED vars => links' = links
        BY DEF Expire, vars
      <3>5. QED
        BY <1>1, <3>3, <3>4 DEF Next
    <2>3. QED
      BY <2>1, <2>2
  <1>2. QED
    BY <1>1, Inv1Always, CulledInit, CulledStep, PTL DEF Spec, LoginCullsStale

-----------------------------------------------------------------------------
(* What a clear lost stays lost *)

\* A token about to be linked is in no set yet; the sets of two users and what a
\* worker took from one of them have nothing in common with another's.
SetsApart ==
    /\ \A w \in Workers : pc[w] = "link" =>
          /\ \A u \in Users : held[w] \notin links[u]
          /\ \A v \in Workers : held[w] \notin todo[v]
          /\ held[w] \notin lost
    /\ \A u, v \in Users : \A t \in links[u] : t \in links[v] => u = v
    /\ \A w \in Workers : \A t \in todo[w] : \A u \in Users : t \in links[u] => u = who[w]

\* A token that a clear has taken out of its set is in no set.
LostUnlinked == \A t \in lost : \A u \in Users : t \notin links[u]

Unlinked == /\ LostUnlinked
            /\ \A w \in Workers : pc[w] = "purge" =>
                  \A t \in todo[w] : \A u \in Users : t \notin links[u]

LEMMA UnlinkedInit == Init => SetsApart /\ Unlinked
  BY DEF Init, SetsApart, Unlinked, LostUnlinked

LEMMA UnlinkedStep == Inv1 /\ SetsApart /\ Unlinked /\ [Next]_vars => (SetsApart /\ Unlinked)'
  <1> SUFFICES ASSUME Inv1, SetsApart, Unlinked, [Next]_vars PROVE (SetsApart /\ Unlinked)'
    OBVIOUS
  <1> USE NullAssumption DEF SetsApart, Unlinked, LostUnlinked, beyond, store
  <1>t. TypeOK /\ LocalsOK /\ DrawsDiffer
    BY DEF Inv1
  <1>1. ASSUME NEW w \in Workers, NEW u \in Users, StartSession(w, u) PROVE (SetsApart /\ Unlinked)'
    BY <1>t, <1>1 DEF StartSession, Goto, CullNext, TypeOK
  <1>2. ASSUME NEW w \in Workers, ProbeLink(w) PROVE (SetsApart /\ Unlinked)'
    BY <1>t, <1>2 DEF ProbeLink, Goto, CullNext, TypeOK
  <1>3. ASSUME NEW w \in Workers, CullLink(w) PROVE (SetsApart /\ Unlinked)'
    BY <1>t, <1>3 DEF CullLink, Unlink, Goto, CullNext, TypeOK
  <1>4. ASSUME NEW w \in Workers, DrawToken(w) PROVE (SetsApart /\ Unlinked)'
    BY <1>t, <1>4 DEF DrawToken, Fresh, Goto, TypeOK
  <1>5. ASSUME NEW w \in Workers, LinkToken(w) PROVE (SetsApart /\ Unlinked)'
    <2>1. /\ who[w] \in Users /\ held[w] \in Tokens
          /\ links' = [links EXCEPT ![who[w]] = @ \cup {held[w]}]
          /\ pc' = [pc EXCEPT ![w] = "store"] /\ todo' = [todo EXCEPT ![w] = {}]
          /\ pc[w] = "link" /\ UNCHANGED <<who, held, lost>>
      BY <1>t, <1>5 DEF LinkToken, Goto, LocalsOK, StartPcs
    <2>2. \A v \in Workers : v # w /\ pc[v] = "link" => held[v] # held[w]
      BY <1>t, <2>1 DEF DrawsDiffer, StartPcs
    <2>3. SetsApart'
      BY <1>t, <2>1, <2>2 DEF TypeOK
    <2>4. Unlinked'
      BY <1>t, <2>1 DEF TypeOK
    <2>5. QED
      BY <2>3, <2>4
  <1>6. ASSUME NEW w \in Workers, StoreSession(w) \/ DetachToken(w) PROVE (SetsApart /\ Unlinked)'
    BY <1>t, <1>6 DEF StoreSession, DetachToken, Unlink, Return, TypeOK
  <1>7. ASSUME NEW w \in Workers, NEW t \in Tokens, EndSession(w, t) PROVE (SetsApart /\ Unlinked)'
    BY <1>t, <1>7 DEF EndSession, Goto, TypeOK
  <1>8. ASSUME NEW w \in Workers, DropSession(w) PROVE (SetsApart /\ Unlinked)'
    BY <1>t, <1>8 DEF DropSession, Goto, Return, TypeOK
  <1>9. ASSUME NEW w \in Workers, NEW u \in Users, ClearSessions(w, u) PROVE (SetsApart /\ Unlinked)'
    BY <1>t, <1>9 DEF ClearSessions, Goto, TypeOK
  <1>10. ASSUME NEW w \in Workers, DropIndex(w) PROVE (SetsApart /\ Unlinked)'
    <2>1. /\ who[w] \in Users /\ pc[w] = "unindex"
          /\ links' = [links EXCEPT ![who[w]] = {}] /\ UNCHANGED lost
      BY <1>t, <1>10 DEF DropIndex, LocalsOK
    <2>2. CASE Goto(w, "purge", todo[w]) /\ UNCHANGED <<who, held, must>>
      BY <1>t, <2>1, <2>2 DEF Goto, TypeOK
    <2>3. CASE Return(w)
      BY <1>t, <2>1, <2>3 DEF Return, TypeOK
    <2>4. QED
      BY <1>10, <2>2, <2>3 DEF DropIndex
  <1>11. ASSUME NEW w \in Workers, PurgeToken(w) PROVE (SetsApart /\ Unlinked)'
    BY <1>t, <1>11 DEF PurgeToken, Goto, Return, TypeOK
  <1>12. ASSUME NEW w \in Workers, ClearAllSessions(w) PROVE (SetsApart /\ Unlinked)'
    BY <1>t, <1>12 DEF ClearAllSessions, TypeOK
  <1>13. ASSUME NEW t \in Tokens, Expire(t) PROVE (SetsApart /\ Unlinked)'
    BY <1>t, <1>13 DEF Expire, TypeOK
  <1>14. ASSUME NEW w \in Workers, Fail(w) PROVE (SetsApart /\ Unlinked)'
    BY <1>t, <1>14 DEF Fail, Return, TypeOK
  <1>15. CASE UNCHANGED vars
    BY <1>15 DEF vars
  <1>16. QED
    BY <1>1, <1>2, <1>3, <1>4, <1>5, <1>6, <1>7, <1>8,
       <1>9, <1>10, <1>11, <1>12, <1>13, <1>14, <1>15
       DEF Next, Call, Step

\* A session that a failed clear_sessions left behind (the set is deleted at line
\* 137, before its members) is in no set ever after, in any environment: no clear
\* that is tried again and no login's cull can find it.
THEOREM LostForGood == Spec => []LostUnlinked
  <1>1. Unlinked => LostUnlinked
    BY DEF Unlinked
  <1>2. QED
    BY <1>1, Inv1Always, UnlinkedInit, UnlinkedStep, PTL DEF Spec
-----------------------------------------------------------------------------
(* Every call comes to its end *)

\* How many commands the call of w has left at most: two for each member that the
\* cull looks at, one for each that the clear deletes.
Left(w) == CASE pc[w] = "probe"   -> 2 * Cardinality(todo[w]) + 3
             [] pc[w] = "unlink"  -> 2 * Cardinality(todo[w]) + 2
             [] pc[w] = "draw"    -> 3
             [] pc[w] \in {"link", "drop"} -> 2
             [] pc[w] \in {"store", "detach"} -> 1
             [] pc[w] = "unindex" -> Cardinality(todo[w]) + 1
             [] pc[w] = "purge"   -> Cardinality(todo[w])
             [] OTHER -> 0

\* What each worker iterates over when it is in a loop.
LoopsOK == \A w \in Workers : /\ pc[w] \in {"probe", "purge"} => todo[w] # {}
                              /\ pc[w] = "unlink" => held[w] \in todo[w]

LEMMA LoopsStep == Inv1 /\ LoopsOK /\ [Next]_vars => LoopsOK'
  <1> SUFFICES ASSUME Inv1, LoopsOK, [Next]_vars PROVE LoopsOK'
    OBVIOUS
  <1> USE DEF LoopsOK, Inv1, TypeOK
  <1>1. ASSUME NEW w \in Workers, Call(w) PROVE LoopsOK'
    BY <1>1 DEF Call, StartSession, CullNext, EndSession, ClearSessions, ClearAllSessions, Goto
  <1>2. ASSUME NEW w \in Workers, ProbeLink(w) \/ CullLink(w) \/ DrawToken(w) \/ LinkToken(w)
        PROVE  LoopsOK'
    BY <1>2 DEF ProbeLink, CullLink, DrawToken, LinkToken, CullNext, Goto
  <1>3. ASSUME NEW w \in Workers, StoreSession(w) \/ DropSession(w) \/ DetachToken(w) \/ Fail(w)
        PROVE  LoopsOK'
    BY <1>3 DEF StoreSession, DropSession, DetachToken, Fail, Goto, Return
  <1>4. ASSUME NEW w \in Workers, DropIndex(w) \/ PurgeToken(w) PROVE LoopsOK'
    BY <1>4 DEF DropIndex, PurgeToken, Goto, Return
  <1>5. ASSUME NEW t \in Tokens, Expire(t) PROVE LoopsOK'
    BY <1>5 DEF Expire
  <1>6. CASE UNCHANGED vars
    BY <1>6 DEF vars
  <1>7. QED
    BY <1>1, <1>2, <1>3, <1>4, <1>5, <1>6 DEF Next, Step

\* Each command of a call brings it nearer to its end, and nothing that other
\* workers do to the set it read sets it back.
OnlyForward ==
    [][\A w \in Workers : pc[w] # "idle" =>
          Left(w)' <= Left(w) /\ (Step(w) \/ Fail(w) => Left(w)' < Left(w))]_vars

\* What one command leaves of a finite reply.
LEMMA Smaller ==
    ASSUME NEW S, IsFiniteSet(S), NEW x \in S
    PROVE  /\ Cardinality(S) \in Nat \ {0} /\ Cardinality(S \ {x}) = Cardinality(S) - 1
           /\ S \ {x} = {} \/ Cardinality(S \ {x}) \in Nat \ {0}
  <1>1. Cardinality(S) \in Nat /\ Cardinality(S \ {x}) = Cardinality(S) - 1 /\ IsFiniteSet(S \ {x})
    BY FS_RemoveElement, FS_CardinalityType
  <1>2. Cardinality(S) # 0
    BY FS_EmptySet
  <1>3. Cardinality(S \ {x}) \in Nat /\ (Cardinality(S \ {x}) = 0 => S \ {x} = {})
    BY <1>1, FS_EmptySet, FS_CardinalityType
  <1>4. QED
    BY <1>1, <1>2, <1>3

\* The workers that the lowering of w's measure leaves alone.
Others(w) == \A v \in Workers \ {w} : pc'[v] = pc[v] /\ todo'[v] = todo[v]

LEMMA StepLowers ==
    ASSUME IsFiniteSet(Tokens), Inv1, LoopsOK, NEW w \in Workers, Step(w) \/ Fail(w)
    PROVE  Left(w)' < Left(w) /\ Others(w)
  <1> USE DEF Inv1, TypeOK, LoopsOK, Goto, Return
  <1>f. IsFiniteSet(todo[w]) /\ Cardinality(todo[w]) \in Nat
    BY FS_Subset, FS_CardinalityType
  <1>o. Others(w)
    BY DEF Others, Step, ProbeLink, CullLink, DrawToken, LinkToken, StoreSession, DropSession,
       DetachToken, DropIndex, PurgeToken, Fail
  <1>1. CASE ProbeLink(w) \/ CullLink(w)
    <2>1. PICK t \in todo[w] :
            \/ /\ pc[w] = "probe" /\ pc'[w] = "unlink" /\ todo'[w] = todo[w]
            \/ /\ pc[w] \in {"probe", "unlink"} /\ todo'[w] = todo[w] \ {t}
               /\ pc'[w] = IF todo[w] \ {t} = {} THEN "draw" ELSE "probe"
      BY <1>1 DEF ProbeLink, CullLink, CullNext
    <2> DEFINE n == Cardinality(todo[w])
    <2>2. n \in Nat \ {0} /\ Cardinality(todo[w] \ {t}) = n - 1
      BY <1>f, Smaller
    <2>3. Left(w) = IF pc[w] = "probe" THEN 2 * n + 3 ELSE 2 * n + 2
      BY <2>1 DEF Left
    <2>4. CASE pc[w] = "probe" /\ pc'[w] = "unlink" /\ todo'[w] = todo[w]
      <3>1. Left(w)' = 2 * n + 2
        BY <2>4 DEF Left
      <3>2. QED
        BY <1>o, <2>2, <2>3, <2>4, <3>1
    <2>5. CASE pc'[w] = "draw"
      <3>1. Left(w)' = 3
        BY <2>5 DEF Left
      <3> HIDE DEF n
      <3>2. QED
        BY <1>o, <2>2, <2>3, <3>1
    <2>6. CASE pc'[w] = "probe" /\ todo'[w] = todo[w] \ {t}
      <3>1. Left(w)' = 2 * (n - 1) + 3
        BY <2>2, <2>6 DEF Left
      <3> HIDE DEF n
      <3>2. QED
        BY <1>o, <2>2, <2>3, <3>1
    <2>7. QED
      BY <2>1, <2>4, <2>5, <2>6
  <1>2. CASE DropIndex(w) \/ PurgeToken(w)
    <2>1. \/ pc[w] = "unindex" /\ pc'[w] = "purge" /\ todo'[w] = todo[w]
          \/ pc[w] = "unindex" /\ pc'[w] = "idle"
          \/ /\ pc[w] = "purge"
             /\ \E t \in todo[w] : \/ pc'[w] = "idle"
                                   \/ pc'[w] = "purge" /\ todo'[w] = todo[w] \ {t}
      BY <1>2 DEF DropIndex, PurgeToken
    <2> DEFINE n == Cardinality(todo[w])
    <2>2. n \in Nat /\ \A t \in todo[w] : n # 0 /\ Cardinality(todo[w] \ {t}) = n - 1
      BY <1>f, Smaller
    <2>3. Left(w) = IF pc[w] = "unindex" THEN n + 1 ELSE n
      BY <2>1 DEF Left
    <2>4. CASE pc'[w] = "idle"
      <3>1. Left(w)' = 0
        BY <2>4 DEF Left
      <3>2. pc[w] = "unindex" \/ n # 0
        BY <2>1, <2>2
      <3> HIDE DEF n
      <3>3. QED
        BY <1>o, <2>2, <2>3, <3>1, <3>2
    <2>5. CASE pc[w] = "unindex" /\ pc'[w] = "purge" /\ todo'[w] = todo[w]
      <3>1. Left(w)' = n
        BY <2>5 DEF Left
      <3>2. QED
        BY <1>o, <2>2, <2>3, <2>5, <3>1
    <2>6. ASSUME NEW t \in todo[w], pc[w] = "purge", pc'[w] = "purge", todo'[w] = todo[w] \ {t}
          PROVE  Left(w)' < Left(w)
      <3>1. Left(w)' = n - 1
        BY <2>2, <2>6 DEF Left
      <3>2. QED
        BY <2>2, <2>3, <2>6, <3>1
    <2>7. QED
      BY <1>o, <2>1, <2>4, <2>5, <2>6
  <1>3. CASE DrawToken(w) \/ LinkToken(w) \/ StoreSession(w) \/ DropSession(w) \/ DetachToken(w)
    BY <1>o, <1>3 DEF DrawToken, LinkToken, StoreSession, DropSession, DetachToken, Left
  <1>4. CASE Fail(w)
    <2>1. pc[w] # "idle" /\ pc'[w] = "idle"
      BY <1>4 DEF Fail
    <2>2. pc[w] \in {"probe", "purge"} => Cardinality(todo[w]) # 0
      BY <1>f, FS_EmptySet
    <2>3. QED
      BY <1>f, <1>o, <2>1, <2>2 DEF Left, PCs, CullPcs, StartPcs, ClearPcs
  <1>5. QED
    BY <1>1, <1>2, <1>3, <1>4 DEF Step

\* A call sends at most two commands for each member of the set it read, and four
\* more, however the other workers change that set meanwhile.
THEOREM AlwaysForward == ASSUME IsFiniteSet(Tokens) PROVE Spec => OnlyForward
  <1> DEFINE A == \A w \in Workers : pc[w] # "idle" =>
                     Left(w)' <= Left(w) /\ (Step(w) \/ Fail(w) => Left(w)' < Left(w))
  <1>1. ASSUME Inv1, LoopsOK, [Next]_vars PROVE A
    <2> SUFFICES ASSUME NEW w \in Workers, pc[w] # "idle"
                 PROVE  Left(w)' <= Left(w) /\ (Step(w) \/ Fail(w) => Left(w)' < Left(w))
      OBVIOUS
    <2>1. Left(w) \in Nat /\ Left(w)' \in Nat
      <3>1. Inv1'
        BY <1>1, Inv1Step
      <3>2. IsFiniteSet(todo[w]) /\ IsFiniteSet(todo'[w])
        BY <1>1, <3>1, FS_Subset DEF Inv1, TypeOK
      <3>3. Cardinality(todo[w]) \in Nat /\ Cardinality(todo'[w]) \in Nat
        BY <3>2, FS_CardinalityType
      <3>4. QED
        BY <3>3 DEF Left
    <2>2. CASE Step(w) \/ Fail(w)
      BY <1>1, <2>1, <2>2, StepLowers
    <2>3. CASE ~(Step(w) \/ Fail(w))
      <3>1. pc'[w] = pc[w] /\ todo'[w] = todo[w]
        <4>1. ASSUME NEW v \in Workers, v # w, Step(v) \/ Fail(v)
              PROVE  pc'[w] = pc[w] /\ todo'[w] = todo[w]
          BY <1>1, <4>1, StepLowers DEF Others
        <4>2. ASSUME NEW v \in Workers, Call(v)
              PROVE  pc'[w] = pc[w] /\ todo'[w] = todo[w]
          BY <1>1, <4>2 DEF Call, StartSession, EndSession, ClearSessions, ClearAllSessions, Goto,
             Inv1, TypeOK
        <4>3. QED
          BY <1>1, <2>3, <4>1, <4>2 DEF Next, Expire, vars
      <3>2. QED
        BY <2>1, <2>3, <3>1 DEF Left
    <2>4. QED
      BY <2>2, <2>3
  <1>2. Init => LoopsOK
    BY DEF Init, LoopsOK
  <1>3. QED
    BY <1>1, <1>2, Inv1Always, LoopsStep, PTL DEF Spec, OnlyForward

(***************************************************************************)
(* Part 2.  What holds besides while calls about one user do not overlap.  *)
(***************************************************************************)
Alone == \A v, w \in Workers : who[v] = who[w] /\ who[v] \in Users => v = w

SerialSteps ==
    \A w \in Workers :
      /\ pc[w] = "store" => held[w] \in links[who[w]]
      /\ pc[w] \in {"unlink", "detach"} => ~Live(held[w])
      /\ pc[w] = "unindex" => links[who[w]] \subseteq todo[w]

PromiseKept ==
    \A w \in Workers : pc[w] \in ClearPcs =>
      \A t \in must[w] : t \in issued /\ (~Live(t) \/ t \in todo[w] \/ t \in lost)

Inv2 == Alone /\ SerialSteps /\ PromiseKept /\ Linked

\* The empty store satisfies Inv2.
LEMMA Inv2Init == Init => Inv2
  BY NullAssumption DEF Init, Inv2, Alone, SerialSteps, PromiseKept, Linked, ClearPcs, Live

\* While calls about one user do not overlap, every command and failure keeps Inv2.
LEMMA Inv2Step == ASSUME OneAtATime
                  PROVE  Inv1 /\ Inv2 /\ [Next]_vars => Inv2'
  <2> SUFFICES ASSUME OneAtATime, Inv1, Inv2, [Next]_vars PROVE Inv2'
    OBVIOUS
  <2> USE NullAssumption DEF Inv1, TypeOK, LocalsOK, DrawsDiffer, LiveIsIssued,
        OwnershipOK, Mine, PCs, CullPcs, StartPcs, ClearPcs, store, beyond,
        Inv2, Alone, SerialSteps, PromiseKept, Linked
  <2>1. ASSUME NEW w \in Workers, NEW u \in Users, StartSession(w, u) PROVE Inv2'
    BY <2>1 DEF StartSession, Goto, CullNext, Stale, Live, Undisturbed
  <2>2. ASSUME NEW w \in Workers, ProbeLink(w) PROVE Inv2'
    BY <2>2 DEF ProbeLink, Goto, CullNext, Live
  \* the member was dead when it was looked at, and no login of its user ran since
  <2>3. ASSUME NEW w \in Workers, CullLink(w) PROVE Inv2'
    BY <2>3 DEF CullLink, Unlink, Goto, CullNext, Live
  <2>4. ASSUME NEW w \in Workers, DrawToken(w) PROVE Inv2'
    BY <2>4 DEF DrawToken, Fresh, Goto, Live
  <2>5. ASSUME NEW w \in Workers, LinkToken(w) PROVE Inv2'
    BY <2>5 DEF LinkToken, Goto, Live
  \* SADD came before SET, and nobody else worked on the user's set in between
  <2>6. ASSUME NEW w \in Workers, StoreSession(w) PROVE Inv2'
    <3>1. Alone' /\ SerialSteps'
      BY <2>6 DEF StoreSession, Return, Live
    <3>2. PromiseKept'
      BY <2>6 DEF StoreSession, Return, Live
    <3>3. Linked'
      BY <2>6 DEF StoreSession, Return, Live
    <3>4. QED
      BY <3>1, <3>2, <3>3
  <2>7. ASSUME NEW w \in Workers, NEW t \in Tokens, EndSession(w, t) PROVE Inv2'
    BY <2>7 DEF EndSession, Goto, Live, Undisturbed
  <2>8. ASSUME NEW w \in Workers, DropSession(w) PROVE Inv2'
    <3>1. Alone' /\ SerialSteps'
      BY <2>8 DEF DropSession, Delete, Goto, Return, Live
    <3>2. PromiseKept'
      BY <2>8 DEF DropSession, Delete, Goto, Return, Live
    <3>3. Linked'
      BY <2>8 DEF DropSession, Delete, Goto, Return, Live
    <3>4. QED
      BY <3>1, <3>2, <3>3
  <2>9. ASSUME NEW w \in Workers, DetachToken(w) PROVE Inv2'
    BY <2>9 DEF DetachToken, Unlink, Return, Live
  \* by Linked, SMEMBERS returns every session of u
  <2>10. ASSUME NEW w \in Workers, NEW u \in Users, ClearSessions(w, u) PROVE Inv2'
    <3>1. Alone' /\ SerialSteps'
      BY <2>10 DEF ClearSessions, LiveOf, Goto, Live, Undisturbed
    <3>2. PromiseKept'
      BY <2>10 DEF ClearSessions, LiveOf, Goto, Live, Undisturbed
    <3>3. Linked'
      BY <2>10 DEF ClearSessions, LiveOf, Goto, Live, Undisturbed
    <3>4. QED
      BY <3>1, <3>2, <3>3
  \* the links that DEL drops are still in todo
  <2>11. ASSUME NEW w \in Workers, DropIndex(w) PROVE Inv2'
    <3>1. Alone' /\ SerialSteps'
      BY <2>11 DEF DropIndex, Goto, Return, Live
    <3>2. PromiseKept'
      BY <2>11 DEF DropIndex, Goto, Return, Live
    <3>3. Linked'
      BY <2>11 DEF DropIndex, Goto, Return, Live
    <3>4. QED
      BY <3>1, <3>2, <3>3
  <2>12. ASSUME NEW w \in Workers, PurgeToken(w) PROVE Inv2'
    <3>1. Alone' /\ SerialSteps'
      BY <2>12 DEF PurgeToken, Delete, Goto, Return, Live
    <3>2. PromiseKept'
      BY <2>12 DEF PurgeToken, Delete, Goto, Return, Live
    <3>3. Linked'
      BY <2>12 DEF PurgeToken, Delete, Goto, Return, Live
    <3>4. QED
      BY <3>1, <3>2, <3>3
  <2>13. ASSUME NEW w \in Workers, ClearAllSessions(w) PROVE Inv2'
    BY <2>13 DEF ClearAllSessions, Live, Undisturbed
  <2>14. ASSUME NEW t \in Tokens, Expire(t) PROVE Inv2'
    BY <2>14 DEF Expire, Delete, Live
  <2>15. ASSUME NEW w \in Workers, Fail(w) PROVE Inv2'
    BY <2>15 DEF Fail, Return, Live
  <2>16. CASE UNCHANGED vars
    BY <2>16 DEF vars, Live
  <2>17. QED
    BY <2>1, <2>2, <2>3, <2>4, <2>5, <2>6, <2>7, <2>8,
       <2>9, <2>10, <2>11, <2>12, <2>13, <2>14, <2>15, <2>16
       DEF Next, Call, Step

\* Inv2 holds at all times in that environment.
LEMMA Inv2Always == ASSUME OneAtATime PROVE Spec => []Inv2
  BY Inv1Init, Inv1Step, Inv2Init, Inv2Step, PTL DEF Spec

\* While calls about one user do not overlap, the session manager "maintains a
\* linking to all user sessions" (README.md:127) at every moment, but for what a
\* clear was deleting when a command of it raised.
THEOREM AlwaysLinked == ASSUME OneAtATime PROVE Spec => []Linked
  <1>1. Inv2 => Linked
    BY DEF Inv2
  <1>2. QED
    BY <1>1, Inv2Always, PTL

\* ... and clear_sessions (lines 127-139) returns only when every session that
\* its user had at the call is gone.
THEOREM LogoutAllCompletes ==
    ASSUME OneAtATime PROVE Spec => LogoutAllIsComplete
  <1>1. Inv1 /\ Inv2 /\ [Next]_vars
          => [\A w \in Workers : pc[w] \in ClearPcs /\ pc'[w] = "idle" /\ ~Fail(w)
                => \A t \in must[w] \ lost : session'[t] = NoUser]_vars
    <2> SUFFICES ASSUME OneAtATime, Inv1, Inv2, Next,
                        NEW w \in Workers, pc[w] \in ClearPcs, pc'[w] = "idle", ~Fail(w),
                        NEW t \in must[w] \ lost
                 PROVE  session'[t] = NoUser
      BY DEF vars
    <2> USE DEF Inv1, TypeOK, LocalsOK, PCs, ClearPcs, StartPcs, CullPcs, Inv2, PromiseKept, Live
    <2>1. CASE DropIndex(w)
      BY <2>1 DEF DropIndex, Goto
    <2>2. CASE PurgeToken(w)
      BY <2>2 DEF PurgeToken, Delete, Goto
    <2>3. ASSUME NEW v \in Workers, v # w, Call(v) \/ Step(v) \/ Fail(v) PROVE pc'[w] = pc[w]
      BY <2>3 DEF Call, Step, StartSession, ProbeLink, CullLink, DrawToken, LinkToken,
         StoreSession, EndSession, DropSession, DetachToken, ClearSessions, DropIndex,
         PurgeToken, ClearAllSessions, Fail, Goto, Return
    <2>4. ASSUME Call(w) \/ (Step(w) /\ ~DropIndex(w) /\ ~PurgeToken(w)) PROVE FALSE
      BY <2>4 DEF Call, Step, StartSession, ProbeLink, CullLink, DrawToken, LinkToken,
         StoreSession, EndSession, DropSession, DetachToken, ClearSessions, ClearAllSessions
    <2>5. ASSUME NEW x \in Tokens, Expire(x) PROVE pc'[w] = pc[w]
      BY <2>5 DEF Expire
    <2>6. QED
      BY <2>1, <2>2, <2>3, <2>4, <2>5 DEF Next
  <1>2. QED
    BY <1>1, Inv1Always, Inv2Always, PTL DEF Spec, LogoutAllIsComplete

\* Nothing is lost where no command raises.
NoneLost == ~failing => lost = {}

LEMMA NoneLostAlways == Spec => []NoneLost
  <1>1. Init => NoneLost
    BY DEF Init, NoneLost
  <1>2. NoneLost /\ [Next]_vars => NoneLost'
    <2>1. [Next]_vars => UNCHANGED beyond \/ \E w \in Workers : Fail(w)
      BY DEF Next, Call, Step, StartSession, ProbeLink, CullLink, DrawToken, LinkToken,
         StoreSession, EndSession, DropSession, DetachToken, ClearSessions, DropIndex, PurgeToken,
         ClearAllSessions, Expire, vars, beyond
    <2>2. ASSUME NEW w \in Workers, Fail(w) PROVE failing /\ UNCHANGED failing
      BY <2>2 DEF Fail
    <2>3. QED
      BY <2>1, <2>2 DEF NoneLost, beyond
  <1>3. QED
    BY <1>1, <1>2, PTL DEF Spec

\* While calls about one user do not overlap and none fails, the interleaved Redis
\* commands implement SessionRegistry: each call takes effect at one instant, a clear at
\* its SMEMBERS (line 136), a login at its SET, a logout at its DEL.
THEOREM RegistryImplemented ==
    ASSUME OneAtATime PROVE Spec => ImplementsRegistry
  <1> USE DEF Registry!Next, Registry!vars, Registry!Login, Registry!End,
        Registry!LogoutAll, Registry!Reset
  <1>1. Init => Registry!Init
    BY NullAssumption DEF Init, Registry!Init, OpenTo, Open, LiveOf
  <1>2. ASSUME OneAtATime, ~failing, lost = {}, Inv1, Inv2, [Next]_vars
        PROVE  [Registry!Next]_(Registry!vars)
    <2> USE <1>2, NullAssumption DEF Inv1, TypeOK, LocalsOK, PCs, CullPcs, StartPcs, ClearPcs,
          Live, LiveOf
    <2> DEFINE Same == UNCHANGED issued /\ \A u \in Users : Open(u)' = Open(u)
    <2>0. ASSUME NEW u \in Users, NEW S, Open(u)' = S,
                 \A x \in Users : x # u => Open(x)' = Open(x)
          PROVE  OpenTo' = [OpenTo EXCEPT ![u] = S] /\ OpenTo[u] = Open(u)
      BY <2>0 DEF OpenTo
    <2>1. Same => UNCHANGED Registry!vars
      BY DEF OpenTo
    <2> USE DEF Open
    <2>2. ASSUME NEW t \in Tokens, UNCHANGED issued,
                 \A u \in Users : Open(u)' = Open(u) \ {t}
          PROVE  [Registry!Next]_(Registry!vars)
      <3>1. CASE \E u \in Users : t \in Open(u)
        <4> PICK u \in Users : t \in Open(u)
          BY <3>1
        <4>1. \A x \in Users : x # u => Open(x)' = Open(x)
          BY <2>2
        <4>2. Registry!End(u, t)
          <5> HIDE DEF Open
          <5> QED BY <2>0, <2>2, <4>1
        <4>3. QED
          BY <4>2
      <3>2. CASE \A u \in Users : t \notin Open(u)
        <4>1. Same
          BY <2>2, <3>2
        <4>2. QED
          BY <2>1, <4>1
      <3>3. QED
        BY <3>1, <3>2
    <2>3. ASSUME NEW w \in Workers, NEW u \in Users, StartSession(w, u) PROVE Same
      BY <2>3 DEF StartSession, CullNext, Goto
    <2>4. ASSUME NEW w \in Workers,
                 ProbeLink(w) \/ CullLink(w) \/ DrawToken(w) \/ LinkToken(w) \/ DetachToken(w)
          PROVE Same
      BY <2>4 DEF ProbeLink, CullLink, DrawToken, LinkToken, DetachToken, CullNext, Goto, Return
    <2>5. ASSUME NEW w \in Workers, StoreSession(w),
                 NEW u \in Users, NEW t \in Tokens, who[w] = u, held[w] = t
          PROVE  Registry!Login(u, t)
      <3>1. \A v \in Workers : pc[v] \in ClearPcs => t \notin todo[v]
        BY <2>5 DEF StoreSession, Inv2, Alone, OwnershipOK, Mine
      <3>2. Open(u)' = Open(u) \cup {t}
        BY <2>5, <3>1 DEF StoreSession, Return, LiveIsIssued
      <3>3. \A x \in Users : x # u => Open(x)' = Open(x)
        BY <2>5 DEF StoreSession, Return, LiveIsIssued
      <3>4. t \notin issued /\ issued' = issued \cup {t}
        BY <2>5 DEF StoreSession
      <3> HIDE DEF Open
      <3>5. QED
        BY <2>0, <3>2, <3>3, <3>4
    <2>6. ASSUME NEW w \in Workers, NEW t \in Tokens, EndSession(w, t) PROVE Same
      BY <2>6 DEF EndSession, Goto, store
    <2>7. ASSUME NEW w \in Workers, DropSession(w)
          PROVE  \A u \in Users : Open(u)' = Open(u) \ {held[w]}
      BY <2>7 DEF DropSession, Delete, Goto, Return
    <2>8. ASSUME NEW w \in Workers, NEW u \in Users, ClearSessions(w, u)
          PROVE  Registry!LogoutAll(u)
      <3>1. LiveOf(u) \subseteq links[u]
        BY <2>8 DEF ClearSessions, Undisturbed, Inv2, Linked, OwnershipOK, Mine
      <3>2. Open(u)' = {}
        BY <2>8, <3>1 DEF ClearSessions, Goto, store
      <3>3. \A x \in Users : x # u => Open(x)' = Open(x)
        BY <2>8 DEF ClearSessions, Goto, store, OwnershipOK, Mine
      <3>4. UNCHANGED issued
        BY <2>8 DEF ClearSessions, store
      <3> HIDE DEF Open
      <3>5. QED
        BY <2>0, <3>2, <3>3, <3>4
    <2>9. ASSUME NEW w \in Workers, DropIndex(w) PROVE Same
      BY <2>9 DEF DropIndex, Goto, Return
    <2>10. ASSUME NEW w \in Workers, PurgeToken(w) PROVE Same
      BY <2>10 DEF PurgeToken, Delete, Goto, Return
    <2>11. ASSUME NEW w \in Workers, ClearAllSessions(w) PROVE Registry!Reset
      BY <2>11 DEF ClearAllSessions, OpenTo
    <2>12. ASSUME NEW t \in Tokens, Expire(t)
           PROVE  \A u \in Users : Open(u)' = Open(u) \ {t}
      BY <2>12 DEF Expire, Delete
    <2>13. CASE UNCHANGED vars
      BY <2>13, <2>1 DEF vars
    <2>14. ASSUME NEW w \in Workers, StoreSession(w) \/ DropSession(w)
           PROVE  who[w] \in Users \cup {NoUser} /\ held[w] \in Tokens
                  /\ (StoreSession(w) => who[w] \in Users)
                  /\ (DropSession(w) => UNCHANGED issued)
      BY <2>14 DEF StoreSession, DropSession
    <2>15. ASSUME NEW w \in Workers, Call(w) \/ Step(w)
           PROVE  [Registry!Next]_(Registry!vars)
      BY <2>1, <2>2, <2>3, <2>4, <2>5, <2>6, <2>7, <2>8, <2>9, <2>10, <2>11, <2>14, <2>15
         DEF Call, Step
    <2>16. QED
      BY <2>2, <2>12, <2>13, <2>15 DEF Next, Fail, Expire
  <1>3. QED
    <2>1. OneAtATime /\ NoneLost /\ Inv1 /\ Inv2 /\ [Next]_vars
            => [failing \/ Registry!Next]_(Registry!vars)
      BY <1>2 DEF NoneLost
    <2>2. QED
      BY <1>1, <2>1, Inv1Always, Inv2Always, NoneLostAlways, PTL DEF Spec, ImplementsRegistry
=============================================================================
