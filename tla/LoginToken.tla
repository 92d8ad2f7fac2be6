------------------------------ MODULE LoginToken ------------------------------
(***************************************************************************)
(* The one-time login tokens of src/muistot/login/logic/login.py.          *)
(*                                                                         *)
(* For a user, Redis holds the hash of the token that was mailed last and  *)
(* a counter of the tries left, both with a time to live of five minutes.  *)
(* A server process runs create_login_token, and complete_email_login up   *)
(* to its first database call, without interruption; two processes         *)
(* interleave between any two Redis commands.  One action is one command.  *)
(***************************************************************************)
EXTENDS Integers, FiniteSets

CONSTANTS Workers,      \* server processes
          Users,
          Tokens,       \* the tokens that create_token can return, each once
          NoToken,      \* no such key; a request that holds no token
          Wrong,        \* a string that is no token
          NoUser,
          Tries         \* the tries that a new token gets (3 in the code)

ASSUME TokenAssumption == NoToken \notin Tokens /\ Wrong \notin Tokens
ASSUME UserAssumption == NoUser \notin Users
ASSUME TriesAssumption == Tries \in Nat
ASSUME WorkersAssumption == IsFiniteSet(Workers)

\* No tries left: the counter is negative, or absent (DECR makes it -1).
Spent == -1

VARIABLES
    stored,    \* stored[u]: the token whose hash is kept for u, or NoToken
    limit,     \* limit[u]: the tries left, or Spent
    outlives,  \* outlives[u]: the token that was stored when limit[u] was set
    issued,    \* every token that was created
    pc, who,   \* pc[w]: the next command of worker w; who[w]: its user
    given,     \* given[w]: what the client sent, or the token being created
    read,      \* read[w]: what GET returned
    tries,     \* tries[t]: history, how often t was compared with a client's
    uses,      \* uses[t]: history, how often t was accepted
    overlap    \* environment, never changes: which requests about one user overlap

keys   == <<stored, limit, outlives, issued>>
locals == <<pc, who, given, read>>
hist   == <<tries, uses>>
vars   == <<stored, limit, outlives, issued, pc, who, given, read, tries, uses, overlap>>

PCs == {"idle", "decr", "clear", "limit"}
Overlaps == {"none", "exchanges", "any"}

TypeOK == /\ stored \in [Users -> Tokens \cup {NoToken}]
          /\ limit \in [Users -> Spent .. Tries]
          /\ outlives \in [Users -> Tokens \cup {NoToken}]
          /\ issued \in SUBSET Tokens
          /\ pc \in [Workers -> PCs]
          /\ who \in [Workers -> Users \cup {NoUser}]
          /\ given \in [Workers -> Tokens \cup {NoToken, Wrong}]
          /\ read \in [Workers -> Tokens \cup {NoToken}]
          /\ tries \in [Tokens -> Nat]
          /\ uses \in [Tokens -> Nat]
          /\ overlap \in Overlaps

Init == /\ stored = [u \in Users |-> NoToken]
        /\ limit = [u \in Users |-> Spent]
        /\ outlives = [u \in Users |-> NoToken]
        /\ issued = {}
        /\ pc = [w \in Workers |-> "idle"]
        /\ who = [w \in Workers |-> NoUser]
        /\ given = [w \in Workers |-> NoToken]
        /\ read = [w \in Workers |-> NoToken]
        /\ tries = [t \in Tokens |-> 0]
        /\ uses = [t \in Tokens |-> 0]
        /\ overlap \in Overlaps
-----------------------------------------------------------------------------
Busy(u) == {w \in Workers : who[w] = u}

Begin(w, u, next) ==
    /\ pc[w] = "idle"
    /\ pc' = [pc EXCEPT ![w] = next]
    /\ who' = [who EXCEPT ![w] = u]

Return(w) == /\ pc' = [pc EXCEPT ![w] = "idle"]
             /\ who' = [who EXCEPT ![w] = NoUser]
             /\ given' = [given EXCEPT ![w] = NoToken]
             /\ read' = [read EXCEPT ![w] = NoToken]

\* create_login_token(u): SET the hash of a new token.
CreateToken(w, u) ==
    /\ overlap = "any" \/ Busy(u) = {}
    /\ Begin(w, u, "limit")
    /\ \E t \in Tokens \ issued : /\ stored' = [stored EXCEPT ![u] = t]
                                  /\ issued' = issued \cup {t}
                                  /\ given' = [given EXCEPT ![w] = t]
    /\ UNCHANGED <<overlap, limit, outlives, read, hist>>

\* SET the counter, after which the token goes out by mail.
SetLimit(w) ==
    /\ pc[w] = "limit"
    /\ limit' = [limit EXCEPT ![who[w]] = Tries]
    /\ outlives' = [outlives EXCEPT ![who[w]] = stored[who[w]]]
    /\ Return(w)
    /\ UNCHANGED <<overlap, stored, issued, hist>>
-----------------------------------------------------------------------------
\* A token reaches a client once create_login_token has returned it.
Mailed == issued \ {given[w] : w \in {v \in Workers : pc[v] = "limit"}}

\* complete_email_login(u, g), fetch_login_token: GET.
Exchange(w, u, g) ==
    /\ g \in Mailed \cup {Wrong}
    /\ \/ overlap = "any" \/ Busy(u) = {}
       \/ overlap = "exchanges" /\ \A v \in Busy(u) : pc[v] # "limit"
    /\ Begin(w, u, "decr")
    /\ given' = [given EXCEPT ![w] = g]
    /\ read' = [read EXCEPT ![w] = stored[u]]
    /\ UNCHANGED <<overlap, keys, hist>>

\* DECR.  Numbers below Spent all fail the same test.
Decreased(n) == IF n = Spent THEN Spent ELSE n - 1

\* Mutant: the counter is tested before it is decreased.
CountTry_Late(w) ==
    /\ pc[w] = "decr"
    /\ LET u == who[w]
           compared == limit[u] >= 0 /\ read[w] # NoToken
       IN /\ limit' = [limit EXCEPT ![u] = Decreased(limit[u])]
          /\ tries' = IF compared THEN [tries EXCEPT ![read[w]] = @ + 1] ELSE tries
          /\ IF compared /\ read[w] = given[w]
               THEN /\ pc' = [pc EXCEPT ![w] = "clear"]
                    /\ UNCHANGED <<who, given, read>>
               ELSE Return(w)
    /\ UNCHANGED <<overlap, stored, outlives, issued, uses>>

\* Mutant: a wrong try removes the token.
CountTry_WrongClears(w) ==
    /\ pc[w] = "decr"
    /\ LET u == who[w]
           left == Decreased(limit[u])
           compared == left >= 0 /\ read[w] # NoToken
       IN /\ limit' = [limit EXCEPT ![u] = left]
          /\ tries' = IF compared THEN [tries EXCEPT ![read[w]] = @ + 1] ELSE tries
          /\ IF compared /\ read[w] = given[w]
               THEN /\ pc' = [pc EXCEPT ![w] = "clear"]
                    /\ UNCHANGED <<who, given, read, stored>>
               ELSE Return(w) /\ stored' = [stored EXCEPT ![u] = NoToken]
    /\ UNCHANGED <<overlap, outlives, issued, uses>>

\* DECR, then the comparison; a wrong or missing token is answered 404.
CountTry(w) ==
    /\ pc[w] = "decr"
    /\ LET u == who[w]
           left == Decreased(limit[u])
           compared == left >= 0 /\ read[w] # NoToken
       IN /\ limit' = [limit EXCEPT ![u] = left]
          /\ tries' = IF compared THEN [tries EXCEPT ![read[w]] = @ + 1] ELSE tries
          /\ IF compared /\ read[w] = given[w]
               THEN /\ pc' = [pc EXCEPT ![w] = "clear"]
                    /\ UNCHANGED <<who, given, read>>
               ELSE Return(w)
    /\ UNCHANGED <<overlap, stored, outlives, issued, uses>>

\* Mutant: the token is not cleared.
ClearToken_Kept(w) ==
    /\ pc[w] = "clear"
    /\ uses' = [uses EXCEPT ![given[w]] = @ + 1]
    /\ Return(w)
    /\ UNCHANGED <<overlap, keys, tries>>

\* clear_login_token(u): DEL.  The counter stays.  The login goes on from here.
ClearToken(w) ==
    /\ pc[w] = "clear"
    /\ stored' = [stored EXCEPT ![who[w]] = NoToken]
    /\ uses' = [uses EXCEPT ![given[w]] = @ + 1]
    /\ Return(w)
    /\ UNCHANGED <<overlap, limit, outlives, issued, tries>>
-----------------------------------------------------------------------------
ExpireToken(u) ==
    /\ stored[u] # NoToken
    /\ stored' = [stored EXCEPT ![u] = NoToken]
    /\ UNCHANGED <<overlap, limit, outlives, issued, locals, hist>>

\* The counter was set after the token, for as long, so it lapses after it.
ExpireLimit(u) ==
    /\ limit[u] # Spent
    /\ stored[u] = NoToken \/ stored[u] # outlives[u]
    /\ limit' = [limit EXCEPT ![u] = Spent]
    /\ UNCHANGED <<overlap, stored, outlives, issued, locals, hist>>

Request(w) == \E u \in Users : \/ CreateToken(w, u)
                               \/ \E g \in Tokens \cup {Wrong} : Exchange(w, u, g)

Step(w) == SetLimit(w) \/ CountTry(w) \/ ClearToken(w)

Next == \/ \E w \in Workers : Request(w) \/ Step(w)
        \/ \E u \in Users : ExpireToken(u) \/ ExpireLimit(u)

Spec == Init /\ [][Next]_vars
-----------------------------------------------------------------------------
\* No more than Tries strings are ever compared with a token, however the
\* exchanges of its user overlap: "after decrementing the key a few time we will
\* not be able to log in with the correct token" (test_email_login.py:89).
TriesBounded == overlap # "any" => \A t \in Tokens : tries[t] <= Tries

\* A token logs its user in once, when no two requests of the user overlap.
SingleUse == overlap = "none" => \A t \in Tokens : uses[t] <= 1

\* A token that waits to be used goes away by being used, by a newer one or by
\* its age; never because an older token was used.
OnlyItsOwnUseClears ==
    [][overlap # "any" =>
         \A u \in Users : stored[u] # NoToken /\ stored'[u] = NoToken =>
           \/ uses'[stored[u]] > uses[stored[u]]
           \/ ExpireToken(u)]_vars
=============================================================================
