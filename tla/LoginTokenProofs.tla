---------------------------- MODULE LoginTokenProofs ----------------------------
(***************************************************************************)
(* Theorems about LoginToken for every set of workers, users and tokens    *)
(* and every number of tries.  The bound on tries holds while no token is  *)
(* created for a user who has another request under way (overlap # "any"), *)
(* and SingleUse needs that no two exchanges of a user overlap either.     *)
(* Whatever overlaps, a token stays with the user it was made for, and is  *)
(* used no more often than there are workers.                              *)
(***************************************************************************)
EXTENDS LoginToken, FiniteSetTheorems, TLAPS

Creating(w) == pc[w] = "limit"
InFlight(w) == pc[w] \in {"decr", "clear"}

\* The tries that u's counter still allows.
Left(u) == IF limit[u] < 0 THEN 0 ELSE limit[u]

LocalsOK ==
    \A w \in Workers :
      /\ pc[w] = "idle" <=> who[w] = NoUser
      /\ Creating(w) => /\ given[w] \in issued
                        /\ stored[who[w]] \in {NoToken, given[w]}
                        /\ \A v \in Workers : who[v] = who[w] => v = w
                        /\ \A v \in Workers : Creating(v) /\ given[v] = given[w] => v = w
                        /\ \A u \in Users : outlives[u] # given[w]
      /\ InFlight(w) => read[w] \in {NoToken, outlives[who[w]]}
      /\ pc[w] = "clear" => given[w] \in Tokens /\ read[w] = given[w]

\* A stored token is the one the counter was set for, or is about to be.
StoredOK ==
    \A u \in Users :
      \/ stored[u] \in {NoToken, outlives[u]}
      \/ \E w \in Workers : Creating(w) /\ who[w] = u /\ given[w] = stored[u]

CountersOK ==
    /\ \A u \in Users : outlives[u] \in issued \cup {NoToken}
    /\ \A u, v \in Users : outlives[u] = outlives[v] /\ outlives[u] # NoToken => u = v

TriesOK ==
    /\ \A u \in Users : outlives[u] # NoToken => tries[outlives[u]] + Left(u) <= Tries
    /\ \A w \in Workers : Creating(w) => tries[given[w]] = 0
    /\ \A t \in Tokens \ issued : tries[t] = 0
    /\ \A t \in Tokens : tries[t] <= Tries

\* What holds as long as no token is created while its user has a request under way.
Ordered == TypeOK /\ LocalsOK /\ StoredOK /\ CountersOK /\ TriesOK

Inv == TypeOK /\ (overlap # "any" => Ordered)

Alone == \A v, w \in Workers : who[v] = who[w] /\ who[v] # NoUser => v = w

\* A used token is neither stored nor in the hand of a request.
UsedIsGone ==
    \A t \in Tokens :
      /\ uses[t] # 0 => /\ t \in issued
                        /\ \A u \in Users : stored[u] # t
                        /\ \A w \in Workers : /\ InFlight(w) => read[w] # t
                                              /\ Creating(w) => given[w] # t
      /\ uses[t] <= 1

\* What holds as long as no two requests of a user overlap.
Apart == Alone /\ UsedIsGone

InvApart == overlap = "none" => Apart
-----------------------------------------------------------------------------
\* Before any request Inv holds.
LEMMA InvInit == Init => Inv
  BY TokenAssumption, UserAssumption, TriesAssumption
     DEF Init, Inv, Ordered, Overlaps, TypeOK, LocalsOK, StoredOK, CountersOK, TriesOK, PCs,
         Spent, Creating, InFlight

\* No command changes the environment.
LEMMA OverlapFixed == [Next]_vars => overlap' = overlap
  BY DEF Next, Request, Step, CreateToken, SetLimit, Exchange, CountTry, ClearToken,
     ExpireToken, ExpireLimit, vars

\* Every command keeps Ordered, as long as no token is created while its user has a
\* request under way.
LEMMA OrderedStep == overlap # "any" /\ Ordered /\ [Next]_vars => Ordered'
  <2> SUFFICES ASSUME overlap # "any", Ordered, [Next]_vars PROVE Ordered'
    OBVIOUS
  <2> USE TokenAssumption, UserAssumption, TriesAssumption
      DEF Ordered, TypeOK, LocalsOK, StoredOK, CountersOK, TriesOK, PCs,
          Spent, Creating, InFlight, Left, keys, hist, locals, Busy
  <2>1. ASSUME NEW w \in Workers, NEW u \in Users, CreateToken(w, u) PROVE Ordered'
    <3>1. TypeOK'
      BY <2>1 DEF CreateToken, Begin
    <3>2. LocalsOK'
      BY <2>1 DEF CreateToken, Begin
    <3>3. StoredOK'
      BY <2>1 DEF CreateToken, Begin
    <3>4. CountersOK' /\ TriesOK'
      BY <2>1 DEF CreateToken, Begin
    <3>5. QED
      BY <3>1, <3>2, <3>3, <3>4
  <2>2. ASSUME NEW w \in Workers, SetLimit(w) PROVE Ordered'
    <3>1. TypeOK'
      BY <2>2 DEF SetLimit, Return
    <3>2. LocalsOK'
      BY <2>2 DEF SetLimit, Return
    <3>3. StoredOK'
      BY <2>2 DEF SetLimit, Return
    <3>4. CountersOK' /\ TriesOK'
      BY <2>2 DEF SetLimit, Return
    <3>5. QED
      BY <3>1, <3>2, <3>3, <3>4
  <2>3. ASSUME NEW w \in Workers, NEW u \in Users, NEW g \in Tokens \cup {Wrong}, Exchange(w, u, g)
        PROVE Ordered'
    <3>1. TypeOK'
      BY <2>3 DEF Exchange, Begin
    <3>2. LocalsOK'
      BY <2>3 DEF Exchange, Begin
    <3>3. StoredOK'
      BY <2>3 DEF Exchange, Begin
    <3>4. CountersOK' /\ TriesOK'
      BY <2>3 DEF Exchange, Begin
    <3>5. QED
      BY <3>1, <3>2, <3>3, <3>4
  <2>4. ASSUME NEW w \in Workers, CountTry(w) PROVE Ordered'
    <3>1. TypeOK'
      BY <2>4 DEF CountTry, Decreased, Return
    <3>2. LocalsOK'
      BY <2>4 DEF CountTry, Return
    <3>3. StoredOK' /\ CountersOK'
      BY <2>4 DEF CountTry, Return
    <3>4. TriesOK'
      BY <2>4 DEF CountTry, Decreased, Return
    <3>5. QED
      BY <3>1, <3>2, <3>3, <3>4
  <2>5. ASSUME NEW w \in Workers, ClearToken(w) PROVE Ordered'
    BY <2>5 DEF ClearToken, Return
  <2>6. ASSUME NEW u \in Users, ExpireToken(u) PROVE Ordered'
    BY <2>6 DEF ExpireToken
  <2>7. ASSUME NEW u \in Users, ExpireLimit(u) PROVE Ordered'
    BY <2>7 DEF ExpireLimit
  <2>8. CASE UNCHANGED vars
    BY <2>8 DEF vars
  <2>9. QED
    BY <2>1, <2>2, <2>3, <2>4, <2>5, <2>6, <2>7, <2>8 DEF Next, Request, Step

\* Every command keeps Inv.
LEMMA InvStep == Inv /\ [Next]_vars => Inv'
  <1> SUFFICES ASSUME Inv, [Next]_vars PROVE Inv'
    OBVIOUS
  <1>1. TypeOK'
    <2> USE DEF Inv, TypeOK, PCs, Spent, Overlaps, keys, hist, locals
    <2>1. ASSUME NEW w \in Workers, NEW u \in Users, CreateToken(w, u) PROVE TypeOK'
      BY <2>1 DEF CreateToken, Begin
    <2>2. ASSUME NEW w \in Workers, SetLimit(w) PROVE TypeOK'
      <3>1. CASE who[w] \in Users
        BY <2>2, <3>1, TriesAssumption DEF SetLimit, Return
      <3>2. CASE who[w] \notin Users
        <4>1. limit' = limit /\ outlives' = outlives
          BY <2>2, <3>2 DEF SetLimit
        <4>2. QED
          BY <2>2, <4>1 DEF SetLimit, Return
      <3>3. QED
        BY <3>1, <3>2
    <2>3. ASSUME NEW w \in Workers, NEW u \in Users, NEW g \in Tokens \cup {Wrong},
                 Exchange(w, u, g)
          PROVE TypeOK'
      BY <2>3 DEF Exchange, Begin
    <2>4. ASSUME NEW w \in Workers, CountTry(w) PROVE TypeOK'
      <3>1. limit' \in [Users -> Spent .. Tries]
        <4>1. CASE who[w] \in Users
          <5>1. Decreased(limit[who[w]]) \in Spent .. Tries
            BY <4>1, TriesAssumption DEF Decreased
          <5>2. QED
            BY <2>4, <5>1 DEF CountTry
        <4>2. CASE who[w] \notin Users
          <5>1. limit' = limit
            BY <2>4, <4>2 DEF CountTry
          <5>2. QED
            BY <5>1
        <4>3. QED
          BY <4>1, <4>2
      <3>2. tries' \in [Tokens -> Nat]
        BY <2>4 DEF CountTry
      <3>3. /\ pc' \in [Workers -> PCs] /\ who' \in [Workers -> Users \cup {NoUser}]
            /\ given' \in [Workers -> Tokens \cup {NoToken, Wrong}]
            /\ read' \in [Workers -> Tokens \cup {NoToken}]
        BY <2>4 DEF CountTry, Return
      <3>4. UNCHANGED <<overlap, stored, outlives, issued, uses>>
        BY <2>4 DEF CountTry
      <3>5. QED
        BY <3>1, <3>2, <3>3, <3>4
    <2>5. ASSUME NEW w \in Workers, ClearToken(w) PROVE TypeOK'
      <3>1. uses' \in [Tokens -> Nat]
        <4>1. CASE given[w] \in Tokens
          BY <2>5, <4>1 DEF ClearToken
        <4>2. CASE given[w] \notin Tokens
          <5>1. uses' = uses
            BY <2>5, <4>2 DEF ClearToken
          <5>2. QED
            BY <5>1
        <4>3. QED
          BY <4>1, <4>2
      <3>2. QED
        BY <2>5, <3>1 DEF ClearToken, Return
    <2>6. ASSUME NEW u \in Users, ExpireToken(u) \/ ExpireLimit(u) PROVE TypeOK'
      BY <2>6, TriesAssumption DEF ExpireToken, ExpireLimit
    <2>7. CASE UNCHANGED vars
      BY <2>7 DEF vars
    <2>8. QED
      BY <2>1, <2>2, <2>3, <2>4, <2>5, <2>6, <2>7 DEF Next, Request, Step
  <1>2. QED
    BY <1>1, OverlapFixed, OrderedStep DEF Inv

\* Inv holds at all times.
LEMMA InvAlways == Spec => []Inv
  BY InvInit, InvStep, PTL DEF Spec

\* The tokens, their counters and the exchanges under way keep their types:
\* a counter of tries stays between Spent and Tries (create_login_token,
\* fetch_login_token, login.py:54-68).
THEOREM LoginTokenTypeCorrect == Spec => []TypeOK
  <1>1. Inv => TypeOK
    BY DEF Inv
  <1>2. QED
    BY <1>1, InvAlways, PTL

\* However the exchanges of a user overlap, DECR lets no more than Tries of them
\* compare a string with a token (fetch_login_token, login.py:63-68).
THEOREM TriesAlwaysBounded == Spec => []TriesBounded
  <1>1. Inv => TriesBounded
    BY DEF Inv, Ordered, TriesOK, TriesBounded
  <1>2. QED
    BY <1>1, InvAlways, PTL

\* Using a token removes that token, never the one that was mailed after it
\* (clear_login_token, login.py:79-80, deletes whatever is stored).
THEOREM OnlyOwnUseClears == Spec => OnlyItsOwnUseClears
  <1>1. Inv /\ [Next]_vars
          => [overlap # "any" =>
                \A u \in Users : stored[u] # NoToken /\ stored'[u] = NoToken =>
                  \/ uses'[stored[u]] > uses[stored[u]]
                  \/ ExpireToken(u)]_vars
    <2> SUFFICES ASSUME Inv, Next, overlap # "any", NEW u \in Users, stored[u] # NoToken, stored'[u] = NoToken
                 PROVE  uses'[stored[u]] > uses[stored[u]] \/ ExpireToken(u)
      BY DEF vars
    <2> USE DEF Inv, Ordered, TypeOK
    <2>1. ASSUME NEW w \in Workers, ClearToken(w) PROVE uses'[stored[u]] > uses[stored[u]]
      <3>1. who[w] = u
        BY <2>1 DEF ClearToken
      <3>2. stored[u] = given[w]
        BY <2>1, <3>1, TokenAssumption DEF ClearToken, LocalsOK, StoredOK, InFlight, Creating
      <3>3. QED
        BY <2>1, <3>2 DEF ClearToken
    <2>2. ASSUME NEW w \in Workers, NEW x \in Users, CreateToken(w, x) PROVE FALSE
      BY <2>2, TokenAssumption DEF CreateToken
    <2>3. ASSUME NEW x \in Users, ExpireToken(x) PROVE ExpireToken(u)
      BY <2>3 DEF ExpireToken
    <2>4. ASSUME UNCHANGED stored PROVE FALSE
      BY <2>4
    <2>5. QED
      BY <2>1, <2>2, <2>3, <2>4 DEF Next, Request, Step, SetLimit, Exchange, CountTry,
         ExpireLimit, keys
  <1>2. QED
    BY <1>1, InvAlways, PTL DEF Spec, OnlyItsOwnUseClears

\* Before any request Apart holds.
LEMMA ApartInit == Init => Apart
  BY TokenAssumption, UserAssumption DEF Init, Apart, Alone, UsedIsGone, InFlight, Creating

\* Every command keeps Apart, when no two requests of a user overlap.
LEMMA ApartStep == overlap = "none" /\ Ordered /\ Apart /\ [Next]_vars => Apart'
  <2> SUFFICES ASSUME overlap = "none", Ordered, Apart, [Next]_vars PROVE Apart'
    OBVIOUS
  <2> USE TokenAssumption, UserAssumption
      DEF Ordered, TypeOK, LocalsOK, StoredOK, CountersOK, PCs, Creating, InFlight, keys, hist,
          locals, Busy, Apart, Alone, UsedIsGone
  <2>1. ASSUME NEW w \in Workers, NEW u \in Users, CreateToken(w, u) PROVE Apart'
    BY <2>1 DEF CreateToken, Begin
  <2>2. ASSUME NEW w \in Workers, SetLimit(w) PROVE Apart'
    BY <2>2 DEF SetLimit, Return
  <2>3. ASSUME NEW w \in Workers, NEW u \in Users, NEW g \in Tokens \cup {Wrong}, Exchange(w, u, g)
        PROVE Apart'
    BY <2>3 DEF Exchange, Begin
  <2>4. ASSUME NEW w \in Workers, CountTry(w) PROVE Apart'
    BY <2>4 DEF CountTry, Return
  <2>5. ASSUME NEW w \in Workers, ClearToken(w) PROVE Apart'
    <3> DEFINE t == given[w]
    <3>1. t \in Tokens /\ read[w] = t /\ t = outlives[who[w]] /\ who[w] \in Users
      BY <2>5 DEF ClearToken
    <3>2. uses[t] = 0 /\ t \in issued
      BY <2>5, <3>1 DEF ClearToken
    <3>3. \A u \in Users : stored'[u] # t
      BY <2>5, <3>1 DEF ClearToken
    <3>4. \A v \in Workers : v # w => /\ InFlight(v) => read[v] # t
                                      /\ Creating(v) => given[v] # t
      BY <2>5, <3>1 DEF ClearToken
    <3>5. Alone'
      BY <2>5 DEF ClearToken, Return
    <3>6. UsedIsGone'
      BY <2>5, <3>1, <3>2, <3>3, <3>4 DEF ClearToken, Return
    <3>7. QED
      BY <3>5, <3>6
  <2>6. ASSUME NEW u \in Users, ExpireToken(u) PROVE Apart'
    BY <2>6 DEF ExpireToken
  <2>7. ASSUME NEW u \in Users, ExpireLimit(u) PROVE Apart'
    BY <2>7 DEF ExpireLimit
  <2>8. CASE UNCHANGED vars
    BY <2>8 DEF vars
  <2>9. QED
    BY <2>1, <2>2, <2>3, <2>4, <2>5, <2>6, <2>7, <2>8 DEF Next, Request, Step

\* A token logs its user in once, when no two requests of the user overlap:
\* complete_email_login deletes it before anything else (login.py:141-142).
THEOREM TokensAreSingleUse == Spec => []SingleUse
  <1>1. Init => InvApart
    BY ApartInit DEF InvApart
  <1>2. Inv /\ InvApart /\ [Next]_vars => InvApart'
    BY ApartStep, OverlapFixed DEF Inv, InvApart
  <1>3. InvApart => SingleUse
    BY DEF InvApart, Apart, UsedIsGone, SingleUse
  <1>4. QED
    BY <1>1, <1>2, <1>3, InvAlways, PTL DEF Spec
-----------------------------------------------------------------------------
(* Every environment: whose token it is, and how often it can be used *)

\* u's token is stored for u, or in the hand of a request about u.
Holds(u, t) == \/ stored[u] = t
               \/ \E w \in Workers : who[w] = u /\ (read[w] = t \/ (Creating(w) /\ given[w] = t))

\* What the program counter of a worker says of the rest; a token has one user.
HeldOK ==
    /\ \A w \in Workers :
          /\ pc[w] = "idle" => read[w] = NoToken
          /\ pc[w] # "idle" => who[w] \in Users
          /\ Creating(w) => read[w] = NoToken
          /\ pc[w] = "clear" => given[w] \in Tokens /\ read[w] = given[w]
    /\ \A t \in Tokens, u \in Users : Holds(u, t) => t \in issued
    /\ \A t \in Tokens, u, v \in Users : Holds(u, t) /\ Holds(v, t) => u = v

\* The workers that have read t and not yet answered; those about to accept it.
Reading(t) == {w \in Workers : read[w] = t}
Accepting(t) == {w \in Workers : pc[w] = "clear" /\ given[w] = t}

\* A use is a comparison; and once t was used, only who has read it can use it.
UsesOK ==
    \A t \in Tokens :
      /\ uses[t] + Cardinality(Accepting(t)) <= tries[t]
      /\ uses[t] # 0 => /\ t \in issued
                        /\ \A u \in Users : stored[u] # t
                        /\ uses[t] + Cardinality(Reading(t)) <= Cardinality(Workers)

LEMMA WorkersFinite ==
    ASSUME NEW S \in SUBSET Workers
    PROVE  /\ IsFiniteSet(S) /\ Cardinality(S) \in Nat /\ Cardinality(S) <= Cardinality(Workers)
           /\ \A w \in S : Cardinality(S \ {w}) = Cardinality(S) - 1
           /\ \A w \in Workers \ S : Cardinality(S \cup {w}) = Cardinality(S) + 1
  <1>1. IsFiniteSet(S) /\ Cardinality(S) <= Cardinality(Workers)
    BY WorkersAssumption, FS_Subset DEF WorkersAssumption
  <1>2. QED
    BY <1>1, FS_CardinalityType, FS_AddElement, FS_RemoveElement

LEMMA HeldInit == Init => HeldOK
  BY TokenAssumption, UserAssumption DEF Init, HeldOK, Holds, Creating

LEMMA HeldStep == TypeOK /\ HeldOK /\ [Next]_vars => HeldOK'
  <1> SUFFICES ASSUME TypeOK, HeldOK, [Next]_vars PROVE HeldOK'
    OBVIOUS
  <1> USE TokenAssumption, UserAssumption
      DEF TypeOK, HeldOK, Holds, PCs, Creating, keys, hist, locals, Busy
  <1>1. ASSUME NEW w \in Workers, NEW u \in Users, CreateToken(w, u) PROVE HeldOK'
    <2>1. PICK t \in Tokens \ issued : /\ stored' = [stored EXCEPT ![u] = t]
                                       /\ issued' = issued \cup {t}
                                       /\ given' = [given EXCEPT ![w] = t]
      BY <1>1 DEF CreateToken
    <2>2. /\ pc[w] = "idle" /\ pc' = [pc EXCEPT ![w] = "limit"]
          /\ who' = [who EXCEPT ![w] = u] /\ read' = read
      BY <1>1 DEF CreateToken, Begin
    <2>3. \A v \in Users : Holds(v, t)' => v = u
      BY <2>1, <2>2
    <2>4. \A v \in Users, s \in Tokens \ {t} : Holds(v, s)' => Holds(v, s)
      BY <2>1, <2>2
    <2>5. \A s \in Tokens, v \in Users : Holds(v, s)' => s \in issued'
      BY <2>1, <2>4
    <2>6. \A s \in Tokens, v, x \in Users : Holds(v, s)' /\ Holds(x, s)' => v = x
      BY <2>3, <2>4
    <2>7. QED
      BY <2>1, <2>2, <2>5, <2>6
  <1>2. ASSUME NEW w \in Workers, NEW u \in Users, NEW g \in Tokens \cup {Wrong}, Exchange(w, u, g)
        PROVE  HeldOK'
    <2>1. /\ pc[w] = "idle" /\ pc' = [pc EXCEPT ![w] = "decr"]
          /\ who' = [who EXCEPT ![w] = u] /\ given' = [given EXCEPT ![w] = g]
          /\ read' = [read EXCEPT ![w] = stored[u]]
          /\ UNCHANGED <<stored, issued>>
      BY <1>2 DEF Exchange, Begin
    <2>2. \A s \in Tokens, v \in Users : Holds(v, s)' => Holds(v, s)
      BY <2>1
    <2>3. QED
      BY <2>1, <2>2
  <1>3. ASSUME NEW w \in Workers, SetLimit(w) \/ CountTry(w) \/ ClearToken(w) PROVE HeldOK'
    <2>1. \/ Return(w) /\ (stored' = stored \/ stored' = [stored EXCEPT ![who[w]] = NoToken])
          \/ /\ read[w] \in Tokens /\ read[w] = given[w] /\ pc[w] = "decr"
             /\ pc' = [pc EXCEPT ![w] = "clear"]
             /\ UNCHANGED <<who, given, read, stored>>
      BY <1>3 DEF SetLimit, CountTry, ClearToken
    <2>2. issued' = issued
      BY <1>3 DEF SetLimit, CountTry, ClearToken
    <2>3. \A s \in Tokens, v \in Users : Holds(v, s)' => Holds(v, s)
      BY <2>1 DEF Return
    <2>4. QED
      BY <2>1, <2>2, <2>3 DEF Return
  <1>4. ASSUME NEW u \in Users, ExpireToken(u) \/ ExpireLimit(u) PROVE HeldOK'
    <2>1. \A s \in Tokens, v \in Users : Holds(v, s)' => Holds(v, s)
      BY <1>4 DEF ExpireToken, ExpireLimit
    <2>2. QED
      BY <1>4, <2>1 DEF ExpireToken, ExpireLimit
  <1>5. CASE UNCHANGED vars
    BY <1>5 DEF vars
  <1>6. QED
    BY <1>1, <1>2, <1>3, <1>4, <1>5 DEF Next, Request, Step

LEMMA HeldAlways == Spec => [](TypeOK /\ HeldOK)
  <1>1. Inv => TypeOK
    BY DEF Inv
  <1>2. QED
    BY <1>1, InvAlways, HeldInit, HeldStep, PTL DEF Spec

\* Nobody ever comes by a token that was made for another: an issued token is held
\* for one user and goes to no other, whatever overlaps.
TokensStayApart ==
    [][\A t \in issued : \A u, v \in Users :
         /\ Holds(u, t)' => Holds(u, t)
         /\ Holds(u, t) /\ Holds(v, t) => u = v]_vars

THEOREM TokensAlwaysApart == Spec => TokensStayApart
  <1> DEFINE A == \A t \in issued : \A u, v \in Users :
                     /\ Holds(u, t)' => Holds(u, t)
                     /\ Holds(u, t) /\ Holds(v, t) => u = v
  <1>1. ASSUME TypeOK, HeldOK, [Next]_vars PROVE A
    <2> USE DEF TypeOK, HeldOK, Holds, PCs, Creating, keys, hist, locals
    <2>1. issued \subseteq Tokens
      BY <1>1
    <2>2. ASSUME NEW w \in Workers, NEW u \in Users, CreateToken(w, u) PROVE A
      BY <1>1, <2>1, <2>2, TokenAssumption DEF CreateToken, Begin
    <2>3. ASSUME NEW w \in Workers, NEW u \in Users, NEW g \in Tokens \cup {Wrong}, Exchange(w, u, g)
          PROVE  A
      BY <1>1, <2>1, <2>3 DEF Exchange, Begin
    <2>4. ASSUME NEW w \in Workers, SetLimit(w) \/ CountTry(w) \/ ClearToken(w) PROVE A
      BY <1>1, <2>1, <2>4, TokenAssumption DEF SetLimit, CountTry, ClearToken, Return
    <2>5. ASSUME NEW u \in Users, ExpireToken(u) \/ ExpireLimit(u) PROVE A
      BY <1>1, <2>1, <2>5, TokenAssumption DEF ExpireToken, ExpireLimit
    <2>6. CASE UNCHANGED vars
      BY <1>1, <2>1, <2>6 DEF vars
    <2>7. QED
      BY <1>1, <2>2, <2>3, <2>4, <2>5, <2>6 DEF Next, Request, Step
  <1>2. QED
    BY <1>1, HeldAlways, PTL DEF Spec, TokensStayApart

LEMMA UsesInit == Init => UsesOK
  <1> SUFFICES ASSUME Init PROVE UsesOK
    OBVIOUS
  <1>1. \A t \in Tokens : Accepting(t) = {}
    BY DEF Init, Accepting
  <1>2. QED
    BY <1>1, FS_EmptySet DEF Init, UsesOK

\* Nothing is lost when a command leaves the uses alone, and takes no used token.
LEMMA UsesKept ==
    ASSUME TypeOK, UsesOK, uses' = uses,
           \A t \in Tokens : /\ Accepting(t)' = Accepting(t) /\ tries'[t] >= tries[t]
                             /\ tries'[t] \in Nat
                             /\ uses[t] # 0 => /\ t \in issued'
                                               /\ \A u \in Users : stored'[u] # t
                                               /\ Reading(t)' \subseteq Reading(t)
    PROVE  UsesOK'
  <1>1. ASSUME NEW t \in Tokens PROVE uses[t] + Cardinality(Accepting(t)') <= tries'[t]
    <2>1. Cardinality(Accepting(t)) \in Nat
      BY WorkersFinite DEF Accepting
    <2>2. QED
      BY <1>1, <2>1 DEF TypeOK, UsesOK
  <1>2. ASSUME NEW t \in Tokens, uses[t] # 0
        PROVE  uses[t] + Cardinality(Reading(t)') <= Cardinality(Workers)
    <2>1. Reading(t) \in SUBSET Workers /\ Reading(t)' \in SUBSET Reading(t)
      BY <1>2 DEF Reading
    <2>2. /\ Cardinality(Reading(t)) \in Nat /\ Cardinality(Reading(t)') \in Nat
          /\ Cardinality(Workers) \in Nat
          /\ Cardinality(Reading(t)') <= Cardinality(Reading(t))
      BY <2>1, WorkersFinite, FS_Subset
    <2>3. QED
      BY <1>2, <2>2 DEF TypeOK, UsesOK
  <1>3. QED
    BY <1>1, <1>2 DEF UsesOK

LEMMA UsesStep == TypeOK /\ TypeOK' /\ HeldOK /\ UsesOK /\ [Next]_vars => UsesOK'
  <1> SUFFICES ASSUME TypeOK, TypeOK', HeldOK, UsesOK, [Next]_vars PROVE UsesOK'
    OBVIOUS
  <1>t. tries' \in [Tokens -> Nat] /\ tries \in [Tokens -> Nat] /\ uses \in [Tokens -> Nat]
    BY DEF TypeOK
  <1>1. ASSUME NEW w \in Workers, NEW u \in Users,
               CreateToken(w, u) \/ \E g \in Tokens \cup {Wrong} : Exchange(w, u, g)
        PROVE  UsesOK'
    <2>1. uses' = uses /\ tries' = tries
      BY <1>1 DEF CreateToken, Exchange, hist
    <2>2. \A t \in Tokens : Accepting(t)' = Accepting(t)
      BY <1>1 DEF CreateToken, Exchange, Begin, Accepting, TypeOK
    <2>3. ASSUME NEW t \in Tokens, uses[t] # 0
          PROVE  /\ t \in issued' /\ \A v \in Users : stored'[v] # t
                 /\ Reading(t)' \subseteq Reading(t)
      <3>1. t \in issued /\ \A v \in Users : stored[v] # t
        BY <2>3 DEF UsesOK
      <3>2. CASE CreateToken(w, u)
        BY <3>1, <3>2 DEF CreateToken, Reading, TypeOK
      <3>3. CASE \E g \in Tokens \cup {Wrong} : Exchange(w, u, g)
        BY <3>1, <3>3 DEF Exchange, Reading, TypeOK, keys
      <3>4. QED
        BY <1>1, <3>2, <3>3
    <2>4. QED
      BY <1>t, <2>1, <2>2, <2>3, UsesKept
  <1>2. ASSUME NEW w \in Workers, SetLimit(w) PROVE UsesOK'
    <2>1. uses' = uses /\ tries' = tries /\ stored' = stored /\ issued' = issued
      BY <1>2 DEF SetLimit, hist
    <2>2. \A t \in Tokens : Accepting(t)' = Accepting(t) /\ Reading(t)' \subseteq Reading(t)
      BY <1>2, TokenAssumption DEF SetLimit, Return, Accepting, Reading, TypeOK
    <2>3. QED
      BY <1>t, <2>1, <2>2, UsesKept DEF UsesOK
  <1>3. ASSUME NEW w \in Workers, CountTry(w) PROVE UsesOK'
    <2>1. /\ pc[w] = "decr" /\ uses' = uses /\ stored' = stored /\ issued' = issued
          /\ who[w] \in Users
      BY <1>3 DEF CountTry, HeldOK
    <2>2. \A t \in Tokens : Reading(t)' \subseteq Reading(t)
      BY <1>3, TokenAssumption DEF CountTry, Return, Reading, TypeOK
    <2>3. CASE Return(w)
      <3>1. \A t \in Tokens : Accepting(t)' = Accepting(t)
        BY <2>1, <2>3, TokenAssumption DEF Return, Accepting, TypeOK
      <3>2. \A t \in Tokens : tries'[t] >= tries[t]
        BY <1>3, <1>t DEF CountTry
      <3>3. QED
        BY <1>t, <2>1, <2>2, <3>1, <3>2, UsesKept DEF UsesOK
    <2>4. CASE ~Return(w)
      <3>1. /\ read[w] \in Tokens /\ read[w] = given[w]
            /\ tries' = [tries EXCEPT ![read[w]] = @ + 1]
            /\ pc' = [pc EXCEPT ![w] = "clear"]
            /\ UNCHANGED <<who, given, read>>
        BY <1>3, <2>4 DEF CountTry, TypeOK
      <3>s. PICK s \in Tokens : s = given[w]
        BY <3>1
      <3>2. /\ w \notin Accepting(s) /\ Accepting(s)' = Accepting(s) \cup {w}
            /\ \A t \in Tokens \ {s} : Accepting(t)' = Accepting(t)
            /\ \A t \in Tokens : Reading(t)' = Reading(t)
        BY <2>1, <3>1, <3>s DEF Accepting, Reading, TypeOK
      <3>3. Cardinality(Accepting(s)) \in Nat /\ Cardinality(Accepting(s)') = Cardinality(Accepting(s)) + 1
        BY <3>2, WorkersFinite DEF Accepting
      <3>4. uses[s] + Cardinality(Accepting(s)') <= tries'[s]
        BY <1>t, <2>1, <3>1, <3>s, <3>3 DEF UsesOK
      <3>5. \A t \in Tokens \ {s} : uses[t] + Cardinality(Accepting(t)') <= tries'[t]
        BY <1>t, <2>1, <3>1, <3>s, <3>2 DEF UsesOK
      <3>6. ASSUME NEW t \in Tokens PROVE uses'[t] + Cardinality(Accepting(t)') <= tries'[t]
        <4>1. CASE t = s
          BY <2>1, <3>4, <4>1
        <4>2. CASE t # s
          BY <2>1, <3>5, <4>2
        <4>3. QED
          BY <4>1, <4>2
      <3>7. ASSUME NEW t \in Tokens, uses'[t] # 0
            PROVE  /\ t \in issued'
                   /\ \A u \in Users : stored'[u] # t
                   /\ uses'[t] + Cardinality(Reading(t)') <= Cardinality(Workers)
        <4>1. uses[t] # 0 /\ Reading(t)' = Reading(t)
          BY <2>1, <3>2, <3>7
        <4>2. QED
          BY <2>1, <4>1 DEF UsesOK
      <3>8. QED
        BY <3>6, <3>7 DEF UsesOK
    <2>5. QED
      BY <2>3, <2>4
  <1>4. ASSUME NEW w \in Workers, ClearToken(w) PROVE UsesOK'
    <2>s. PICK s \in Tokens, x \in Users : s = given[w] /\ x = who[w]
      BY <1>4 DEF ClearToken, HeldOK
    <2>1. /\ pc[w] = "clear" /\ given[w] = s /\ read[w] = s /\ who[w] = x
          /\ stored' = [stored EXCEPT ![x] = NoToken]
          /\ uses' = [uses EXCEPT ![s] = @ + 1]
          /\ tries' = tries /\ issued' = issued /\ Return(w)
      BY <1>4, <2>s DEF ClearToken, HeldOK
    <2>2. /\ Accepting(s)' = Accepting(s) \ {w} /\ w \in Accepting(s)
          /\ Reading(s)' = Reading(s) \ {w} /\ w \in Reading(s)
          /\ \A t \in Tokens \ {s} : Accepting(t)' = Accepting(t) /\ Reading(t)' = Reading(t)
      <3>1. /\ pc' = [pc EXCEPT ![w] = "idle"] /\ pc \in [Workers -> PCs]
            /\ given' = [given EXCEPT ![w] = NoToken]
            /\ read' = [read EXCEPT ![w] = NoToken] /\ read \in [Workers -> Tokens \cup {NoToken}]
            /\ given \in [Workers -> Tokens \cup {NoToken, Wrong}]
        BY <2>1 DEF Return, TypeOK
      <3>2. /\ pc'[w] = "idle" /\ read'[w] = NoToken
            /\ \A v \in Workers \ {w} : pc'[v] = pc[v] /\ given'[v] = given[v] /\ read'[v] = read[v]
        BY <3>1
      <3>3. Accepting(s)' = Accepting(s) \ {w} /\ w \in Accepting(s)
        BY <2>1, <3>2 DEF Accepting
      <3>4. Reading(s)' = Reading(s) \ {w} /\ w \in Reading(s)
        BY <2>1, <3>2, TokenAssumption DEF Reading
      <3>5. ASSUME NEW t \in Tokens \ {s}
            PROVE  Accepting(t)' = Accepting(t) /\ Reading(t)' = Reading(t)
        BY <2>1, <3>2, TokenAssumption DEF Accepting, Reading
      <3>6. QED
        BY <3>3, <3>4, <3>5
    <2>3. /\ Cardinality(Accepting(s)) \in Nat /\ Cardinality(Accepting(s)') = Cardinality(Accepting(s)) - 1
          /\ Cardinality(Reading(s)) \in Nat /\ Cardinality(Reading(s)') = Cardinality(Reading(s)) - 1
          /\ Cardinality(Reading(s)) <= Cardinality(Workers) /\ Cardinality(Workers) \in Nat
      <3>1. Accepting(s) \in SUBSET Workers /\ Reading(s) \in SUBSET Workers
        BY DEF Accepting, Reading
      <3>2. QED
        BY <2>2, <3>1, WorkersFinite
    <2>4. Holds(x, s) /\ s \in issued
      BY <2>1 DEF Holds, HeldOK
    <2>5. \A u \in Users : stored'[u] # s
      BY <2>1, <2>4, TokenAssumption DEF Holds, HeldOK, TypeOK
    <2>6. /\ uses'[s] = uses[s] + 1
          /\ \A t \in Tokens \ {s} : uses'[t] = uses[t]
      BY <1>t, <2>1
    <2>7. /\ uses'[s] + Cardinality(Accepting(s)') <= tries'[s]
          /\ uses'[s] + Cardinality(Reading(s)') <= Cardinality(Workers)
      <3>1. uses[s] + Cardinality(Accepting(s)) <= tries[s]
        BY <2>1 DEF UsesOK
      <3>2. uses[s] # 0 => uses[s] + Cardinality(Reading(s)) <= Cardinality(Workers)
        BY <2>1 DEF UsesOK
      <3>3. QED
        BY <1>t, <2>1, <2>3, <2>6, <3>1, <3>2
    <2>8. ASSUME NEW t \in Tokens \ {s}
          PROVE  /\ uses'[t] + Cardinality(Accepting(t)') <= tries'[t]
                 /\ uses'[t] # 0 => /\ t \in issued' /\ \A u \in Users : stored'[u] # t
                                    /\ uses'[t] + Cardinality(Reading(t)') <= Cardinality(Workers)
      BY <2>1, <2>2, <2>6, TokenAssumption DEF UsesOK, TypeOK
    <2>9. ASSUME NEW t \in Tokens
          PROVE  /\ uses'[t] + Cardinality(Accepting(t)') <= tries'[t]
                 /\ uses'[t] # 0 => /\ t \in issued' /\ \A u \in Users : stored'[u] # t
                                    /\ uses'[t] + Cardinality(Reading(t)') <= Cardinality(Workers)
      <3>1. CASE t = s
        BY <2>1, <2>4, <2>5, <2>7, <3>1
      <3>2. CASE t # s
        BY <2>8, <3>2
      <3>3. QED
        BY <3>1, <3>2
    <2>10. QED
      BY <2>9 DEF UsesOK
  <1>5. ASSUME NEW u \in Users, ExpireToken(u) \/ ExpireLimit(u) PROVE UsesOK'
    <2>1. /\ UNCHANGED <<issued, pc, who, given, read, tries, uses>>
          /\ \A v \in Users : stored'[v] \in {stored[v], NoToken}
      BY <1>5 DEF ExpireToken, ExpireLimit, locals, hist, TypeOK
    <2>2. \A t \in Tokens : Accepting(t)' = Accepting(t) /\ Reading(t)' = Reading(t)
      BY <2>1 DEF Accepting, Reading
    <2>3. QED
      BY <1>t, <2>1, <2>2, TokenAssumption, UsesKept DEF UsesOK
  <1>6. CASE UNCHANGED vars
    <2>1. \A t \in Tokens : Accepting(t)' = Accepting(t) /\ Reading(t)' = Reading(t)
      BY <1>6 DEF vars, Accepting, Reading
    <2>2. QED
      BY <1>t, <1>6, <2>1, UsesKept DEF UsesOK, vars
  <1>7. QED
    BY <1>1, <1>2, <1>3, <1>4, <1>5, <1>6 DEF Next, Request, Step

LEMMA UsesAlways == Spec => []UsesOK
  <1>1. TypeOK /\ HeldOK /\ TypeOK' /\ HeldOK' /\ UsesOK /\ [Next]_vars => UsesOK'
    BY UsesStep
  <1>2. QED
    BY <1>1, HeldAlways, UsesInit, PTL DEF Spec

\* How often a token can log its user in, in every environment: no more often than
\* it was compared, so that Tries is a bound on double use also (while no token is
\* created meanwhile), and no more often than there are server processes: who
\* uses it deletes it, so only a request that has already read it can follow.
UsesBounded ==
    \A t \in Tokens : /\ uses[t] <= tries[t] /\ uses[t] <= Cardinality(Workers)
                      /\ overlap # "any" => uses[t] <= Tries

\* SingleUse asks that no two requests of a user overlap.  Without that a token may
\* be used again, but by as many processes at most as the server has (two in the
\* Dockerfile, line 23), and once if it has one.
THEOREM UsesAlwaysBounded == Spec => []UsesBounded
  <1>1. TypeOK /\ UsesOK /\ TriesBounded => UsesBounded
    <2> SUFFICES ASSUME TypeOK, UsesOK, TriesBounded, NEW t \in Tokens
                 PROVE  /\ uses[t] <= tries[t] /\ uses[t] <= Cardinality(Workers)
                        /\ overlap # "any" => uses[t] <= Tries
      BY DEF UsesBounded
    <2>1. Cardinality(Accepting(t)) \in Nat /\ Cardinality(Reading(t)) \in Nat /\ Cardinality(Workers) \in Nat
      <3>1. Accepting(t) \in SUBSET Workers /\ Reading(t) \in SUBSET Workers
        BY DEF Accepting, Reading
      <3>2. QED
        BY <3>1, WorkersFinite
    <2>2. uses[t] \in Nat /\ tries[t] \in Nat /\ Tries \in Nat
      BY TriesAssumption DEF TypeOK, TriesAssumption
    <2>3. uses[t] <= tries[t] /\ uses[t] <= Cardinality(Workers)
      BY <2>1, <2>2 DEF UsesOK
    <2>4. overlap # "any" => tries[t] <= Tries
      BY DEF TriesBounded
    <2>5. QED
      BY <2>2, <2>3, <2>4
  <1>2. QED
    BY <1>1, HeldAlways, UsesAlways, TriesAlwaysBounded, PTL
=============================================================================
