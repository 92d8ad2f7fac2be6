---------------------------- MODULE ContentsProofs ----------------------------
(***************************************************************************)
(* Theorems about Contents, for every set of requests, workers, sites and  *)
(* languages: the types, the files of images, texts that can be read, what *)
(* the row locks exclude, and that requests come to their end.             *)
(***************************************************************************)
EXTENDS Contents, FiniteSetTheorems, TLAPS

\* A request under way has come to a statement that it has something for.
OrdersOK ==
    \A r \in Requests : /\ order[r] # NoOrder => order[r] \in Asks
                        /\ Under(r) => order[r] # NoOrder /\ Involves(order[r], pc[r])

Inv == TypeOK /\ OrdersOK

\* The file of an image is written before the rest of its request; a request
\* without an image has none, nor one that has not come.
FilesOK ==
    \A r \in Requests :
        /\ r \in rows => file[r] = "whole" /\ pc[r] = "done"
        /\ pc[r] = "idle" => file[r] = "none"
        /\ pc[r] = "done" /\ r \notin rows => file[r] = "none"
        /\ Under(r) /\ order[r].image # "new" => file[r] = "none"
        /\ Under(r) /\ order[r].image = "new" /\ pc[r] \notin {"open", "write"} => file[r] = "whole"

\* A name leads to a committed row, and is not asked for before it is shown.
NamesOK == /\ \A x \in Things : image[x] \in rows \cup {NoImage}
           /\ shown \subseteq rows
           /\ \A w \in Workers, i \in Requests : cache[w][i] # "missing"

\* What was made has a text in the language that it was made for.
TextsOK == \A x \in made : drawn[x] \in texts[x]
-----------------------------------------------------------------------------
(* The order of the statements *)

\* The plan of what may be asked is one of five.
LEMMA Plans ==
    ASSUME NEW o \in Asks
    PROVE  \/ Plan(o) = <<"delete", "commit">> /\ o.op = "delete" /\ o.image = "keep"
           \/ Plan(o) = <<"open", "write", "insert", "info", "contact", "commit">>
              /\ o.op = "create" /\ o.x = Project
           \/ Plan(o) = <<"open", "write", "contact", "info", "update", "commit">>
              /\ o.op = "modify" /\ o.x = Project
           \/ Plan(o) = <<"open", "write", "insert", "info", "default", "commit">>
              /\ o.op = "create" /\ o.x # Project
           \/ Plan(o) = <<"open", "write", "update", "info", "commit">>
              /\ o.op = "modify" /\ o.x # Project
  <1>1. CASE o.op = "delete"
    BY <1>1 DEF Plan, Asks, Sensible
  <1>2. CASE o.op = "create" /\ o.x = Project
    BY <1>2 DEF Plan
  <1>3. CASE o.op = "modify" /\ o.x = Project
    BY <1>3 DEF Plan
  <1>4. CASE o.op = "create" /\ o.x # Project
    BY <1>4 DEF Plan
  <1>5. CASE o.op = "modify" /\ o.x # Project
    BY <1>5 DEF Plan
  <1>6. o.op \in {"create", "modify", "delete"}
    BY DEF Asks, Order
  <1>7. QED
    BY <1>1, <1>2, <1>3, <1>4, <1>5, <1>6

\* Every plan but that of a delete starts with the image.
LEMMA Shape ==
    ASSUME NEW o \in Asks
    PROVE  /\ DOMAIN Plan(o) \subseteq Nat \ {0}
           /\ \A k \in DOMAIN Plan(o) :
                /\ Plan(o)[k] \in Statements
                /\ Plan(o)[k] = "open" <=> k = 1 /\ o.op # "delete"
                /\ Plan(o)[k] = "write" <=> k = 2 /\ o.op # "delete"
           /\ o.op # "delete" => 1 \in DOMAIN Plan(o) /\ 2 \in DOMAIN Plan(o)
           /\ o.op = "delete" => o.image = "keep"
  <1>1. CASE Plan(o) = <<"delete", "commit">> /\ o.op = "delete" /\ o.image = "keep"
    BY <1>1 DEF Statements
  <1>2. CASE Plan(o) = <<"open", "write", "insert", "info", "contact", "commit">> /\ o.op = "create"
    BY <1>2 DEF Statements
  <1>3. CASE Plan(o) = <<"open", "write", "contact", "info", "update", "commit">> /\ o.op = "modify"
    BY <1>3 DEF Statements
  <1>4. CASE Plan(o) = <<"open", "write", "insert", "info", "default", "commit">> /\ o.op = "create"
    BY <1>4 DEF Statements
  <1>5. CASE Plan(o) = <<"open", "write", "update", "info", "commit">> /\ o.op = "modify"
    BY <1>5 DEF Statements
  <1>6. QED
    BY <1>1, <1>2, <1>3, <1>4, <1>5, Plans

\* A request comes to a statement that it has something for; to that of the
\* file first, if it has an image.
LEMMA Coming ==
    ASSUME NEW o \in Asks, NEW r \in Requests, GoesOn(r, o, 0)
    PROVE  \E t \in Statements : /\ pc' = [pc EXCEPT ![r] = t]
                                 /\ Involves(o, t)
                                 /\ o.image = "new" => t = "open"
  <1>1. PICK n \in DOMAIN Plan(o) :
            /\ n > 0 /\ Involves(o, Plan(o)[n])
            /\ \A m \in DOMAIN Plan(o) : 0 < m /\ m < n => ~Involves(o, Plan(o)[m])
            /\ pc' = [pc EXCEPT ![r] = Plan(o)[n]]
    BY DEF GoesOn
  <1>2. o.image = "new" => Plan(o)[n] = "open"
    <2> SUFFICES ASSUME o.image = "new" PROVE Plan(o)[n] = "open"
      OBVIOUS
    <2>1. 1 \in DOMAIN Plan(o) /\ Plan(o)[1] = "open" /\ n \in Nat \ {0}
      BY Shape
    <2>2. Involves(o, Plan(o)[1])
      BY <2>1 DEF Involves
    <2>3. ~(1 < n)
      BY <2>1, <2>2, <1>1
    <2>4. QED
      BY <2>1, <2>3
  <1>3. QED
    BY <1>1, <1>2, Shape

\* From a statement a request goes on to a later one, and from open() to the
\* writing of the file.
LEMMA Going ==
    ASSUME NEW r \in Requests, NEW s, order[r] \in Asks, Executed(r, s)
    PROVE  /\ pc[r] = s
           /\ \E t \in Statements \ {"open"} :
                /\ pc' = [pc EXCEPT ![r] = t]
                /\ Involves(order[r], t)
                /\ t = "write" => s = "open"
                /\ order[r].image = "new" /\ s = "open" => t = "write"
  <1> DEFINE o == order[r]
  <1>1. PICK k \in DOMAIN Plan(o) : Plan(o)[k] = s /\ GoesOn(r, o, k)
    BY DEF Executed
  <1>2. PICK n \in DOMAIN Plan(o) :
            /\ n > k /\ Involves(o, Plan(o)[n])
            /\ \A m \in DOMAIN Plan(o) : k < m /\ m < n => ~Involves(o, Plan(o)[m])
            /\ pc' = [pc EXCEPT ![r] = Plan(o)[n]]
    BY <1>1 DEF GoesOn
  <1>3. k \in Nat \ {0} /\ n \in Nat \ {0} /\ n > 1
    BY <1>2, Shape
  <1>4. Plan(o)[n] \in Statements \ {"open"}
    BY <1>3, Shape
  <1>5. Plan(o)[n] = "write" => s = "open"
    BY <1>1, <1>2, <1>3, Shape
  <1>6. o.image = "new" /\ s = "open" => Plan(o)[n] = "write"
    <2> SUFFICES ASSUME o.image = "new", s = "open" PROVE Plan(o)[n] = "write"
      OBVIOUS
    <2>1. k = 1 /\ 2 \in DOMAIN Plan(o) /\ Plan(o)[2] = "write"
      BY <1>1, Shape
    <2>2. Involves(o, Plan(o)[2])
      BY <2>1 DEF Involves
    <2>3. ~(2 < n)
      BY <2>1, <2>2, <1>2
    <2>4. QED
      BY <2>1, <2>3, <1>3
  <1>7. pc[r] = s
    BY DEF Executed
  <1>8. QED
    BY <1>2, <1>4, <1>5, <1>6, <1>7
-----------------------------------------------------------------------------
(* Types *)

\* The rows that a statement locks exist as types of rows.
LEMMA WantsType ==
    ASSUME NEW o \in Order, NEW s \in Statements, Involves(o, s)
    PROVE  Wants(o, s) \subseteq {"S", "X"} \X Rows
  <1>1. o.x \in Rows /\ Project \in Rows /\ Contact \in Rows
    BY DEF Order, Rows, Things
  <1>2. \A l \in Langs : <<o.x, l>> \in Rows
    BY DEF Order, Rows
  <1>3. CASE s = "insert"
    BY <1>1, <1>3 DEF Wants
  <1>4. CASE s = "contact"
    BY <1>1, <1>4 DEF Wants
  <1>5. CASE s = "info"
    <2>1. o.info \in Langs
      BY <1>5 DEF Involves, Order
    <2>2. QED
      BY <1>1, <1>2, <1>5, <2>1 DEF Wants
  <1>6. CASE s = "default"
    <2>1. o.seen \in Langs
      BY DEF Order
    <2>2. QED
      BY <1>1, <1>2, <1>6, <2>1 DEF Wants
  <1>7. CASE s = "update"
    BY <1>1, <1>7 DEF Wants
  <1>8. CASE s = "delete"
    BY <1>1, <1>2, <1>8 DEF Wants
  <1>9. CASE s \in {"open", "write", "commit"}
    BY <1>9 DEF Wants
  <1>10. QED
    BY <1>3, <1>4, <1>5, <1>6, <1>7, <1>8, <1>9 DEF Statements

\* What an order that may be asked for says.
LEMMA AskedType ==
    ASSUME NEW o \in Asks
    PROVE  /\ o \in Order /\ o # NoOrder
           /\ o.x \in Things /\ o.seen \in Langs
           /\ o.default \in Langs \cup {NoLang}
           /\ o.op = "create" => o.info \in Langs
           /\ o.op = "delete" => o.image = "keep"
  <1>1. o \in Order
    BY DEF Asks
  <1>2. o.op = "create" => o.info # NoLang
    BY DEF Asks, Sensible
  <1>3. o.op = "delete" => o.image = "keep"
    BY DEF Asks, Sensible
  <1>4. QED
    BY <1>1, <1>2, <1>3, NullAssumption DEF Order, NullAssumption

Standings == Statements \cup {"idle", "done", "failed"}

\* A request that goes on stays in order.
LEMMA GoesOnInOrder ==
    ASSUME Inv, NEW r \in Requests, NEW s, Under(r), Executed(r, s), order' = order
    PROVE  pc' \in [Requests -> Standings] /\ OrdersOK'
  <1>1. order[r] \in Asks
    BY DEF Inv, OrdersOK
  <1>2. PICK t \in Statements : pc' = [pc EXCEPT ![r] = t] /\ Involves(order[r], t)
    BY <1>1, Going
  <1>3. pc \in [Requests -> Standings]
    BY DEF Inv, TypeOK, Standings
  <1>4. pc' \in [Requests -> Standings]
    BY <1>2, <1>3 DEF Standings
  <1>5. OrdersOK'
    <2> SUFFICES ASSUME NEW q \in Requests
                 PROVE  /\ order[q] # NoOrder => order[q] \in Asks
                        /\ pc'[q] \in Statements => order[q] # NoOrder /\ Involves(order[q], pc'[q])
      BY DEF OrdersOK, Under
    <2>1. order[q] # NoOrder => order[q] \in Asks
      BY DEF Inv, OrdersOK
    <2>2. CASE q = r
      BY <1>1, <1>2, <1>3, <2>1, <2>2 DEF Inv, OrdersOK
    <2>3. CASE q # r
      BY <1>2, <1>3, <2>1, <2>3 DEF Inv, OrdersOK, Under
    <2>4. QED
      BY <2>2, <2>3
  <1>6. QED
    BY <1>4, <1>5

\* A request that ends is no longer under way.
LEMMA EndsInOrder ==
    ASSUME Inv, NEW r \in Requests, NEW how \in {"done", "failed"}, Ends(r, how), order' = order
    PROVE  /\ pc' \in [Requests -> Standings] /\ OrdersOK'
           /\ locks' \subseteq Requests \X {"S", "X"} \X Rows
  <1>1. pc \in [Requests -> Standings] /\ locks \subseteq Requests \X {"S", "X"} \X Rows
    BY DEF Inv, TypeOK, Standings
  <1>2. how \notin Statements
    BY DEF Statements
  <1>3. pc' = [pc EXCEPT ![r] = how] /\ locks' = Release(r)
    BY DEF Ends
  <1>4. locks' \subseteq locks
    BY <1>3 DEF Release
  <1>5. pc' \in [Requests -> Standings]
    BY <1>1, <1>3 DEF Standings
  <1>6. OrdersOK'
    BY <1>1, <1>2, <1>3 DEF Inv, OrdersOK, Under
  <1>7. QED
    BY <1>1, <1>4, <1>5, <1>6

\* What is written about images keeps its type.
LEMMA ImagesTypes ==
    ASSUME ImagesTypeOK, NEW i \in Requests,
           \/ OpenFile(i) \/ WriteFile(i) \/ CommitRow(i) \/ Show(i)
           \/ \E w \in Workers : GetImage(w, i) \/ Forget(w, i)
    PROVE  ImagesTypeOK'
  <1>1. CASE OpenFile(i) \/ WriteFile(i)
    BY <1>1 DEF ImagesTypeOK, OpenFile, WriteFile
  <1>2. CASE CommitRow(i) \/ Show(i)
    BY <1>2 DEF ImagesTypeOK, CommitRow, Show
  <1>3. ASSUME NEW w \in Workers, GetImage(w, i) PROVE ImagesTypeOK'
    BY <1>3 DEF ImagesTypeOK, GetImage
  <1>4. ASSUME NEW w \in Workers, Forget(w, i) PROVE ImagesTypeOK'
    BY <1>4 DEF ImagesTypeOK, Forget
  <1>5. QED
    BY <1>1, <1>2, <1>3, <1>4

ContentsTypeOK == /\ made \subseteq Things
                  /\ texts \in [Things -> SUBSET Langs]
                  /\ image \in [Things -> Requests \cup {NoImage}]
                  /\ default \in Langs /\ contact \in BOOLEAN
                  /\ drawn \in [Things -> Langs]

\* A commit writes languages, images and flags.
LEMMA CommitTypes ==
    ASSUME Inv, NEW r \in Requests, Under(r),
           CommitCreate(r) \/ CommitModify(r) \/ CommitDelete(r)
    PROVE  ImagesTypeOK' /\ ContentsTypeOK'
  <1> DEFINE o == order[r]
  <1>1. o \in Asks /\ ImagesTypeOK /\ ContentsTypeOK
    BY DEF Inv, OrdersOK, TypeOK, ContentsTypeOK
  <1>2. o.x \in Things /\ o.seen \in Langs /\ (o.op = "create" => o.info \in Langs)
        /\ o.default \in Langs \cup {NoLang} /\ o \in Order
    BY <1>1, AskedType
  <1>3. Written(o) \subseteq Langs
    <2>1. Executes(o, "info") => o.info \in Langs
      BY <1>2 DEF Executes, Involves, Order
    <2>2. QED
      BY <1>2, <2>1 DEF Written
  <1>4. ImageAfter(r, o.x) \in Requests \cup {NoImage}
    BY <1>1, <1>2 DEF ImageAfter, ContentsTypeOK
  <1>5. Contacted(o) \in BOOLEAN
    BY <1>1 DEF Contacted, ContentsTypeOK
  <1>6. CommitImage(r) => ImagesTypeOK'
    <2>1. CASE CommitRow(r)
      BY <1>1, <2>1, ImagesTypes
    <2>2. CASE UNCHANGED images
      BY <1>1, <2>2 DEF ImagesTypeOK, images
    <2>3. QED
      BY <2>1, <2>2 DEF CommitImage
  <1>7. CASE CommitCreate(r)
    <2>1. /\ CommitImage(r)
          /\ made' = made \cup {o.x}
          /\ texts' = [texts EXCEPT ![o.x] = Written(o)]
          /\ image' = [image EXCEPT ![o.x] = ImageAfter(r, o.x)]
          /\ default' = IF o.x = Project THEN o.info ELSE default
          /\ contact' = Contacted(o)
          /\ drawn' = [drawn EXCEPT ![o.x] = IF o.x = Project THEN o.info ELSE o.seen]
          /\ o.op = "create"
      BY <1>7 DEF CommitCreate, Commits
    <2>2. QED
      BY <1>1, <1>2, <1>3, <1>4, <1>5, <1>6, <2>1 DEF ContentsTypeOK
  <1>8. CASE CommitModify(r)
    <2>1. CommitImage(r)
      BY <1>8 DEF CommitModify
    <2>2. CASE o.x \notin made
      BY <1>1, <1>6, <1>8, <2>1, <2>2 DEF CommitModify, contents, ContentsTypeOK
    <2>3. CASE o.x \in made
      <3>1. /\ texts' = [texts EXCEPT ![o.x] = @ \cup Written(o)]
            /\ image' = [image EXCEPT ![o.x] = ImageAfter(r, o.x)]
            /\ default' = IF o.default = NoLang THEN default ELSE o.default
            /\ contact' = Contacted(o)
            /\ UNCHANGED <<made, drawn>>
        BY <1>8, <2>3 DEF CommitModify
      <3>2. QED
        BY <1>1, <1>2, <1>3, <1>4, <1>5, <1>6, <2>1, <3>1 DEF ContentsTypeOK
    <2>4. QED
      BY <2>2, <2>3
  <1>9. CASE CommitDelete(r)
    BY <1>1, <1>2, <1>9 DEF CommitDelete, ContentsTypeOK, ImagesTypeOK, images
  <1>10. QED
    BY <1>7, <1>8, <1>9
-----------------------------------------------------------------------------
(* Type correctness *)

LEMMA InvInit == Init => Inv
  <1> SUFFICES ASSUME Init PROVE Inv
    OBVIOUS
  <1>1. ImagesTypeOK
    BY DEF Init, ImagesInit, ImagesTypeOK
  <1>2. TypeOK
    BY <1>1 DEF Init, TypeOK
  <1>3. OrdersOK
    BY DEF Init, OrdersOK, Under, Statements
  <1>4. QED
    BY <1>2, <1>3 DEF Inv

LEMMA InvStep == Inv /\ [Next]_vars => Inv'
  <1> SUFFICES ASSUME Inv, [Next]_vars PROVE Inv'
    OBVIOUS
  <1> USE DEF Standings, ContentsTypeOK
  <1>1. ASSUME NEW r \in Requests, NEW o \in Asks, Arrive(r, o) PROVE Inv'
    <2>1. /\ order' = [order EXCEPT ![r] = o] /\ GoesOn(r, o, 0)
          /\ UNCHANGED <<images, contents, locks>>
      BY <1>1 DEF Arrive
    <2>2. PICK t \in Statements : pc' = [pc EXCEPT ![r] = t] /\ Involves(o, t)
      BY <2>1, Coming
    <2>3. o \in Order /\ o # NoOrder
      BY AskedType
    <2>4. TypeOK'
      BY <2>1, <2>2, <2>3 DEF Inv, TypeOK, ImagesTypeOK, images, contents
    <2>5. OrdersOK'
      <3> SUFFICES ASSUME NEW q \in Requests
                   PROVE  /\ order'[q] # NoOrder => order'[q] \in Asks
                          /\ pc'[q] \in Statements => order'[q] # NoOrder /\ Involves(order'[q], pc'[q])
        BY DEF OrdersOK, Under
      <3>1. CASE q = r
        BY <2>1, <2>2, <2>3, <3>1 DEF Inv, TypeOK
      <3>2. CASE q # r
        BY <2>1, <2>2, <3>2 DEF Inv, TypeOK, OrdersOK, Under
      <3>3. QED
        BY <3>1, <3>2
    <2>6. QED
      BY <2>4, <2>5 DEF Inv
  <1>2. ASSUME NEW r \in Requests, Open(r) \/ Write(r) PROVE Inv'
    <2>1. PICK s \in {"open", "write"} : Executed(r, s)
      BY <1>2 DEF Open, Write
    <2>2. Under(r) /\ order' = order
      BY <1>2, <2>1 DEF Executed, Under, Statements, Open, Write
    <2>3. ImagesTypeOK'
      BY <1>2, ImagesTypes DEF Open, Write, Inv, TypeOK
    <2>4. QED
      BY <1>2, <2>1, <2>2, <2>3, GoesOnInOrder DEF Open, Write, contents, Inv, TypeOK
  <1>3. ASSUME NEW r \in Requests, NEW s \in SQL, Execute(r, s) PROVE Inv'
    <2>1. Executed(r, s) /\ order' = order /\ UNCHANGED <<images, contents>>
          /\ locks' = locks \cup {<<r, want[1], want[2]>> : want \in Wants(order[r], s)}
      BY <1>3 DEF Execute
    <2>2. Under(r) /\ pc[r] = s
      BY <2>1 DEF Executed, Under, Statements, SQL
    <2>3. Wants(order[r], s) \subseteq {"S", "X"} \X Rows
      BY <2>2, WantsType, AskedType DEF Inv, OrdersOK, Under
    <2>4. locks' \subseteq Requests \X {"S", "X"} \X Rows
      BY <2>1, <2>3 DEF Inv, TypeOK
    <2>5. QED
      BY <2>1, <2>2, <2>4, GoesOnInOrder DEF contents, images, Inv, TypeOK, ImagesTypeOK
  <1>4. ASSUME NEW r \in Requests, Wait(r) PROVE Inv'
    <2>1. Under(r) /\ UNCHANGED <<images, contents, order, pc>>
      BY <1>4 DEF Wait
    <2>2. Wants(order[r], pc[r]) \subseteq {"S", "X"} \X Rows
      BY <2>1, WantsType, AskedType DEF Inv, OrdersOK, Under
    <2>3. locks' \subseteq Requests \X {"S", "X"} \X Rows
      BY <1>4, <2>2 DEF Wait, Inv, TypeOK
    <2>4. TypeOK'
      BY <2>1, <2>3 DEF contents, images, Inv, TypeOK, ImagesTypeOK
    <2>5. OrdersOK'
      BY <2>1 DEF Inv, OrdersOK, Under
    <2>6. QED
      BY <2>4, <2>5 DEF Inv
  <1>5. ASSUME NEW r \in Requests, Refuse(r) \/ Victim(r) \/ Fail(r) PROVE Inv'
    <2>1. Ends(r, "failed") /\ UNCHANGED <<images, contents, order>>
      BY <1>5 DEF Refuse, Victim, Fail
    <2>2. pc' \in [Requests -> Standings] /\ OrdersOK'
          /\ locks' \subseteq Requests \X {"S", "X"} \X Rows
      BY <2>1, EndsInOrder
    <2>3. QED
      BY <2>1, <2>2 DEF contents, images, Inv, TypeOK, ImagesTypeOK
  <1>6. ASSUME NEW r \in Requests, CommitCreate(r) \/ CommitModify(r) \/ CommitDelete(r) PROVE Inv'
    <2>1. PICK op \in {"create", "modify", "delete"} : Commits(r, op)
      BY <1>6 DEF CommitCreate, CommitModify, CommitDelete
    <2>2. pc[r] = "commit" /\ Ends(r, "done") /\ order' = order
      BY <2>1 DEF Commits
    <2>3. pc' \in [Requests -> Standings] /\ OrdersOK'
          /\ locks' \subseteq Requests \X {"S", "X"} \X Rows
      BY <2>2, EndsInOrder
    <2>4. ImagesTypeOK' /\ ContentsTypeOK'
      BY <1>6, <2>2, CommitTypes DEF Under, Statements
    <2>5. QED
      BY <2>2, <2>3, <2>4 DEF Inv, TypeOK
  <1>7. ASSUME NEW x \in Things, Read(x) PROVE Inv'
    <2>1. UNCHANGED <<contents, order, pc, locks>>
      BY <1>7 DEF Read
    <2>2. ImagesTypeOK'
      <3>1. CASE image[x] # NoImage /\ Show(image[x])
        <4>1. image[x] \in Requests
          BY <3>1 DEF Inv, TypeOK
        <4>2. QED
          BY <3>1, <4>1, ImagesTypes DEF Inv, TypeOK
      <3>2. CASE UNCHANGED images
        BY <3>2 DEF Inv, TypeOK, ImagesTypeOK, images
      <3>3. QED
        BY <1>7, <3>1, <3>2 DEF Read
    <2>3. QED
      BY <2>1, <2>2 DEF contents, Inv, TypeOK, OrdersOK, Under
  <1>8. ASSUME NEW w \in Workers, NEW i \in Requests, GetImage(w, i) \/ Forget(w, i),
               UNCHANGED <<contents, order, pc, locks>>
        PROVE  Inv'
    <2>1. ImagesTypeOK'
      BY <1>8, ImagesTypes DEF Inv, TypeOK
    <2>2. QED
      BY <1>8, <2>1 DEF contents, Inv, TypeOK, OrdersOK, Under
  <1>9. CASE UNCHANGED vars
    BY <1>9 DEF vars, images, contents, Inv, TypeOK, ImagesTypeOK, OrdersOK, Under
  <1>10. QED
    BY <1>1, <1>2, <1>3, <1>4, <1>5, <1>6, <1>7, <1>8, <1>9 DEF Next, Proceed

\* Inv holds at all times.
LEMMA InvAlways == Spec => []Inv
  BY InvInit, InvStep, PTL DEF Spec

\* Projects, sites, images, requests and locks keep their types, whatever a
\* request leaves out of its body and wherever it fails.
THEOREM ContentsTypeCorrect == Spec => []TypeOK
  <1>1. Inv => TypeOK
    BY DEF Inv
  <1>2. QED
    BY <1>1, InvAlways, PTL
-----------------------------------------------------------------------------
(* The files of images *)

\* The file of r is written before anything else of r, and its row is committed last.
LEMMA FilesStep == Inv /\ FilesOK /\ [Next]_vars => FilesOK'
  <1> SUFFICES ASSUME Inv, FilesOK, [Next]_vars PROVE FilesOK'
    OBVIOUS
  <1> DEFINE FileOK(r) ==
        /\ r \in rows => file[r] = "whole" /\ pc[r] = "done"
        /\ pc[r] = "idle" => file[r] = "none"
        /\ pc[r] = "done" /\ r \notin rows => file[r] = "none"
        /\ Under(r) /\ order[r].image # "new" => file[r] = "none"
        /\ Under(r) /\ order[r].image = "new" /\ pc[r] \notin {"open", "write"} => file[r] = "whole"
  <1>t. /\ rows \subseteq Requests /\ pc \in [Requests -> Standings] /\ DOMAIN order = Requests
        /\ file \in [Requests -> {"none", "partial", "whole"}]
    BY DEF Inv, TypeOK, ImagesTypeOK, Standings
  <1>n. "idle" \notin Statements /\ "done" \notin Statements /\ "failed" \notin Statements
    BY DEF Statements
  <1>f. \A r \in Requests : FileOK(r)
    BY DEF FilesOK
  \* What r does leaves the files and rows of the others alone.
  <1>o. ASSUME NEW r \in Requests, FileOK(r)',
               \A q \in Requests \ {r} : /\ pc'[q] = pc[q] /\ order'[q] = order[q]
                                         /\ file'[q] = file[q] /\ (q \in rows' <=> q \in rows)
        PROVE  FilesOK'
    <2> SUFFICES ASSUME NEW q \in Requests PROVE FileOK(q)'
      BY DEF FilesOK
    <2>1. CASE q = r
      BY <1>o, <2>1
    <2>2. CASE q # r
      BY <1>o, <1>f, <2>2 DEF Under
    <2>3. QED
      BY <2>1, <2>2
  <1>1. ASSUME NEW r \in Requests, NEW o \in Asks, Arrive(r, o) PROVE FilesOK'
    <2>1. /\ pc[r] = "idle" /\ order' = [order EXCEPT ![r] = o] /\ GoesOn(r, o, 0)
          /\ UNCHANGED <<rows, file>>
      BY <1>1 DEF Arrive, images
    <2>2. PICK t \in Statements : /\ pc' = [pc EXCEPT ![r] = t]
                                  /\ o.image = "new" => t = "open"
      BY <2>1, Coming
    <2>3. FileOK(r)'
      BY <1>t, <1>n, <1>f, <2>1, <2>2 DEF Under
    <2>4. QED
      BY <1>t, <1>o, <2>1, <2>2, <2>3
  <1>2. ASSUME NEW r \in Requests, NEW s \in Statements, Executed(r, s), order' = order, rows' = rows,
               \/ s = "open" /\ file' = [file EXCEPT ![r] = "partial"]
               \/ s = "write" /\ file' = [file EXCEPT ![r] = "whole"]
               \/ s \notin {"open", "write"} /\ file' = file
        PROVE  FilesOK'
    <2>1. order[r] \in Asks /\ Involves(order[r], s) /\ pc[r] = s
      BY <1>2 DEF Inv, OrdersOK, Executed, Under
    <2>2. PICK t \in Statements \ {"open"} :
              /\ pc' = [pc EXCEPT ![r] = t]
              /\ t = "write" => s = "open"
              /\ order[r].image = "new" /\ s = "open" => t = "write"
      BY <1>2, <2>1, Going
    <2>3. s \in {"open", "write"} => order[r].image = "new"
      BY <2>1 DEF Involves
    <2>4. r \notin rows /\ r \notin rows' /\ pc'[r] = t /\ order'[r] = order[r]
      <3>1. pc' = [pc EXCEPT ![r] = t] /\ pc[r] \in Statements
        BY <2>1, <2>2
      <3>2. pc'[r] = t /\ r \notin rows
        BY <1>t, <1>n, <1>f, <3>1
      <3>3. QED
        BY <1>2, <3>2
    <2>5. t \in Statements \ {"open", "idle", "done"}
      BY <1>n
    <2>6. FileOK(r)'
      <3>1. CASE s = "open" /\ file' = [file EXCEPT ![r] = "partial"]
        BY <2>2, <2>3, <2>4, <2>5, <3>1 DEF Under
      <3>2. CASE s = "write" /\ file' = [file EXCEPT ![r] = "whole"]
        BY <1>t, <2>3, <2>4, <2>5, <3>2 DEF Under
      <3>3. CASE s \notin {"open", "write"} /\ file' = file
        <4>1. order[r].image = "new" => file[r] = "whole"
          BY <1>f, <2>1, <3>3 DEF Under
        <4>2. order[r].image # "new" => file[r] = "none"
          BY <1>f, <2>1 DEF Under
        <4>3. t \notin {"open", "write"}
          BY <2>2, <3>3
        <4>4. QED
          BY <2>4, <2>5, <3>3, <4>1, <4>2, <4>3 DEF Under
      <3>4. QED
        BY <1>2, <3>1, <3>2, <3>3
    <2>7. \A q \in Requests \ {r} : /\ pc'[q] = pc[q] /\ order'[q] = order[q]
                                    /\ file'[q] = file[q] /\ (q \in rows' <=> q \in rows)
      <3>1. \A q \in Requests \ {r} : pc'[q] = pc[q]
        BY <1>t, <2>2
      <3>2. \A q \in Requests \ {r} : file'[q] = file[q]
        BY <1>t, <1>2
      <3>3. QED
        BY <1>2, <3>1, <3>2
    <2>8. QED
      BY <1>o, <2>6, <2>7
  <1>3. ASSUME NEW r \in Requests, Open(r) \/ Write(r) PROVE FilesOK'
    <2>1. CASE Open(r)
      BY <1>2, <2>1 DEF Open, OpenFile, Executed, Under, Statements
    <2>2. CASE Write(r)
      BY <1>2, <2>2 DEF Write, WriteFile, Executed, Under, Statements
    <2>3. QED
      BY <1>3, <2>1, <2>2
  <1>4. ASSUME NEW r \in Requests, NEW s \in SQL, Execute(r, s) PROVE FilesOK'
    BY <1>2, <1>4 DEF Execute, Executed, Under, Statements, SQL, images
  <1>5. ASSUME NEW r \in Requests, Refuse(r) \/ Victim(r) \/ Fail(r) PROVE FilesOK'
    <2>1. /\ pc' = [pc EXCEPT ![r] = "failed"] /\ UNCHANGED <<rows, file, order>>
          /\ pc[r] \in Statements \/ \E D \in SUBSET Requests : r \in D /\ Deadlock(D)
      BY <1>5 DEF Refuse, Victim, Fail, Ends, images, Under, Statements
    <2>2. pc[r] \in Statements
      BY <2>1 DEF Deadlock, Stuck, Under
    <2>3. FileOK(r)'
      BY <1>t, <1>n, <1>f, <2>1, <2>2 DEF Under
    <2>4. QED
      BY <1>t, <1>o, <2>1, <2>3
  <1>6. ASSUME NEW r \in Requests, CommitCreate(r) \/ CommitModify(r) \/ CommitDelete(r)
        PROVE  FilesOK'
    <2>1. /\ pc[r] = "commit" /\ pc' = [pc EXCEPT ![r] = "done"] /\ order' = order
          /\ order[r].op = "delete" \/ CommitImage(r)
          /\ order[r].op = "delete" => UNCHANGED images
      BY <1>6 DEF CommitCreate, CommitModify, CommitDelete, Commits, Ends
    <2>2. Under(r) /\ order[r] \in Asks
      BY <2>1 DEF Under, Statements, Inv, OrdersOK
    <2>3. file' = file /\ rows' = IF order[r].image = "new" THEN rows \cup {r} ELSE rows
      BY <2>1, <2>2, AskedType DEF CommitImage, CommitRow, images
    <2>4. FileOK(r)'
      BY <1>t, <1>n, <1>f, <2>1, <2>2, <2>3 DEF Under
    <2>5. QED
      BY <1>t, <1>o, <2>1, <2>3, <2>4
  <1>7. CASE UNCHANGED <<rows, file, pc, order>>
    BY <1>7 DEF FilesOK, Under
  <1>8. QED
    <2>1. ASSUME NEW r \in Requests, Wait(r) PROVE UNCHANGED <<rows, file, pc, order>>
      BY <2>1 DEF Wait, images
    <2>2. ASSUME NEW x \in Things, Read(x) PROVE UNCHANGED <<rows, file, pc, order>>
      BY <2>2 DEF Read, Show, images
    <2>3. ASSUME NEW w \in Workers, NEW i \in Requests, GetImage(w, i) \/ Forget(w, i),
                 UNCHANGED <<contents, order, pc, locks>>
          PROVE  UNCHANGED <<rows, file, pc, order>>
      BY <2>3 DEF GetImage, Forget
    <2>4. CASE UNCHANGED vars
      BY <1>7, <2>4 DEF vars, images
    <2>5. QED
      BY <1>1, <1>3, <1>4, <1>5, <1>6, <1>7, <2>1, <2>2, <2>3, <2>4 DEF Next, Proceed

LEMMA FilesInit == Init => FilesOK /\ NamesOK
  BY DEF Init, ImagesInit, FilesOK, NamesOK, Under, Statements

\* A name is written to a thing in the commit that makes its row.
LEMMA NamesStep == Inv /\ FilesOK /\ NamesOK /\ [Next]_vars => NamesOK'
  <1> SUFFICES ASSUME Inv, FilesOK, NamesOK, [Next]_vars PROVE NamesOK'
    OBVIOUS
  <1>t. /\ image \in [Things -> Requests \cup {NoImage}] /\ rows \subseteq Requests
        /\ cache \in [Workers -> [Requests -> {"unknown", "found", "missing"}]]
    BY DEF Inv, TypeOK, ImagesTypeOK
  <1>1. ASSUME NEW r \in Requests, CommitCreate(r) \/ CommitModify(r) \/ CommitDelete(r)
        PROVE  NamesOK'
    <2> DEFINE o == order[r]
    <2>1. o.x \in Things
      BY <1>1, AskedType DEF CommitCreate, CommitModify, CommitDelete, Commits,
                             Under, Statements, Inv, OrdersOK
    <2>2. UNCHANGED <<shown, cache>> /\ rows \subseteq rows'
      BY <1>1 DEF CommitCreate, CommitModify, CommitDelete, CommitImage, CommitRow, images
    <2>3. \/ image' = image
          \/ image' = [image EXCEPT ![o.x] = NoImage]
          \/ image' = [image EXCEPT ![o.x] = ImageAfter(r, o.x)] /\ CommitImage(r)
      BY <1>1 DEF CommitCreate, CommitModify, CommitDelete, contents
    <2>4. CommitImage(r) => ImageAfter(r, o.x) \in rows' \cup {NoImage}
      <3>1. image[o.x] \in rows \cup {NoImage}
        BY <2>1 DEF NamesOK
      <3>2. CASE o.image = "new"
        BY <3>2 DEF CommitImage, CommitRow, ImageAfter
      <3>3. CASE o.image # "new"
        BY <2>2, <3>1, <3>3 DEF ImageAfter
      <3>4. QED
        BY <3>2, <3>3
    <2>5. \A x \in Things : image'[x] \in rows' \cup {NoImage}
      BY <1>t, <2>1, <2>2, <2>3, <2>4 DEF NamesOK
    <2>6. QED
      BY <2>2, <2>5 DEF NamesOK
  <1>2. ASSUME NEW x \in Things, Read(x) PROVE NamesOK'
    <2>1. CASE image[x] # NoImage /\ Show(image[x])
      BY <1>2, <2>1 DEF Show, Read, contents, NamesOK
    <2>2. CASE UNCHANGED images
      BY <1>2, <2>2 DEF images, Read, contents, NamesOK
    <2>3. QED
      BY <1>2, <2>1, <2>2 DEF Read
  <1>3. ASSUME NEW w \in Workers, NEW i \in Requests, GetImage(w, i) \/ Forget(w, i),
               UNCHANGED <<contents, order, pc, locks>>
        PROVE  NamesOK'
    <2>1. GetImage(w, i) => file[i] = "whole"
      BY DEF GetImage, NamesOK, FilesOK
    <2>2. cache' = [cache EXCEPT ![w][i] = "found"] \/ cache' = [cache EXCEPT ![w][i] = "unknown"]
      BY <1>3, <2>1 DEF GetImage, Forget
    <2>3. \A v \in Workers, j \in Requests : cache'[v][j] # "missing"
      BY <1>t, <2>2 DEF NamesOK
    <2>4. QED
      BY <1>3, <2>3 DEF GetImage, Forget, contents, NamesOK
  <1>4. CASE UNCHANGED <<rows, cache, shown, image>>
    BY <1>4 DEF NamesOK
  <1>5. QED
    <2>1. ASSUME NEW r \in Requests, NEW o \in Asks, Arrive(r, o)
          PROVE  UNCHANGED <<rows, cache, shown, image>>
      BY <2>1 DEF Arrive, images, contents
    <2>2. ASSUME NEW r \in Requests, Open(r) \/ Write(r)
          PROVE  UNCHANGED <<rows, cache, shown, image>>
      BY <2>2 DEF Open, Write, OpenFile, WriteFile, contents
    <2>3. ASSUME NEW r \in Requests, NEW s \in SQL, Execute(r, s)
          PROVE  UNCHANGED <<rows, cache, shown, image>>
      BY <2>3 DEF Execute, images, contents
    <2>4. ASSUME NEW r \in Requests, Wait(r) \/ Refuse(r) \/ Victim(r) \/ Fail(r)
          PROVE  UNCHANGED <<rows, cache, shown, image>>
      BY <2>4 DEF Wait, Refuse, Victim, Fail, images, contents
    <2>5. CASE UNCHANGED vars
      BY <1>4, <2>5 DEF vars, images, contents
    <2>6. QED
      BY <1>1, <1>2, <1>3, <1>4, <2>1, <2>2, <2>3, <2>4, <2>5 DEF Next, Proceed

\* Files and names hold together at all times.
LEMMA FilesAlways == Spec => [](Inv /\ FilesOK /\ NamesOK)
  BY FilesInit, FilesStep, NamesStep, InvInit, InvStep, PTL DEF Spec

\* Whoever is shown an image gets it, from every worker process and wherever
\* other requests fail: Files.handle writes the file inside the transaction
\* (files.py:77-104), so no name is shown, and none is cached as missing
\* (files.py:113-127), before the file is there.
THEOREM ShownAlwaysServed == Spec => []ShownIsServed
  <1>1. Inv => shown \subseteq Requests
    BY DEF Inv, TypeOK, ImagesTypeOK
  <1>2. Inv /\ FilesOK /\ NamesOK => ShownIsServed
    BY <1>1 DEF FilesOK, NamesOK, ShownIsServed
  <1>3. QED
    BY <1>2, FilesAlways, PTL

\* A row has its file, and what has no row is left by a request that failed.
THEOREM LeftoversAlwaysOfFailures == Spec => []LeftoversOfFailures
  <1>1. Inv /\ FilesOK => LeftoversOfFailures
    BY DEF FilesOK, LeftoversOfFailures, Inv, TypeOK, Under
  <1>2. QED
    BY <1>1, FilesAlways, PTL
-----------------------------------------------------------------------------
(* The texts *)

\* What a request writes when it makes a thing: a text in its language.
LEMMA MadeWithText ==
    ASSUME NEW o \in Asks, o.op = "create"
    PROVE  (IF o.x = Project THEN o.info ELSE o.seen) \in Written(o)
  <1>1. o.info # NoLang
    BY AskedType, NullAssumption DEF NullAssumption
  <1>2. Involves(o, "info")
    BY <1>1 DEF Involves
  <1>3. \E k \in DOMAIN Plan(o) : Plan(o)[k] = "info"
    <2>1. CASE Plan(o) = <<"open", "write", "insert", "info", "contact", "commit">>
      <3>1. 4 \in DOMAIN Plan(o) /\ Plan(o)[4] = "info"
        BY <2>1
      <3>2. QED
        BY <3>1
    <2>2. CASE Plan(o) = <<"open", "write", "insert", "info", "default", "commit">>
      <3>1. 4 \in DOMAIN Plan(o) /\ Plan(o)[4] = "info"
        BY <2>2
      <3>2. QED
        BY <3>1
    <2>3. QED
      BY <2>1, <2>2, Plans
  <1>4. Executes(o, "info") /\ o.info \in Written(o)
    BY <1>2, <1>3 DEF Executes, Written
  <1>5. CASE o.x = Project
    BY <1>4, <1>5
  <1>6. CASE o.x # Project /\ o.seen = o.info
    BY <1>4, <1>6
  <1>7. CASE o.x # Project /\ o.seen # o.info
    <2>1. Involves(o, "default")
      BY <1>7 DEF Involves
    <2>2. Plan(o) = <<"open", "write", "insert", "info", "default", "commit">>
      BY <1>7, Plans
    <2>3. 5 \in DOMAIN Plan(o) /\ Plan(o)[5] = "default"
      BY <2>2
    <2>4. Executes(o, "default")
      BY <2>1, <2>3 DEF Executes
    <2>5. QED
      BY <1>7, <2>4 DEF Written
  <1>8. QED
    BY <1>5, <1>6, <1>7

LEMMA TextsInit == Init => TextsOK
  BY DEF Init, TextsOK

\* Texts are only added, until the thing is removed.
LEMMA TextsStep == Inv /\ TextsOK /\ [Next]_vars => TextsOK'
  <1> SUFFICES ASSUME Inv, TextsOK, [Next]_vars PROVE TextsOK'
    OBVIOUS
  <1>t. /\ made \subseteq Things
        /\ texts \in [Things -> SUBSET Langs] /\ drawn \in [Things -> Langs]
    BY DEF Inv, TypeOK
  <1>1. ASSUME NEW r \in Requests, CommitCreate(r) PROVE TextsOK'
    <2> DEFINE o == order[r]
    <2>1. o \in Asks /\ o.op = "create" /\ o.x \in Things
      BY <1>1, AskedType DEF CommitCreate, Commits, Under, Statements, Inv, OrdersOK
    <2>2. (IF o.x = Project THEN o.info ELSE o.seen) \in Written(o)
      BY <2>1, MadeWithText
    <2>3. /\ made' = made \cup {o.x}
          /\ texts' = [texts EXCEPT ![o.x] = Written(o)]
          /\ drawn' = [drawn EXCEPT ![o.x] = IF o.x = Project THEN o.info ELSE o.seen]
      BY <1>1 DEF CommitCreate
    <2>4. QED
      BY <1>t, <2>1, <2>2, <2>3 DEF TextsOK
  <1>2. ASSUME NEW r \in Requests, CommitModify(r) PROVE TextsOK'
    <2> DEFINE o == order[r]
    <2>1. UNCHANGED <<made, drawn>> /\ (texts' = texts \/ texts' = [texts EXCEPT ![o.x] = @ \cup Written(o)])
      BY <1>2 DEF CommitModify, contents
    <2>2. QED
      BY <1>t, <2>1 DEF TextsOK
  <1>3. ASSUME NEW r \in Requests, CommitDelete(r) PROVE TextsOK'
    BY <1>t, <1>3 DEF CommitDelete, TextsOK
  <1>4. CASE UNCHANGED contents
    BY <1>4 DEF contents, TextsOK
  <1>5. QED
    <2>1. ASSUME NEW r \in Requests, NEW o \in Asks, Arrive(r, o) PROVE UNCHANGED contents
      BY <2>1 DEF Arrive
    <2>2. ASSUME NEW r \in Requests, Open(r) \/ Write(r) \/ Wait(r) PROVE UNCHANGED contents
      BY <2>2 DEF Open, Write, Wait
    <2>3. ASSUME NEW r \in Requests, NEW s \in SQL, Execute(r, s) PROVE UNCHANGED contents
      BY <2>3 DEF Execute
    <2>4. ASSUME NEW r \in Requests, Refuse(r) \/ Victim(r) \/ Fail(r) PROVE UNCHANGED contents
      BY <2>4 DEF Refuse, Victim, Fail
    <2>5. ASSUME NEW x \in Things, Read(x) PROVE UNCHANGED contents
      BY <2>5 DEF Read
    <2>6. UNCHANGED vars => UNCHANGED contents
      BY DEF vars
    <2>7. QED
      BY <1>1, <1>2, <1>3, <1>4, <2>1, <2>2, <2>3, <2>4, <2>5, <2>6 DEF Next, Proceed

\* A project or site has a text in the language it was made for as long as it
\* exists: SiteRepo.create adds one in the default language (site.py:262-271),
\* and no PATCH removes a text.
THEOREM AlwaysReadableAsMade == Spec => []ReadableAsMade
  <1>1. TextsOK => ReadableAsMade
    BY DEF TextsOK, ReadableAsMade, Readable
  <1>2. QED
    BY <1>1, InvAlways, TextsInit, TextsStep, PTL DEF Spec
-----------------------------------------------------------------------------
(* The locks *)

Modes == {"S", "X"}

Holds(r, mode, row) == <<r, mode, row>> \in locks

\* A row that one request has for itself is held by no other.
Exclusive == \A q, r \in Requests, row \in Rows :
                q # r /\ Holds(q, "X", row) => ~Holds(r, "X", row) /\ ~Holds(r, "S", row)

\* Only a request under way holds locks: the end of the transaction releases them.
HeldUnderWay == \A r \in Requests, mode \in Modes, row \in Rows : Holds(r, mode, row) => Under(r)

\* r has what this statement wants.
Locked(r, s) == \A want \in Wants(order[r], s) : Holds(r, want[1], want[2])

\* A request stands at a statement of its plan, with the locks of those before it.
Planned == \A r \in Requests : Under(r) => \E n \in DOMAIN Plan(order[r]) : Plan(order[r])[n] = pc[r]

PastLocked ==
    \A r \in Requests : \A k, n \in DOMAIN Plan(order[r]) :
        /\ Under(r) /\ Plan(order[r])[n] = pc[r]
        /\ k < n /\ Involves(order[r], Plan(order[r])[k])
        => Locked(r, Plan(order[r])[k])

\* What has not been made has no texts, and a name that was inserted is taken by
\* nobody else before the commit.
NoTexts == \A x \in Things \ made : texts[x] = {}
StillFree == \A r \in Requests :
                Under(r) /\ order[r].op = "create" /\ pc[r] \notin {"open", "write", "insert"}
                => order[r].x \notin made

LocksOK == Exclusive /\ HeldUnderWay /\ Planned /\ PastLocked

\* No statement comes twice in a plan, and the commit comes last.
LEMMA PlanOnce ==
    ASSUME NEW o \in Asks, NEW j \in DOMAIN Plan(o), NEW k \in DOMAIN Plan(o)
    PROVE  /\ Plan(o)[j] = Plan(o)[k] => j = k
           /\ Plan(o)[k] = "commit" => j <= k
           /\ DOMAIN Plan(o) = 1..Len(Plan(o)) /\ Len(Plan(o)) \in 1..6
           /\ Plan(o)[Len(Plan(o))] = "commit"
  <1>1. CASE Plan(o) = <<"delete", "commit">>
    BY <1>1
  <1>2. CASE Plan(o) = <<"open", "write", "insert", "info", "contact", "commit">>
    BY <1>2
  <1>3. CASE Plan(o) = <<"open", "write", "contact", "info", "update", "commit">>
    BY <1>3
  <1>4. CASE Plan(o) = <<"open", "write", "insert", "info", "default", "commit">>
    BY <1>4
  <1>5. CASE Plan(o) = <<"open", "write", "update", "info", "commit">>
    BY <1>5
  <1>6. QED
    BY <1>1, <1>2, <1>3, <1>4, <1>5, Plans

\* r executes this statement, with the locks that it takes.
Takes(r, s) == /\ Executed(r, s) /\ order' = order
               /\ Blockers(r) = {}
               /\ s = "insert" => order[r].x \notin made
               /\ locks' = locks \cup {<<r, want[1], want[2]>> : want \in Wants(order[r], s)}

\* What a request does with its statements and locks.
LEMMA ProceedKinds ==
    ASSUME NEW q \in Requests, Proceed(q) \/ Fail(q) \/ (\E o \in Asks : Arrive(q, o))
    PROVE  \/ \E o \in Asks : Arrive(q, o)
           \/ \E s \in Statements : Takes(q, s)
           \/ Wait(q)
           \/ \E how \in {"done", "failed"} : Under(q) /\ Ends(q, how) /\ order' = order
  <1>1. ASSUME NEW r \in Requests, Open(r) \/ Write(r) PROVE \E s \in Statements : Takes(r, s)
    <2>1. PICK s \in {"open", "write"} : Executed(r, s)
      BY <1>1 DEF Open, Write
    <2>2. Wants(order[r], s) = {}
      BY <2>1 DEF Wants
    <2>3. pc[r] = s
      BY <2>1 DEF Executed
    <2>4. Blockers(r) = {}
      BY <2>2, <2>3 DEF Blockers
    <2>5. order' = order /\ locks' = locks
      BY <1>1 DEF Open, Write
    <2>6. QED
      BY <2>1, <2>2, <2>4, <2>5 DEF Takes, Statements
  <1>2. ASSUME NEW r \in Requests, NEW s \in SQL, Execute(r, s) PROVE s \in Statements /\ Takes(r, s)
    BY <1>2 DEF Execute, Takes, SQL, Statements
  <1>3. ASSUME NEW r \in Requests, Refuse(r) \/ Victim(r) \/ Fail(r)
        PROVE  Under(r) /\ Ends(r, "failed") /\ order' = order
    <2>1. CASE Refuse(r)
      BY <2>1 DEF Refuse, Under, Statements
    <2>2. CASE Victim(r)
      BY <2>2 DEF Victim, Deadlock, Stuck
    <2>3. CASE Fail(r)
      BY <2>3 DEF Fail
    <2>4. QED
      BY <1>3, <2>1, <2>2, <2>3
  <1>4. ASSUME NEW r \in Requests, CommitCreate(r) \/ CommitModify(r) \/ CommitDelete(r)
        PROVE  Under(r) /\ Ends(r, "done") /\ order' = order
    BY <1>4 DEF CommitCreate, CommitModify, CommitDelete, Commits, Under, Statements
  <1>5. QED
    BY <1>1, <1>2, <1>3, <1>4 DEF Proceed

\* What a step does with the statements and locks of requests.
LEMMA StepKinds ==
    ASSUME Inv, [Next]_vars
    PROVE  \/ \E r \in Requests, o \in Asks : Arrive(r, o)
           \/ \E r \in Requests, s \in Statements : Takes(r, s)
           \/ \E r \in Requests : Wait(r)
           \/ \E r \in Requests, how \in {"done", "failed"} :
                 Under(r) /\ Ends(r, how) /\ order' = order
           \/ UNCHANGED <<order, pc, locks>>
  <1>1. ASSUME NEW r \in Requests, Proceed(r) \/ Fail(r)
        PROVE  \/ \E o \in Asks : Arrive(r, o)
               \/ \E s \in Statements : Takes(r, s)
               \/ Wait(r)
               \/ \E how \in {"done", "failed"} : Under(r) /\ Ends(r, how) /\ order' = order
    BY <1>1, ProceedKinds
  <1>2. ASSUME NEW x \in Things, Read(x) PROVE UNCHANGED <<order, pc, locks>>
    BY <1>2 DEF Read
  <1>3. UNCHANGED vars => UNCHANGED <<order, pc, locks>>
    BY DEF vars
  <1>4. QED
    BY <1>1, <1>2, <1>3 DEF Next

LEMMA LocksInit == Init => LocksOK /\ NoTexts /\ StillFree
  <1> SUFFICES ASSUME Init PROVE LocksOK /\ NoTexts /\ StillFree
    OBVIOUS
  <1>1. \A r \in Requests : ~Under(r)
    <2>1. pc = [r \in Requests |-> "idle"]
      BY DEF Init
    <2>2. QED
      BY <2>1 DEF Under, Statements
  <1>2. Exclusive /\ HeldUnderWay
    BY DEF Init, Exclusive, HeldUnderWay, Holds
  <1>3. Planned /\ PastLocked /\ StillFree
    BY <1>1 DEF Planned, PastLocked, StillFree
  <1>4. NoTexts
    BY DEF Init, NoTexts
  <1>5. QED
    BY <1>2, <1>3, <1>4 DEF LocksOK

\* A lock is taken when no other request has one against it.
LEMMA Against ==
    ASSUME NEW r \in Requests, NEW q \in Requests \ {r}, NEW want \in Modes \X Rows,
           q \notin Holders(r, want)
    PROVE  /\ ~Holds(q, "X", want[2])
           /\ want[1] = "X" => ~Holds(q, "S", want[2])
  BY DEF Holders, Holds

LEMMA ExclusiveStep == Inv /\ LocksOK /\ [Next]_vars => Exclusive' /\ HeldUnderWay'
  <1> SUFFICES ASSUME Inv, LocksOK, [Next]_vars PROVE Exclusive' /\ HeldUnderWay'
    OBVIOUS
  <1>t. /\ pc \in [Requests -> Standings] /\ locks \subseteq Requests \X Modes \X Rows
        /\ Exclusive /\ HeldUnderWay
    BY DEF Inv, TypeOK, Standings, Modes, LocksOK
  \* r takes locks that nobody has one against.
  <1>l. ASSUME NEW r \in Requests, NEW W \in SUBSET (Modes \X Rows),
               \A want \in W : Holders(r, want) = {},
               locks' = locks \cup {<<r, want[1], want[2]>> : want \in W}
        PROVE  /\ Exclusive'
               /\ \A q \in Requests \ {r}, mode \in Modes, row \in Rows : Holds(q, mode, row)' = Holds(q, mode, row)
    <2>1. ASSUME NEW q \in Requests \ {r}, NEW mode \in Modes, NEW row \in Rows
          PROVE  Holds(q, mode, row)' = Holds(q, mode, row)
      BY <1>l DEF Holds
    <2>2. ASSUME NEW mode \in Modes, NEW row \in Rows, Holds(r, mode, row)'
          PROVE  Holds(r, mode, row) \/ <<mode, row>> \in W
      BY <1>l, <2>2 DEF Holds
    <2>3. ASSUME NEW p \in Requests, NEW q \in Requests, NEW row \in Rows, p # q, Holds(p, "X", row)'
          PROVE  ~Holds(q, "X", row)' /\ ~Holds(q, "S", row)'
      <3>1. CASE p = r
        <4>1. Holds(q, "X", row)' = Holds(q, "X", row) /\ Holds(q, "S", row)' = Holds(q, "S", row)
          BY <2>1, <2>3, <3>1 DEF Modes
        <4>2. CASE Holds(r, "X", row)
          BY <1>t, <2>3, <3>1, <4>1, <4>2 DEF Exclusive
        <4>3. CASE <<"X", row>> \in W
          <5>1. q \notin Holders(r, <<"X", row>>) /\ <<"X", row>> \in Modes \X Rows
            BY <1>l, <4>3
          <5>2. QED
            BY <2>3, <3>1, <4>1, <5>1, Against
        <4>4. QED
          BY <2>2, <2>3, <3>1, <4>2, <4>3 DEF Modes
      <3>2. CASE q = r
        <4>1. Holds(p, "X", row)
          BY <2>1, <2>3, <3>2 DEF Modes
        <4>2. ASSUME NEW mode \in Modes, Holds(r, mode, row)' PROVE FALSE
          <5>1. CASE Holds(r, mode, row)
            BY <1>t, <2>3, <3>2, <4>1, <5>1 DEF Exclusive, Modes
          <5>2. CASE <<mode, row>> \in W
            <6>1. p \notin Holders(r, <<mode, row>>) /\ <<mode, row>> \in Modes \X Rows
              BY <1>l, <5>2
            <6>2. QED
              BY <2>3, <3>2, <4>1, <6>1, Against
          <5>3. QED
            BY <2>2, <4>2, <5>1, <5>2
        <4>3. QED
          BY <3>2, <4>2 DEF Modes
      <3>3. CASE p # r /\ q # r
        BY <1>t, <2>1, <2>3, <3>3 DEF Exclusive, Modes
      <3>4. QED
        BY <3>1, <3>2, <3>3
    <2>4. Exclusive'
      BY <2>3 DEF Exclusive, Holds
    <2>5. QED
      BY <2>1, <2>4
  <1>u. ASSUME NEW r \in Requests, Under(r)',
               \A q \in Requests \ {r} : pc'[q] = pc[q],
               \A q \in Requests \ {r}, mode \in Modes, row \in Rows : Holds(q, mode, row)' = Holds(q, mode, row)
        PROVE  HeldUnderWay'
    <2> SUFFICES ASSUME NEW q \in Requests, NEW mode \in Modes, NEW row \in Rows, Holds(q, mode, row)'
                 PROVE  Under(q)'
      BY DEF HeldUnderWay, Holds, Under
    <2>1. CASE q = r
      BY <1>u, <2>1
    <2>2. CASE q # r
      BY <1>t, <1>u, <2>2 DEF HeldUnderWay, Under
    <2>3. QED
      BY <2>1, <2>2
  <1>1. ASSUME NEW r \in Requests, NEW o \in Asks, Arrive(r, o) PROVE Exclusive' /\ HeldUnderWay'
    <2>1. PICK t \in Statements : pc' = [pc EXCEPT ![r] = t]
      BY <1>1, Coming DEF Arrive
    <2>2. locks' = locks
      BY <1>1 DEF Arrive
    <2>3. Exclusive'
      BY <1>t, <2>2 DEF Exclusive, Holds
    <2>4. HeldUnderWay'
      BY <1>t, <2>1, <2>2 DEF HeldUnderWay, Holds, Under
    <2>5. QED
      BY <2>3, <2>4
  <1>2. ASSUME NEW r \in Requests, NEW s \in Statements, Takes(r, s) PROVE Exclusive' /\ HeldUnderWay'
    <2>1. pc[r] = s /\ order[r] \in Asks /\ Involves(order[r], s)
      BY <1>2 DEF Takes, Executed, Inv, OrdersOK, Under
    <2>2. PICK t \in Statements : pc' = [pc EXCEPT ![r] = t]
      BY <1>2, <2>1, Going DEF Takes
    <2>3. Wants(order[r], s) \in SUBSET (Modes \X Rows)
      BY <2>1, WantsType, AskedType DEF Modes
    <2>4. \A want \in Wants(order[r], s) : Holders(r, want) = {}
      BY <1>2, <2>1 DEF Takes, Blockers
    <2>5. Under(r)' /\ \A q \in Requests \ {r} : pc'[q] = pc[q]
      BY <1>t, <2>2 DEF Under
    <2>6. QED
      BY <1>2, <1>l, <1>u, <2>3, <2>4, <2>5 DEF Takes
  <1>3. ASSUME NEW r \in Requests, Wait(r) PROVE Exclusive' /\ HeldUnderWay'
    <2>1. Under(r) /\ order[r] \in Asks /\ Involves(order[r], pc[r]) /\ pc' = pc
      BY <1>3 DEF Wait, Inv, OrdersOK
    <2>2. PICK want \in Wants(order[r], pc[r]) :
              /\ want[1] = "S" /\ Holders(r, want) = {}
              /\ locks' = locks \cup {<<r, "S", want[2]>>}
      BY <1>3 DEF Wait
    <2>3. Wants(order[r], pc[r]) \subseteq Modes \X Rows
      BY <2>1, WantsType, AskedType DEF Modes, Under
    <2>4. {want} \in SUBSET (Modes \X Rows)
      BY <2>3
    <2>5. locks' = locks \cup {<<r, w[1], w[2]>> : w \in {want}}
      BY <2>2
    <2>6. Under(r)'
      BY <2>1 DEF Under
    <2>7. \A w \in {want} : Holders(r, w) = {}
      BY <2>2
    <2>8. QED
      BY <1>l, <1>u, <2>1, <2>4, <2>5, <2>6, <2>7
  <1>4. ASSUME NEW r \in Requests, NEW how \in {"done", "failed"}, Under(r), Ends(r, how), order' = order
        PROVE  Exclusive' /\ HeldUnderWay'
    <2>1. pc' = [pc EXCEPT ![r] = how] /\ locks' = {lock \in locks : lock[1] # r}
      BY <1>4 DEF Ends, Release
    <2>2. Exclusive'
      BY <1>t, <2>1 DEF Exclusive, Holds
    <2>3. HeldUnderWay'
      <3> SUFFICES ASSUME NEW q \in Requests, NEW mode \in Modes, NEW row \in Rows, <<q, mode, row>> \in locks'
                   PROVE  pc'[q] \in Statements
        BY DEF HeldUnderWay, Holds, Under
      <3>1. q # r /\ <<q, mode, row>> \in locks
        BY <2>1
      <3>2. QED
        BY <1>t, <2>1, <3>1 DEF HeldUnderWay, Holds, Under
    <2>4. QED
      BY <2>2, <2>3
  <1>5. CASE UNCHANGED <<order, pc, locks>>
    BY <1>t, <1>5 DEF Exclusive, HeldUnderWay, Holds, Under
  <1>6. QED
    BY <1>1, <1>2, <1>3, <1>4, <1>5, StepKinds

\* What r holds stays held, but for the end of its own transaction.
LEMMA KeepsLocks ==
    ASSUME Inv, [Next]_vars, NEW r \in Requests, Under(r)'
    PROVE  \A mode, row : Holds(r, mode, row) => Holds(r, mode, row)'
  <1>1. ASSUME NEW q \in Requests, NEW how \in {"done", "failed"}, Under(q), Ends(q, how), order' = order
        PROVE  q # r /\ \A lock \in locks : lock[1] = r => lock \in locks'
    <2>1. pc' = [pc EXCEPT ![q] = how] /\ locks' = {lock \in locks : lock[1] # q}
      BY <1>1 DEF Ends, Release
    <2>2. pc'[q] = how
      BY <2>1 DEF Inv, TypeOK
    <2>3. how \notin Statements
      BY DEF Statements
    <2>4. pc'[r] \in Statements
      BY DEF Under
    <2>5. q # r
      BY <2>2, <2>3, <2>4
    <2>6. QED
      BY <2>1, <2>5
  <1>2. ASSUME NEW mode, NEW row, <<r, mode, row>> \in locks PROVE <<r, mode, row>> \in locks'
    <2>1. ASSUME NEW q \in Requests, NEW o \in Asks, Arrive(q, o) PROVE locks' = locks
      BY <2>1 DEF Arrive
    <2>2. ASSUME NEW q \in Requests, NEW s \in Statements, Takes(q, s) PROVE locks \subseteq locks'
      BY <2>2 DEF Takes
    <2>3. ASSUME NEW q \in Requests, Wait(q) PROVE locks \subseteq locks'
      BY <2>3 DEF Wait
    <2>4. ASSUME NEW q \in Requests, NEW how \in {"done", "failed"}, Under(q), Ends(q, how), order' = order
          PROVE  <<r, mode, row>> \in locks'
      BY <1>1, <1>2, <2>4
    <2>5. QED
      BY <1>2, <2>1, <2>2, <2>3, <2>4, StepKinds
  <1>3. QED
    BY <1>2 DEF Holds

\* A request that is under way after a step stood where it stands, or has arrived,
\* or has executed a statement.
LEMMA Moves ==
    ASSUME Inv, [Next]_vars, NEW r \in Requests, Under(r)'
    PROVE  \/ order'[r] = order[r] /\ pc'[r] = pc[r]
           \/ \E o \in Asks : Arrive(r, o)
           \/ \E s \in Statements : Takes(r, s)
  <1>t. pc \in [Requests -> Standings] /\ order \in [Requests -> Order \cup {NoOrder}]
    BY DEF Inv, TypeOK, Standings
  <1>1. ASSUME NEW q \in Requests \ {r}, NEW o \in Asks, Arrive(q, o)
        PROVE  order'[r] = order[r] /\ pc'[r] = pc[r]
    <2>1. \E t \in Statements : pc' = [pc EXCEPT ![q] = t]
      BY <1>1, Coming DEF Arrive
    <2>2. QED
      BY <1>t, <1>1, <2>1 DEF Arrive
  <1>2. ASSUME NEW q \in Requests \ {r}, NEW s \in Statements, Takes(q, s)
        PROVE  order'[r] = order[r] /\ pc'[r] = pc[r]
    <2>1. order[q] \in Asks /\ Executed(q, s) /\ order' = order
      BY <1>2 DEF Takes, Executed, Under, Inv, OrdersOK
    <2>2. \E t \in Statements : pc' = [pc EXCEPT ![q] = t]
      BY <2>1, Going
    <2>3. QED
      BY <1>t, <2>1, <2>2
  <1>3. ASSUME NEW q \in Requests, Wait(q) PROVE order'[r] = order[r] /\ pc'[r] = pc[r]
    BY <1>3 DEF Wait
  <1>4. ASSUME NEW q \in Requests, NEW how \in {"done", "failed"}, Under(q), Ends(q, how), order' = order
        PROVE  order'[r] = order[r] /\ pc'[r] = pc[r]
    <2>1. pc' = [pc EXCEPT ![q] = how] /\ how \notin Statements
      BY <1>4 DEF Ends, Statements
    <2>2. pc'[r] \in Statements
      BY DEF Under
    <2>3. QED
      BY <1>t, <1>4, <2>1, <2>2
  <1>5. UNCHANGED <<order, pc, locks>> => order'[r] = order[r] /\ pc'[r] = pc[r]
    OBVIOUS
  <1>6. QED
    BY <1>1, <1>2, <1>3, <1>4, <1>5, StepKinds

\* The statement that r has come to, and what it had for those that it skipped.
LEMMA PastStep == Inv /\ LocksOK /\ [Next]_vars => Planned' /\ PastLocked'
  <1> DEFINE LockedThen(r, s) == \A want \in Wants(order'[r], s) : <<r, want[1], want[2]>> \in locks'
             Stands(r) == \E n \in DOMAIN Plan(order'[r]) : Plan(order'[r])[n] = pc'[r]
             Passed(r) == \A k, n \in DOMAIN Plan(order'[r]) :
                             /\ Plan(order'[r])[n] = pc'[r]
                             /\ k < n /\ Involves(order'[r], Plan(order'[r])[k])
                             => LockedThen(r, Plan(order'[r])[k])
  <1> SUFFICES ASSUME Inv, LocksOK, [Next]_vars, NEW r \in Requests, Under(r)'
               PROVE  Stands(r) /\ Passed(r)
    BY DEF Planned, PastLocked, Under, Locked, Holds
  <1>t. /\ pc \in [Requests -> Standings] /\ order \in [Requests -> Order \cup {NoOrder}]
        /\ Planned /\ PastLocked
    BY DEF Inv, TypeOK, Standings, LocksOK
  <1>a. \A mode, row : <<r, mode, row>> \in locks => <<r, mode, row>> \in locks'
    BY KeepsLocks DEF Holds
  \* r has not moved.
  <1>s. ASSUME order'[r] = order[r], pc'[r] = pc[r]
        PROVE  Stands(r) /\ Passed(r)
    <2>1. Under(r)
      BY <1>s DEF Under
    <2>2. \E n \in DOMAIN Plan(order[r]) : Plan(order[r])[n] = pc[r]
      BY <1>t, <2>1 DEF Planned
    <2>3. ASSUME NEW k \in DOMAIN Plan(order[r]), NEW n \in DOMAIN Plan(order[r]),
                 Plan(order[r])[n] = pc[r], k < n, Involves(order[r], Plan(order[r])[k])
          PROVE  LockedThen(r, Plan(order[r])[k])
      <3>1. Locked(r, Plan(order[r])[k])
        BY <1>t, <2>1, <2>3 DEF PastLocked
      <3>2. QED
        BY <1>s, <1>a, <3>1 DEF Locked, Holds
    <2>4. QED
      BY <1>s, <2>2, <2>3
  <1>1. ASSUME NEW o \in Asks, Arrive(r, o)
        PROVE  Stands(r) /\ Passed(r)
    <2>1. order'[r] = o /\ GoesOn(r, o, 0)
      BY <1>t, <1>1 DEF Arrive
    <2>2. PICK n \in DOMAIN Plan(o) :
              /\ n > 0 /\ \A m \in DOMAIN Plan(o) : 0 < m /\ m < n => ~Involves(o, Plan(o)[m])
              /\ pc' = [pc EXCEPT ![r] = Plan(o)[n]]
      BY <2>1 DEF GoesOn
    <2>3. pc'[r] = Plan(o)[n]
      BY <1>t, <2>2
    <2>4. ASSUME NEW k \in DOMAIN Plan(o), NEW j \in DOMAIN Plan(o),
                 Plan(o)[j] = pc'[r], k < j, Involves(o, Plan(o)[k])
          PROVE  FALSE
      <3>1. j = n
        BY <2>3, <2>4, PlanOnce
      <3>2. k > 0
        BY Shape
      <3>3. QED
        BY <2>2, <2>4, <3>1, <3>2
    <2>5. QED
      BY <2>1, <2>3, <2>4
  <1>2. ASSUME NEW s \in Statements, Takes(r, s)
        PROVE  Stands(r) /\ Passed(r)
    <2> DEFINE o == order[r]
    <2>1. order' = order /\ Executed(r, s) /\ pc[r] = s
      BY <1>2 DEF Takes, Executed
    <2>2. Under(r) /\ o \in Asks
      BY <2>1 DEF Under, Inv, OrdersOK
    <2>3. PICK i \in DOMAIN Plan(o) : Plan(o)[i] = s /\ GoesOn(r, o, i)
      BY <2>1 DEF Executed
    <2>4. PICK n \in DOMAIN Plan(o) :
              /\ n > i /\ \A m \in DOMAIN Plan(o) : i < m /\ m < n => ~Involves(o, Plan(o)[m])
              /\ pc' = [pc EXCEPT ![r] = Plan(o)[n]]
      BY <2>3 DEF GoesOn
    <2>5. pc'[r] = Plan(o)[n]
      BY <1>t, <2>4
    <2>6. LockedThen(r, s)
      BY <1>2, <2>1 DEF Takes
    <2>7. ASSUME NEW k \in DOMAIN Plan(o), NEW j \in DOMAIN Plan(o),
                 Plan(o)[j] = pc'[r], k < j, Involves(o, Plan(o)[k])
          PROVE  LockedThen(r, Plan(o)[k])
      <3>1. j = n
        BY <2>2, <2>5, <2>7, PlanOnce
      <3>2. k \in Nat /\ i \in Nat /\ n \in Nat
        BY <2>2, Shape
      <3>3. k <= i
        BY <2>4, <2>7, <3>1, <3>2
      <3>4. CASE k = i
        BY <2>3, <2>6, <3>4
      <3>5. CASE k < i
        <4>1. Locked(r, Plan(o)[k])
          BY <1>t, <2>1, <2>2, <2>3, <2>7, <3>5 DEF PastLocked
        <4>2. QED
          BY <1>a, <2>1, <4>1 DEF Locked, Holds
      <3>6. QED
        BY <3>2, <3>3, <3>4, <3>5
    <2>8. QED
      BY <2>1, <2>5, <2>7
  <1>3. QED
    BY <1>s, <1>1, <1>2, Moves

\* What an order may leave to its kind.
LEMMA AskedFields ==
    ASSUME NEW o \in Asks
    PROVE  /\ o.default # NoLang => o.op = "modify" /\ o.x = Project
           /\ o.contact # "keep" => o.op \in {"create", "modify"} /\ o.x = Project
           /\ o.op = "create" => o.image # "clear"
           /\ o.op \in {"create", "modify", "delete"}
  <1>1. o.op \in {"create", "modify", "delete"}
    BY DEF Asks, Order
  <1>2. Sensible(o)
    BY DEF Asks
  <1>3. CASE o.op = "create"
    BY <1>2, <1>3 DEF Sensible
  <1>4. CASE o.op = "delete"
    BY <1>2, <1>4 DEF Sensible
  <1>5. CASE o.op = "modify"
    BY <1>2, <1>5 DEF Sensible
  <1>6. QED
    BY <1>1, <1>3, <1>4, <1>5

\* At its commit a request holds every row that it writes.
LEMMA CommitHolds ==
    ASSUME Inv, LocksOK, NEW q \in Requests, pc[q] = "commit"
    PROVE  LET o == order[q]
           IN  /\ o \in Asks
               /\ o.op # "modify" \/ o.image # "keep" \/ o.default # NoLang => Holds(q, "X", o.x)
               /\ \A l \in Written(o) : Holds(q, "X", <<o.x, l>>)
               /\ o.op = "delete" => \A l \in Langs : Holds(q, "X", <<o.x, l>>)
               /\ o.contact # "keep" => Holds(q, "X", Contact)
  <1> DEFINE o == order[q]
  <1>1. o \in Asks /\ Under(q)
    BY DEF Inv, OrdersOK, Under, Statements
  <1>2. ASSUME NEW s \in SQL, Executes(o, s) PROVE Locked(q, s)
    <2>1. PICK k \in DOMAIN Plan(o) : Plan(o)[k] = s
      BY <1>2 DEF Executes
    <2>2. PICK n \in DOMAIN Plan(o) : Plan(o)[n] = "commit"
      BY <1>1 DEF LocksOK, Planned
    <2>3. k <= n /\ k # n /\ k \in Nat /\ n \in Nat
      BY <1>1, <2>1, <2>2, PlanOnce, Shape DEF SQL
    <2>4. k < n /\ Involves(o, Plan(o)[k])
      BY <1>2, <2>1, <2>3 DEF Executes
    <2>5. QED
      BY <1>1, <2>1, <2>2, <2>4 DEF LocksOK, PastLocked
  <1>3. ASSUME o.op = "create" PROVE Holds(q, "X", o.x)
    <2>1. Plan(o)[3] = "insert" /\ 3 \in DOMAIN Plan(o)
      BY <1>1, <1>3, Plans
    <2>2. Executes(o, "insert")
      BY <2>1 DEF Executes, Involves
    <2>3. <<"X", o.x>> \in Wants(o, "insert")
      BY DEF Wants
    <2>4. QED
      BY <1>2, <2>2, <2>3 DEF Locked, SQL
  <1>4. ASSUME o.op = "delete"
        PROVE  Holds(q, "X", o.x) /\ \A l \in Langs : Holds(q, "X", <<o.x, l>>)
    <2>1. Plan(o)[1] = "delete" /\ 1 \in DOMAIN Plan(o)
      BY <1>1, <1>4, Plans
    <2>2. Executes(o, "delete")
      BY <2>1 DEF Executes, Involves
    <2>3. Wants(o, "delete") = {<<"X", o.x>>} \cup {<<"X", <<o.x, l>>>> : l \in Langs}
      BY DEF Wants
    <2>4. \A want \in Wants(o, "delete") : Holds(q, want[1], want[2])
      BY <1>2, <2>2 DEF Locked, SQL
    <2>5. Holds(q, "X", o.x)
      <3>1. <<"X", o.x>> \in Wants(o, "delete")
        BY <2>3
      <3>2. QED
        BY <2>4, <3>1
    <2>6. ASSUME NEW l \in Langs PROVE Holds(q, "X", <<o.x, l>>)
      <3>1. <<"X", <<o.x, l>>>> \in Wants(o, "delete")
        BY <2>3
      <3>2. QED
        BY <2>4, <3>1
    <2>7. QED
      BY <2>5, <2>6
  <1>5. ASSUME o.op = "modify", o.image # "keep" \/ o.default # NoLang PROVE Holds(q, "X", o.x)
    <2>1. \E k \in DOMAIN Plan(o) : Plan(o)[k] = "update"
      <3>1. CASE Plan(o) = <<"open", "write", "contact", "info", "update", "commit">>
        BY <3>1, 5 \in DOMAIN Plan(o)
      <3>2. CASE Plan(o) = <<"open", "write", "update", "info", "commit">>
        BY <3>2, 3 \in DOMAIN Plan(o)
      <3>3. QED
        BY <1>1, <1>5, <3>1, <3>2, Plans
    <2>2. Executes(o, "update")
      BY <1>5, <2>1 DEF Executes, Involves
    <2>3. <<"X", o.x>> \in Wants(o, "update")
      BY DEF Wants
    <2>4. QED
      BY <1>2, <2>2, <2>3 DEF Locked, SQL
  <1>6. ASSUME NEW l \in Written(o) PROVE Holds(q, "X", <<o.x, l>>)
    <2>1. CASE Executes(o, "info") /\ l = o.info
      <3>1. <<"X", <<o.x, l>>>> \in Wants(o, "info")
        BY <2>1 DEF Wants
      <3>2. QED
        BY <1>2, <2>1, <3>1 DEF Locked, SQL
    <2>2. CASE Executes(o, "default") /\ l = o.seen
      <3>1. <<"X", <<o.x, l>>>> \in Wants(o, "default")
        BY <2>2 DEF Wants
      <3>2. QED
        BY <1>2, <2>2, <3>1 DEF Locked, SQL
    <2>3. QED
      BY <1>6, <2>1, <2>2 DEF Written
  <1>7. ASSUME o.contact # "keep" PROVE Holds(q, "X", Contact)
    <2>1. \E k \in DOMAIN Plan(o) : Plan(o)[k] = "contact"
      <3>1. CASE Plan(o) = <<"open", "write", "insert", "info", "contact", "commit">>
        BY <3>1, 5 \in DOMAIN Plan(o)
      <3>2. CASE Plan(o) = <<"open", "write", "contact", "info", "update", "commit">>
        BY <3>2, 3 \in DOMAIN Plan(o)
      <3>3. QED
        BY <1>1, <1>7, <3>1, <3>2, Plans, AskedFields
    <2>2. Executes(o, "contact")
      BY <1>7, <2>1 DEF Executes, Involves
    <2>3. <<"X", Contact>> \in Wants(o, "contact")
      BY DEF Wants
    <2>4. QED
      BY <1>2, <2>2, <2>3 DEF Locked, SQL
  <1>8. QED
    BY <1>1, <1>3, <1>4, <1>5, <1>6, <1>7, AskedFields

\* A commit changes only rows that its request has for itself.
LEMMA CommitChanges ==
    ASSUME Inv, LocksOK, NoTexts, StillFree, NEW q \in Requests,
           CommitCreate(q) \/ CommitModify(q) \/ CommitDelete(q)
    PROVE  /\ \A x \in Things : ~Holds(q, "X", x) => (x \in made' <=> x \in made) /\ image'[x] = image[x]
           /\ ~Holds(q, "X", Project) => default' = default
           /\ \A x \in Things, l \in Langs : ~Holds(q, "X", <<x, l>>) => (l \in texts'[x] <=> l \in texts[x])
           /\ ~Holds(q, "X", Contact) => contact' = contact
  <1> DEFINE o == order[q]
  <1>1. pc[q] = "commit"
    BY DEF CommitCreate, CommitModify, CommitDelete, Commits
  <1>2. /\ o \in Asks
        /\ o.op # "modify" \/ o.image # "keep" \/ o.default # NoLang => Holds(q, "X", o.x)
        /\ \A l \in Written(o) : Holds(q, "X", <<o.x, l>>)
        /\ o.op = "delete" => \A l \in Langs : Holds(q, "X", <<o.x, l>>)
        /\ o.contact # "keep" => Holds(q, "X", Contact)
    BY <1>1, CommitHolds
  <1>3. /\ o.x \in Things /\ made \subseteq Things
        /\ texts \in [Things -> SUBSET Langs] /\ image \in [Things -> Requests \cup {NoImage}]
    BY <1>2, AskedType DEF Inv, TypeOK
  <1>4. CASE CommitCreate(q)
    <2>1. /\ o.op = "create"
          /\ made' = made \cup {o.x}
          /\ texts' = [texts EXCEPT ![o.x] = Written(o)]
          /\ image' = [image EXCEPT ![o.x] = ImageAfter(q, o.x)]
          /\ default' = IF o.x = Project THEN o.info ELSE default
          /\ contact' = Contacted(o)
      BY <1>4 DEF CommitCreate, Commits
    <2>2. texts[o.x] = {}
      BY <1>1, <1>3, <2>1 DEF NoTexts, StillFree, Under, Statements
    <2>3. Holds(q, "X", o.x)
      BY <1>2, <2>1
    <2>4. \A x \in Things : ~Holds(q, "X", x) => (x \in made' <=> x \in made) /\ image'[x] = image[x]
      BY <1>3, <2>1, <2>3
    <2>5. \A x \in Things, l \in Langs : ~Holds(q, "X", <<x, l>>) => (l \in texts'[x] <=> l \in texts[x])
      BY <1>2, <1>3, <2>1, <2>2
    <2>6. ~Holds(q, "X", Contact) => contact' = contact
      BY <1>2, <2>1 DEF Contacted
    <2>7. QED
      BY <2>1, <2>3, <2>4, <2>5, <2>6
  <1>5. CASE CommitModify(q) /\ o.x \in made
    <2>1. /\ o.op = "modify"
          /\ texts' = [texts EXCEPT ![o.x] = @ \cup Written(o)]
          /\ image' = [image EXCEPT ![o.x] = ImageAfter(q, o.x)]
          /\ default' = IF o.default = NoLang THEN default ELSE o.default
          /\ contact' = Contacted(o)
          /\ made' = made
      BY <1>5 DEF CommitModify, Commits
    <2>2. o.image = "keep" => ImageAfter(q, o.x) = image[o.x]
      BY DEF ImageAfter
    <2>3. \A x \in Things : ~Holds(q, "X", x) => image'[x] = image[x]
      BY <1>2, <1>3, <2>1, <2>2
    <2>4. \A x \in Things, l \in Langs : ~Holds(q, "X", <<x, l>>) => (l \in texts'[x] <=> l \in texts[x])
      BY <1>2, <1>3, <2>1
    <2>5. ~Holds(q, "X", Contact) => contact' = contact
      BY <1>2, <2>1 DEF Contacted
    <2>6. ~Holds(q, "X", Project) => default' = default
      BY <1>2, <2>1, AskedFields
    <2>7. QED
      BY <2>1, <2>3, <2>4, <2>5, <2>6
  <1>6. CASE CommitModify(q) /\ o.x \notin made
    BY <1>6 DEF CommitModify, contents
  <1>7. CASE CommitDelete(q)
    <2>1. /\ o.op = "delete"
          /\ made' = made \ {o.x}
          /\ texts' = [texts EXCEPT ![o.x] = {}]
          /\ image' = [image EXCEPT ![o.x] = NoImage]
          /\ UNCHANGED <<default, contact>>
      BY <1>7 DEF CommitDelete, Commits
    <2>2. \A x \in Things : ~Holds(q, "X", x) => (x \in made' <=> x \in made) /\ image'[x] = image[x]
      BY <1>2, <1>3, <2>1
    <2>3. \A x \in Things, l \in Langs : ~Holds(q, "X", <<x, l>>) => (l \in texts'[x] <=> l \in texts[x])
      BY <1>2, <1>3, <2>1
    <2>4. QED
      BY <2>1, <2>2, <2>3
  <1>8. QED
    BY <1>4, <1>5, <1>6, <1>7

\* What is committed stays, but for a commit.
LEMMA OnlyCommits ==
    ASSUME [Next]_vars, ~ \E r \in Requests : CommitCreate(r) \/ CommitModify(r) \/ CommitDelete(r)
    PROVE  UNCHANGED contents
  <1>1. ASSUME NEW r \in Requests, NEW o \in Asks, Arrive(r, o) PROVE UNCHANGED contents
    BY <1>1 DEF Arrive
  <1>2. ASSUME NEW r \in Requests, Open(r) \/ Write(r) \/ Wait(r) PROVE UNCHANGED contents
    BY <1>2 DEF Open, Write, Wait
  <1>3. ASSUME NEW r \in Requests, NEW s \in SQL, Execute(r, s) PROVE UNCHANGED contents
    BY <1>3 DEF Execute
  <1>4. ASSUME NEW r \in Requests, Refuse(r) \/ Victim(r) \/ Fail(r) PROVE UNCHANGED contents
    BY <1>4 DEF Refuse, Victim, Fail
  <1>5. ASSUME NEW x \in Things, Read(x) PROVE UNCHANGED contents
    BY <1>5 DEF Read
  <1>6. UNCHANGED vars => UNCHANGED contents
    BY DEF vars
  <1>7. QED
    BY <1>1, <1>2, <1>3, <1>4, <1>5, <1>6 DEF Next, Proceed

LEMMA NoTextsStep == Inv /\ NoTexts /\ [Next]_vars => NoTexts'
  <1> SUFFICES ASSUME Inv, NoTexts, [Next]_vars PROVE NoTexts'
    OBVIOUS
  <1>t. texts \in [Things -> SUBSET Langs]
    BY DEF Inv, TypeOK
  <1>1. ASSUME NEW r \in Requests, CommitCreate(r) PROVE NoTexts'
    <2>1. made' = made \cup {order[r].x} /\ texts' = [texts EXCEPT ![order[r].x] = Written(order[r])]
      BY <1>1 DEF CommitCreate
    <2>2. QED
      BY <1>t, <2>1 DEF NoTexts
  <1>2. ASSUME NEW r \in Requests, CommitModify(r) PROVE NoTexts'
    <2>1. CASE order[r].x \in made
      <3>1. made' = made /\ texts' = [texts EXCEPT ![order[r].x] = @ \cup Written(order[r])]
        BY <1>2, <2>1 DEF CommitModify
      <3>2. QED
        BY <1>t, <2>1, <3>1 DEF NoTexts
    <2>2. CASE order[r].x \notin made
      BY <1>2, <2>2 DEF CommitModify, contents, NoTexts
    <2>3. QED
      BY <2>1, <2>2
  <1>3. ASSUME NEW r \in Requests, CommitDelete(r) PROVE NoTexts'
    BY <1>t, <1>3 DEF CommitDelete, NoTexts
  <1>4. UNCHANGED contents => NoTexts'
    BY DEF contents, NoTexts
  <1>5. QED
    BY <1>1, <1>2, <1>3, <1>4, OnlyCommits

\* A request that makes a thing holds its row from the INSERT on.
LEMMA HoldsMade ==
    ASSUME Inv, LocksOK, NEW r \in Requests, Under(r),
           order[r].op = "create", pc[r] \notin {"open", "write", "insert"}
    PROVE  Holds(r, "X", order[r].x)
  <1> DEFINE o == order[r]
  <1>1. o \in Asks
    BY DEF Inv, OrdersOK
  <1>2. PICK n \in DOMAIN Plan(o) : Plan(o)[n] = pc[r]
    BY DEF LocksOK, Planned
  <1>3. 3 \in DOMAIN Plan(o) /\ Plan(o)[3] = "insert" /\ 3 < n
    <2>1. CASE Plan(o) = <<"open", "write", "insert", "info", "contact", "commit">>
      BY <1>2, <2>1
    <2>2. CASE Plan(o) = <<"open", "write", "insert", "info", "default", "commit">>
      BY <1>2, <2>2
    <2>3. QED
      BY <1>1, <2>1, <2>2, Plans
  <1>4. Involves(o, "insert") /\ <<"X", o.x>> \in Wants(o, "insert")
    BY DEF Involves, Wants
  <1>5. Locked(r, Plan(o)[3])
    BY <1>2, <1>3, <1>4 DEF LocksOK, PastLocked
  <1>6. QED
    BY <1>3, <1>4, <1>5 DEF Locked

\* Past its INSERT comes a request from the INSERT, or from past it.
LEMMA FromInsert ==
    ASSUME NEW r \in Requests, NEW s, order[r] \in Asks, order[r].op = "create", Executed(r, s)
    PROVE  \/ s \notin {"open", "write"}
           \/ \E t \in {"open", "write", "insert"} : pc' = [pc EXCEPT ![r] = t]
  <1> DEFINE o == order[r]
  <1>1. PICK k \in DOMAIN Plan(o) : Plan(o)[k] = s /\ GoesOn(r, o, k)
    BY DEF Executed
  <1>2. PICK n \in DOMAIN Plan(o) :
            /\ n > k /\ \A m \in DOMAIN Plan(o) : k < m /\ m < n => ~Involves(o, Plan(o)[m])
            /\ pc' = [pc EXCEPT ![r] = Plan(o)[n]]
    BY <1>1 DEF GoesOn
  <1>3. 3 \in DOMAIN Plan(o) /\ Plan(o)[1] = "open" /\ Plan(o)[2] = "write" /\ Plan(o)[3] = "insert"
    BY Plans
  <1>4. Involves(o, Plan(o)[3])
    BY <1>3 DEF Involves
  <1>5. k \in Nat \ {0} /\ n \in Nat \ {0}
    BY Shape
  <1>6. CASE s \in {"open", "write"}
    <2>1. k \in {1, 2}
      BY <1>1, <1>6, Shape
    <2>2. ~(3 < n)
      BY <1>2, <1>3, <1>4, <2>1
    <2>3. n \in {1, 2, 3}
      BY <1>5, <2>2
    <2>4. Plan(o)[n] \in {"open", "write", "insert"}
      BY <1>3, <2>3
    <2>5. QED
      BY <1>2, <2>4
  <1>7. QED
    BY <1>6

LEMMA StillFreeStep ==
    Inv /\ LocksOK /\ NoTexts /\ StillFree /\ [Next]_vars => StillFree'
  <1> SUFFICES ASSUME Inv, LocksOK, NoTexts, StillFree, [Next]_vars, NEW r \in Requests, Under(r)',
                      order'[r].op = "create", pc'[r] \notin {"open", "write", "insert"}
               PROVE  order'[r].x \notin made'
    BY DEF StillFree, Under
  <1>t. /\ pc \in [Requests -> Standings] /\ order \in [Requests -> Order \cup {NoOrder}]
        /\ made \subseteq Things
    BY DEF Inv, TypeOK, Standings
  <1>1. ASSUME NEW o \in Asks, Arrive(r, o) PROVE order'[r].x \notin made'
    <2>1. order'[r] = o /\ made' = made
      BY <1>t, <1>1 DEF Arrive, contents
    <2>2. QED
      BY <1>1, <2>1 DEF Arrive
  <1>2. ASSUME NEW s \in Statements, Takes(r, s)
        PROVE  order'[r] = order[r] /\ Under(r) /\ order[r].x \notin made
    <2>1. /\ order' = order /\ Executed(r, s) /\ pc[r] = s
          /\ s = "insert" => order[r].x \notin made
      BY <1>2 DEF Takes, Executed
    <2>2. Under(r) /\ order[r] \in Asks /\ order[r].op = "create"
      BY <2>1 DEF Under, Inv, OrdersOK
    <2>3. ~ \E t \in {"open", "write", "insert"} : pc' = [pc EXCEPT ![r] = t]
      BY <1>t
    <2>4. s \notin {"open", "write"}
      BY <2>1, <2>2, <2>3, FromInsert
    <2>5. QED
      BY <2>1, <2>2, <2>4 DEF StillFree
  <1>3. ASSUME order'[r] = order[r], pc'[r] = pc[r]
        PROVE  Under(r) /\ order[r].x \notin made
    BY <1>3 DEF StillFree, Under
  <1>4. ASSUME order'[r] = order[r], Under(r), order[r].x \notin made,
               NEW q \in Requests, CommitCreate(q) \/ CommitModify(q) \/ CommitDelete(q)
        PROVE  order[r].x \notin made'
    <2>1. /\ pc' = [pc EXCEPT ![q] = "done"] /\ pc[q] = "commit" /\ "done" \notin Statements
      BY <1>4 DEF CommitCreate, CommitModify, CommitDelete, Commits, Ends, Statements
    <2>2. q # r /\ pc'[r] = pc[r]
      BY <1>t, <2>1 DEF Under
    <2>3. Holds(r, "X", order[r].x)
      BY <1>4, <2>2, HoldsMade
    <2>4. order[r].x \in Things
      BY <1>4, AskedType DEF Inv, OrdersOK
    <2>5. ~Holds(q, "X", order[r].x)
      BY <2>2, <2>3, <2>4 DEF LocksOK, Exclusive, Rows
    <2>6. QED
      BY <1>4, <2>4, <2>5, CommitChanges
  <1>5. ASSUME order'[r] = order[r], Under(r), order[r].x \notin made PROVE order[r].x \notin made'
    BY <1>4, <1>5, OnlyCommits DEF contents
  <1>6. QED
    BY <1>1, <1>2, <1>3, <1>5, Moves

LocksInv == Inv /\ LocksOK /\ NoTexts /\ StillFree

LEMMA LocksAlways == Spec => []LocksInv
  <1>1. Init => LocksInv
    BY InvInit, LocksInit DEF LocksInv
  <1>2. LocksInv /\ [Next]_vars => LocksInv'
    <2>1. LocksInv /\ [Next]_vars => Inv' /\ LocksOK'
      BY InvStep, ExclusiveStep, PastStep DEF LocksInv, LocksOK
    <2>2. LocksInv /\ [Next]_vars => NoTexts' /\ StillFree'
      BY NoTextsStep, StillFreeStep DEF LocksInv
    <2>3. QED
      BY <2>1, <2>2 DEF LocksInv
  <1>3. QED
    BY <1>1, <1>2, PTL DEF Spec

\* No two requests ever hold the same row against each other, and whoever has come
\* to an end, or failed at any statement, holds none.
THEOREM LocksExclude == Spec => [](Exclusive /\ HeldUnderWay)
  <1>1. LocksInv => Exclusive /\ HeldUnderWay
    BY DEF LocksInv, LocksOK
  <1>2. QED
    BY <1>1, LocksAlways, PTL

\* From the statement that locks a row to the end of the transaction nobody else
\* changes the row: a PATCH never overwrites, nor loses, what another request
\* writes in the meantime.
RowsKept ==
    [][\A r \in Requests : (Under(r)') =>
          /\ \A x \in Things : Holds(r, "X", x) => (x \in made' <=> x \in made) /\ image'[x] = image[x]
          /\ Holds(r, "X", Project) => default' = default
          /\ \A x \in Things, l \in Langs : Holds(r, "X", <<x, l>>) => (l \in texts'[x] <=> l \in texts[x])
          /\ Holds(r, "X", Contact) => contact' = contact]_vars

THEOREM NeverLosesUpdates == Spec => RowsKept
  <1> DEFINE Kept(r) ==
        /\ \A x \in Things : Holds(r, "X", x) => (x \in made' <=> x \in made) /\ image'[x] = image[x]
        /\ Holds(r, "X", Project) => default' = default
        /\ \A x \in Things, l \in Langs : Holds(r, "X", <<x, l>>) => (l \in texts'[x] <=> l \in texts[x])
        /\ Holds(r, "X", Contact) => contact' = contact
  <1>1. ASSUME LocksInv, [Next]_vars, NEW r \in Requests, Under(r)' PROVE Kept(r)
    <2>1. ASSUME NEW q \in Requests, CommitCreate(q) \/ CommitModify(q) \/ CommitDelete(q) PROVE Kept(r)
      <3>1. pc' = [pc EXCEPT ![q] = "done"] /\ "done" \notin Statements
        BY <2>1 DEF CommitCreate, CommitModify, CommitDelete, Commits, Ends, Statements
      <3>2. q # r
        BY <1>1, <3>1 DEF Under, LocksInv, Inv, TypeOK
      <3>3. \A row \in Rows : Holds(r, "X", row) => ~Holds(q, "X", row)
        BY <1>1, <3>2 DEF LocksInv, LocksOK, Exclusive
      <3>4. Things \subseteq Rows /\ Contact \in Rows /\ Project \in Rows
            /\ \A x \in Things, l \in Langs : <<x, l>> \in Rows
        BY DEF Rows, Things
      <3>5. QED
        BY <1>1, <2>1, <3>3, <3>4, CommitChanges DEF LocksInv
    <2>2. CASE UNCHANGED contents
      BY <2>2 DEF contents
    <2>3. QED
      BY <1>1, <2>1, <2>2, OnlyCommits
  <1>2. LocksInv /\ [Next]_vars => [\A r \in Requests : (Under(r)') => Kept(r)]_vars
    BY <1>1
  <1>3. QED
    BY <1>2, LocksAlways, PTL DEF Spec, RowsKept

\* Of two requests that make the same site, or the same project, at most one
\* commits: a commit never meets a thing of its name (the unique keys of the
\* tables, and the row locks of ProjectRepo.create and SiteRepo.create).
MadeOnce == [][\A r \in Requests : CommitCreate(r) => order[r].x \notin made]_vars

THEOREM NamesMadeOnce == Spec => MadeOnce
  <1>1. LocksInv /\ [Next]_vars => [\A r \in Requests : CommitCreate(r) => order[r].x \notin made]_vars
    <2> SUFFICES ASSUME LocksInv, NEW r \in Requests, CommitCreate(r) PROVE order[r].x \notin made
      OBVIOUS
    <2>1. pc[r] = "commit" /\ order[r].op = "create"
      BY DEF CommitCreate, Commits
    <2>2. QED
      BY <2>1 DEF LocksInv, StillFree, Under, Statements
  <1>2. QED
    BY <1>1, LocksAlways, PTL DEF Spec, MadeOnce
-----------------------------------------------------------------------------
(* Everyone comes to an end *)

\* The first of the statements after the k-th that there is something for.
LEMMA FirstAfter ==
    ASSUME NEW L \in 1..6, NEW k \in 0..5, k < L, NEW P \in SUBSET (1..L), L \in P
    PROVE  \E n \in P : n > k /\ \A m \in 1..L : k < m /\ m < n => m \notin P
  <1>1. CASE k + 1 \in P
    BY <1>1
  <1>2. CASE k + 1 \notin P /\ k + 2 \in P
    BY <1>2
  <1>3. CASE k + 1 \notin P /\ k + 2 \notin P /\ k + 3 \in P
    BY <1>3
  <1>4. CASE k + 1 \notin P /\ k + 2 \notin P /\ k + 3 \notin P /\ k + 4 \in P
    BY <1>4
  <1>5. CASE k + 1 \notin P /\ k + 2 \notin P /\ k + 3 \notin P /\ k + 4 \notin P /\ k + 5 \in P
    BY <1>5
  <1>6. CASE k + 1 \notin P /\ k + 2 \notin P /\ k + 3 \notin P /\ k + 4 \notin P /\ k + 5 \notin P
    BY <1>6
  <1>7. QED
    BY <1>1, <1>2, <1>3, <1>4, <1>5, <1>6

\* Nobody is in r's way: it commits, is refused its name, or goes on.
CanGo(r) ==
    /\ Under(r) /\ Blockers(r) = {}
    /\ \/ pc[r] = "commit"
       \/ pc[r] = "insert" /\ order[r].x \in made
       \/ \E k, n \in DOMAIN Plan(order[r]) :
             /\ Plan(order[r])[k] = pc[r] /\ n > k /\ Involves(order[r], Plan(order[r])[n])
             /\ \A m \in DOMAIN Plan(order[r]) : k < m /\ m < n => ~Involves(order[r], Plan(order[r])[m])

LEMMA Unblocked ==
    ASSUME Inv, LocksOK, NEW r \in Requests, Under(r), Blockers(r) = {}
    PROVE  CanGo(r)
  <1> DEFINE o == order[r]
             L == Len(Plan(o))
             P == {m \in 1..L : Involves(o, Plan(o)[m])}
  <1>1. o \in Asks
    BY DEF Inv, OrdersOK
  <1>2. PICK k \in DOMAIN Plan(o) : Plan(o)[k] = pc[r]
    BY DEF LocksOK, Planned
  <1>3. DOMAIN Plan(o) = 1..L /\ L \in 1..6 /\ Plan(o)[L] = "commit"
    BY <1>1, <1>2, PlanOnce
  <1>4. CASE k = L
    BY <1>2, <1>3, <1>4 DEF CanGo
  <1>5. CASE k # L
    <2>1. k \in 0..5 /\ k < L
      BY <1>2, <1>3, <1>5
    <2>2. P \in SUBSET (1..L) /\ L \in P
      BY <1>3 DEF Involves
    <2>3. PICK n \in P : n > k /\ \A m \in 1..L : k < m /\ m < n => m \notin P
      <3> HIDE DEF L, P
      <3>1. QED
        BY <1>3, <2>1, <2>2, FirstAfter
    <2>4. QED
      BY <1>2, <1>3, <2>3 DEF CanGo
  <1>6. QED
    BY <1>4, <1>5

\* Whenever requests are under way, one of them can go on, or the database has a
\* cycle to take a victim from: the requests never all wait for each other
\* unnoticed, although a PATCH of a project shares its row before it wants it alone.
NeverAllWait ==
    (\E r \in Requests : Under(r)) =>
        \E r \in Requests : CanGo(r) \/ \E D \in SUBSET Requests : r \in D /\ Deadlock(D)

\* Who waits, waits for a request that is under way.
LEMMA BlockersUnderWay ==
    ASSUME Inv, LocksOK, NEW r \in Requests, Under(r), NEW q \in Blockers(r)
    PROVE  q \in Requests /\ Under(q)
  <1>1. PICK want \in Wants(order[r], pc[r]) : q \in Holders(r, want)
    BY DEF Blockers
  <1>2. want \in Modes \X Rows
    BY WantsType, AskedType DEF Modes, Inv, OrdersOK, Under
  <1>3. q \in Requests /\ (Holds(q, "X", want[2]) \/ Holds(q, "S", want[2]))
    BY <1>1 DEF Holders, Holds
  <1>4. QED
    BY <1>2, <1>3 DEF LocksOK, HeldUnderWay, Modes

THEOREM SomebodyMoves ==
    ASSUME IsFiniteSet(Requests)
    PROVE  Spec => []NeverAllWait
  <1>1. ASSUME LocksInv PROVE NeverAllWait
    <2> SUFFICES ASSUME NEW r \in Requests, Under(r), \A q \in Requests : ~CanGo(q)
                 PROVE  \E q \in Requests, D \in SUBSET Requests : q \in D /\ Deadlock(D)
      BY DEF NeverAllWait
    <2> DEFINE All == {q \in Requests : Under(q)}
               T == {E \in SUBSET Requests : E # {} /\ Stuck(E)}
    <2>1. Stuck(All)
      <3> SUFFICES ASSUME NEW q \in All PROVE Blockers(q) \cap All # {}
        BY DEF Stuck
      <3>1. Blockers(q) # {}
        BY <1>1, Unblocked DEF LocksInv
      <3>2. Blockers(q) \subseteq All
        BY <1>1, BlockersUnderWay DEF LocksInv
      <3>3. QED
        BY <3>1, <3>2
    <2>2. All \in T
      BY <2>1
    <2>3. T \subseteq FiniteSubsetsOf(Requests)
      BY FS_FiniteSubsetsOfFinite
    <2>4. PICK E \in T : \A F \in T : <<F, E>> \notin StrictSubsetOrdering(Requests)
      <3> HIDE DEF T
      <3>1. QED
        BY <2>2, <2>3, FS_StrictSubsetOrderingWellFounded, WFMin
    <2>5. ASSUME NEW F \in SUBSET E, F # {}, Stuck(F) PROVE F = E
      <3>1. F \in T
        BY <2>5
      <3>2. F \subseteq E /\ F \in SUBSET Requests /\ E \in SUBSET Requests
        BY <2>5
      <3>3. QED
        BY <2>4, <3>1, <3>2 DEF StrictSubsetOrdering
    <2>6. E \in SUBSET Requests /\ E # {} /\ Stuck(E)
      OBVIOUS
    <2>7. Deadlock(E)
      <3> HIDE DEF T
      <3>1. QED
        BY <2>5, <2>6 DEF Deadlock
    <2>8. QED
      BY <2>6, <2>7
  <1>2. QED
    BY <1>1, LocksAlways, PTL

\* Where a statement stands in the plan of an order.
Place(o, s) == CHOOSE k \in DOMAIN Plan(o) : Plan(o)[k] = s

\* There is a row that r has still to share before it waits for one of its own.
Shares(r) == \E want \in Wants(order[r], pc[r]) : want[1] = "S" /\ ~Holds(r, "S", want[2])

\* How many steps a request has left at most: two for a statement, one of them for
\* the row that it shares.
StepsFrom(o, s, here) == 2 * (Len(Plan(o)) - Place(o, s)) + here

Here(r) == IF Shares(r) THEN 2 ELSE 1

Left(r) == CASE pc[r] = "idle" -> 13
             [] Under(r) -> StepsFrom(order[r], pc[r], Here(r))
             [] OTHER -> 0

Steps(r) == Proceed(r) \/ Fail(r) \/ \E o \in Asks : Arrive(r, o)

\* Each step of a request brings it nearer to its end, and what the others do never
\* sets it back: a request has at most 13 steps, however it waits and is blocked.
OnlyForward ==
    [][\A r \in Requests : /\ Left(r)' <= Left(r)
                           /\ Steps(r) => Left(r)' < Left(r)]_vars

LEMMA PlaceIs ==
    ASSUME NEW o \in Asks, NEW k \in DOMAIN Plan(o)
    PROVE  Place(o, Plan(o)[k]) = k
  BY PlanOnce DEF Place

\* A statement shares one row at most.
LEMMA OneShared ==
    ASSUME NEW o, NEW s, NEW v \in Wants(o, s), NEW w \in Wants(o, s), v[1] = "S", w[1] = "S"
    PROVE  v[2] = w[2]
  <1>1. CASE s = "insert"
    BY <1>1 DEF Wants
  <1>2. CASE s = "contact"
    BY <1>2 DEF Wants
  <1>3. CASE s = "info"
    BY <1>3 DEF Wants
  <1>4. CASE s = "default"
    BY <1>4 DEF Wants
  <1>5. CASE s = "update"
    BY <1>5 DEF Wants
  <1>6. CASE s = "delete"
    BY <1>6 DEF Wants
  <1>7. CASE s \notin SQL
    BY <1>7 DEF Wants, SQL
  <1>8. QED
    BY <1>1, <1>2, <1>3, <1>4, <1>5, <1>6, <1>7 DEF SQL

\* The steps that are left at the n-th statement of a plan.
LEMMA StepsAt ==
    ASSUME NEW o \in Asks, NEW n \in DOMAIN Plan(o), NEW here \in {1, 2}
    PROVE  /\ StepsFrom(o, Plan(o)[n], here) = 2 * (Len(Plan(o)) - n) + here
           /\ n \in 1..Len(Plan(o)) /\ Len(Plan(o)) \in 1..6
  <1>1. Place(o, Plan(o)[n]) = n
    BY PlaceIs
  <1>2. QED
    BY <1>1, PlanOnce DEF StepsFrom

LeftOK == \A r \in Requests : Left(r) \in 0..13 /\ (Under(r) => Left(r) \in 1..12)

LEMMA LeftType == LocksInv => LeftOK
  <1> SUFFICES ASSUME LocksInv, NEW r \in Requests
               PROVE  Left(r) \in 0..13 /\ (Under(r) => Left(r) \in 1..12)
    BY DEF LeftOK
  <1>1. CASE Under(r)
    <2> DEFINE o == order[r]
    <2>1. PICK n \in DOMAIN Plan(o) : Plan(o)[n] = pc[r]
      BY <1>1 DEF LocksInv, LocksOK, Planned
    <2>2. o \in Asks
      BY <1>1 DEF LocksInv, Inv, OrdersOK
    <2>3. pc[r] # "idle"
      BY <1>1 DEF Under, Statements
    <2>4. Left(r) = StepsFrom(o, Plan(o)[n], Here(r))
      BY <1>1, <2>1, <2>3 DEF Left
    <2>5. Here(r) \in {1, 2}
      BY DEF Here
    <2>6. PICK L : L = Len(Plan(o))
      OBVIOUS
    <2>7. /\ Left(r) = 2 * (L - n) + Here(r)
          /\ n \in 1..L /\ L \in 1..6
      BY <2>2, <2>4, <2>5, <2>6, StepsAt
    <2>8. QED
      BY <2>5, <2>7
  <1>2. CASE ~Under(r)
    BY <1>2 DEF Left
  <1>3. QED
    BY <1>1, <1>2

LEMMA LeftTypeNext == LocksInv' => LeftOK'
  BY LeftType, PTL

\* To execute a statement is a step towards the end.
LEMMA TakesLowers ==
    ASSUME LocksInv, NEW r \in Requests, NEW s \in Statements, Takes(r, s)
    PROVE  Left(r)' < Left(r)
  <1> DEFINE o == order[r]
  <1>1. pc[r] = s /\ order' = order /\ Under(r) /\ o \in Asks
    BY DEF Takes, Executed, Under, LocksInv, Inv, OrdersOK
  <1>2. PICK k \in DOMAIN Plan(o) : Plan(o)[k] = s /\ GoesOn(r, o, k)
    BY DEF Takes, Executed
  <1>3. PICK n \in DOMAIN Plan(o) : n > k /\ pc' = [pc EXCEPT ![r] = Plan(o)[n]]
    BY <1>2 DEF GoesOn
  <1>4. pc'[r] = Plan(o)[n] /\ Plan(o)[n] \in Statements
    BY <1>1, <1>3, Shape DEF LocksInv, Inv, TypeOK
  <1>5. PICK L : L = Len(Plan(o))
    OBVIOUS
  <1>6. "idle" \notin Statements
    BY DEF Statements
  <1>7. Left(r) = StepsFrom(o, Plan(o)[k], Here(r)) /\ Here(r) \in {1, 2}
    BY <1>1, <1>2, <1>6 DEF Left, Here
  <1>8. Left(r)' = StepsFrom(o, Plan(o)[n], Here(r)') /\ Here(r)' \in {1, 2}
    BY <1>1, <1>4, <1>6 DEF Left, Here, Under
  <1>9. Left(r) = 2 * (L - k) + Here(r) /\ k \in 1..L /\ L \in 1..6
    BY <1>1, <1>5, <1>7, StepsAt
  <1>10. Left(r)' = 2 * (L - n) + Here(r)' /\ n \in 1..L
    BY <1>1, <1>5, <1>8, StepsAt
  <1>11. QED
    BY <1>3, <1>7, <1>8, <1>9, <1>10

\* So is to wait, with the row that the statement shares.
LEMMA WaitLowers ==
    ASSUME LocksInv, NEW r \in Requests, Wait(r)
    PROVE  Left(r)' < Left(r)
  <1> DEFINE o == order[r]
  <1>1. Under(r) /\ order' = order /\ pc' = pc /\ o \in Asks
    BY DEF Wait, LocksInv, Inv, OrdersOK
  <1>2. PICK want \in Wants(o, pc[r]) :
            want[1] = "S" /\ <<r, "S", want[2]>> \notin locks /\ locks' = locks \cup {<<r, "S", want[2]>>}
    BY DEF Wait
  <1>3. Shares(r)
    BY <1>2 DEF Shares, Holds
  <1>4. ~Shares(r)'
    <2> SUFFICES ASSUME NEW w \in Wants(o, pc[r]), w[1] = "S" PROVE <<r, "S", w[2]>> \in locks'
      BY <1>1 DEF Shares, Holds
    <2>1. w[2] = want[2]
      BY <1>2, OneShared
    <2>2. QED
      BY <1>2, <2>1
  <1>5. PICK n \in DOMAIN Plan(o) : Plan(o)[n] = pc[r]
    BY <1>1 DEF LocksInv, LocksOK, Planned
  <1>6. "idle" \notin Statements
    BY DEF Statements
  <1>7. Here(r) = 2 /\ Here(r)' = 1
    BY <1>3, <1>4 DEF Here
  <1>8. Left(r) = StepsFrom(o, Plan(o)[n], 2)
    BY <1>1, <1>5, <1>6, <1>7 DEF Left, Under
  <1>9. Left(r)' = StepsFrom(o, Plan(o)[n], 1)
    BY <1>1, <1>5, <1>6, <1>7 DEF Left, Under
  <1>10. PICK L : L = Len(Plan(o))
    OBVIOUS
  <1>11. Left(r) = 2 * (L - n) + 2 /\ Left(r)' = 2 * (L - n) + 1 /\ n \in 1..L /\ L \in 1..6
    BY <1>1, <1>8, <1>9, <1>10, StepsAt
  <1>12. QED
    BY <1>11

\* What a request leaves of the others' statements and locks: all.
LEMMA OthersStand ==
    ASSUME Inv, NEW r \in Requests, NEW q \in Requests \ {r},
           \/ \E o \in Asks : Arrive(r, o)
           \/ \E s \in Statements : Takes(r, s)
           \/ Wait(r)
           \/ \E how \in {"done", "failed"} : Ends(r, how) /\ order' = order
    PROVE  Left(q)' = Left(q)
  <1>t. pc \in [Requests -> Standings] /\ order \in [Requests -> Order \cup {NoOrder}]
    BY DEF Inv, TypeOK, Standings
  <1>1. order'[q] = order[q] /\ pc'[q] = pc[q]
    <2>1. ASSUME NEW o \in Asks, Arrive(r, o) PROVE order'[q] = order[q] /\ pc'[q] = pc[q]
      <3>1. PICK t \in Statements : pc' = [pc EXCEPT ![r] = t]
        BY <2>1, Coming DEF Arrive
      <3>2. QED
        BY <1>t, <2>1, <3>1 DEF Arrive
    <2>2. ASSUME NEW s \in Statements, Takes(r, s) PROVE order'[q] = order[q] /\ pc'[q] = pc[q]
      <3>1. order[r] \in Asks /\ Executed(r, s) /\ order' = order
        BY <2>2 DEF Takes, Executed, Under, Inv, OrdersOK
      <3>2. PICK t \in Statements : pc' = [pc EXCEPT ![r] = t]
        BY <3>1, Going
      <3>3. QED
        BY <1>t, <3>1, <3>2
    <2>3. CASE Wait(r)
      BY <2>3 DEF Wait
    <2>4. ASSUME NEW how \in {"done", "failed"}, Ends(r, how), order' = order
          PROVE  order'[q] = order[q] /\ pc'[q] = pc[q]
      BY <1>t, <2>4 DEF Ends
    <2>5. QED
      BY <2>1, <2>2, <2>3, <2>4
  <1>2. \A row : <<q, "S", row>> \in locks' <=> <<q, "S", row>> \in locks
    <2>1. ASSUME NEW how, Ends(r, how) PROVE \A row : <<q, "S", row>> \in locks' <=> <<q, "S", row>> \in locks
      BY <2>1 DEF Ends, Release
    <2>2. ASSUME NEW s, Takes(r, s) PROVE \A row : <<q, "S", row>> \in locks' <=> <<q, "S", row>> \in locks
      BY <2>2 DEF Takes
    <2>3. CASE Wait(r)
      BY <2>3 DEF Wait
    <2>4. ASSUME NEW o, Arrive(r, o) PROVE \A row : <<q, "S", row>> \in locks' <=> <<q, "S", row>> \in locks
      BY <2>4 DEF Arrive
    <2>5. QED
      BY <2>1, <2>2, <2>3, <2>4
  <1>3. Shares(q)' = Shares(q)
    BY <1>1, <1>2 DEF Shares, Holds
  <1>4. QED
    BY <1>1, <1>3 DEF Left, Under, Here

THEOREM AlwaysForward == Spec => OnlyForward
  <1> DEFINE Forward == \A r \in Requests : /\ Left(r)' <= Left(r)
                                            /\ Steps(r) => Left(r)' < Left(r)
  <1>1. ASSUME LocksInv, LocksInv', [Next]_vars PROVE Forward
    <2>1. Inv /\ LeftOK /\ LeftOK'
      BY <1>1, LeftType, LeftTypeNext DEF LocksInv
    <2>2. \A r \in Requests : Left(r) \in 0..13 /\ Left(r)' \in 0..13
      BY <2>1 DEF LeftOK
    \* A step of r lowers what is left to r, and leaves the others where they are.
    <2>3. ASSUME NEW r \in Requests,
                 \/ \E o \in Asks : Arrive(r, o)
                 \/ \E s \in Statements : Takes(r, s)
                 \/ Wait(r)
                 \/ \E how \in {"done", "failed"} : Under(r) /\ Ends(r, how) /\ order' = order
          PROVE  Left(r)' < Left(r) /\ \A q \in Requests \ {r} : Left(q)' = Left(q)
      <3>1. \A q \in Requests \ {r} : Left(q)' = Left(q)
        BY <2>1, <2>3, OthersStand
      <3>2. ASSUME NEW o \in Asks, Arrive(r, o) PROVE Left(r)' < Left(r)
        <4>1. PICK t \in Statements : pc' = [pc EXCEPT ![r] = t]
          BY <3>2, Coming DEF Arrive
        <4>2. pc[r] = "idle" /\ pc'[r] \in Statements
          BY <2>1, <3>2, <4>1 DEF Arrive, Inv, TypeOK
        <4>3. Left(r) = 13
          BY <4>2 DEF Left, Under, Statements
        <4>4. Left(r)' \in 1..12
          BY <2>1, <4>2 DEF LeftOK, Under
        <4>5. QED
          BY <4>3, <4>4
      <3>3. ASSUME NEW how \in {"done", "failed"}, Under(r), Ends(r, how) PROVE Left(r)' < Left(r)
        <4>1. pc'[r] = how /\ how \notin Statements /\ how # "idle"
          BY <2>1, <3>3 DEF Ends, Statements, Inv, TypeOK
        <4>2. Left(r)' = 0
          BY <4>1 DEF Left, Under
        <4>3. Left(r) \in 1..12
          BY <2>1, <3>3 DEF LeftOK
        <4>4. QED
          BY <4>2, <4>3
      <3>4. QED
        BY <1>1, <2>3, <3>1, <3>2, <3>3, TakesLowers, WaitLowers
    <2>4. CASE \E r \in Requests : \/ \E o \in Asks : Arrive(r, o)
                                   \/ \E s \in Statements : Takes(r, s)
                                   \/ Wait(r)
                                   \/ \E how \in {"done", "failed"} : Under(r) /\ Ends(r, how) /\ order' = order
      <3>1. PICK r \in Requests : /\ Left(r)' < Left(r)
                                  /\ \A q \in Requests \ {r} : Left(q)' = Left(q)
        BY <2>3, <2>4
      <3>2. ASSUME NEW q \in Requests, q # r, Steps(q) PROVE FALSE
        <4>1. \/ \E o \in Asks : Arrive(q, o)
              \/ \E s \in Statements : Takes(q, s)
              \/ Wait(q)
              \/ \E how \in {"done", "failed"} : Under(q) /\ Ends(q, how) /\ order' = order
          BY <3>2, ProceedKinds DEF Steps
        <4>2. Left(q)' < Left(q) /\ Left(q)' = Left(q)
          BY <2>3, <3>1, <3>2, <4>1
        <4>3. QED
          BY <2>2, <4>2
      <3>3. ASSUME NEW q \in Requests PROVE Left(q)' <= Left(q) /\ (Steps(q) => Left(q)' < Left(q))
        <4>1. CASE q = r
          BY <2>2, <3>1, <4>1
        <4>2. CASE q # r
          <5>1. Left(q)' = Left(q) /\ ~Steps(q)
            BY <3>1, <3>2, <4>2
          <5>2. QED
            BY <2>2, <5>1
        <4>3. QED
          BY <4>1, <4>2
      <3>4. QED
        BY <3>3
    <2>5. CASE UNCHANGED <<order, pc, locks>>
      <3>1. ASSUME NEW q \in Requests PROVE Left(q)' = Left(q)
        BY <2>5 DEF Left, Here, Shares, Holds, Under
      <3>2. ASSUME NEW q \in Requests, Steps(q) PROVE FALSE
        <4>1. \/ \E o \in Asks : Arrive(q, o)
              \/ \E s \in Statements : Takes(q, s)
              \/ Wait(q)
              \/ \E how \in {"done", "failed"} : Under(q) /\ Ends(q, how) /\ order' = order
          BY <3>2, ProceedKinds DEF Steps
        <4>2. Left(q)' < Left(q) /\ Left(q)' = Left(q)
          BY <2>3, <3>1, <4>1
        <4>3. QED
          BY <2>2, <4>2
      <3>3. ASSUME NEW q \in Requests PROVE Left(q)' <= Left(q) /\ (Steps(q) => Left(q)' < Left(q))
        <4>1. Left(q)' = Left(q) /\ ~Steps(q)
          BY <3>1, <3>2
        <4>2. QED
          BY <2>2, <4>1
      <3>4. QED
        BY <3>3
    <2>6. QED
      BY <1>1, <2>1, <2>4, <2>5, StepKinds
  <1>2. LocksInv /\ LocksInv' /\ [Next]_vars => [Forward]_vars
    BY <1>1
  <1>3. QED
    BY <1>2, LocksAlways, PTL DEF Spec, OnlyForward
=============================================================================
