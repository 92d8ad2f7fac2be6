------------------------------- MODULE Contents -------------------------------
(***************************************************************************)
(* What a project and its sites contain: texts by language, images and     *)
(* contact data, as ProjectRepo and SiteRepo (src/muistot/backend/repos)   *)
(* write them, statement by statement, for requests that overlap.  Who may *)
(* make such a request is the subject of Sites.                            *)
(*                                                                         *)
(* A request is one transaction.  A statement waits for the rows it locks; *)
(* what it writes is seen by others after the commit.  A request may fail  *)
(* at any point (an error, a dead worker, a commit that is refused): the   *)
(* database rolls it back, a file that it wrote stays.                     *)
(***************************************************************************)
EXTENDS Images, Naturals, Sequences

CONSTANTS Project, Contact,      \* the project, and its row in project_contact
          Sites,                 \* names of its sites
          Langs,
          NoLang, NoImage, NoOrder,
          MostFields             \* bound: the fields that a PATCH names

VARIABLES
    made,     \* the project and the sites that exist
    texts,    \* texts[x]: the languages x has a text in
    image,    \* image[x]: the image of x, or NoImage
    default,  \* the default language of the project
    contact,  \* does it have contact data?
    order,    \* order[r]: what request r is asked for
    pc,       \* pc[r]: the statement that r executes next, or how r stands
    locks,    \* <<r, mode, row>>: r holds this lock
    drawn     \* history: drawn[x] is the default language that x was made for

contents == <<made, texts, image, default, contact, drawn>>
vars == <<images, contents, order, pc, locks>>

Things == {Project} \cup Sites
Order == [op : {"create", "modify", "delete"}, x : Things,
          image : {"keep", "clear", "new"},    \* left out, null, an image
          info : Langs \cup {NoLang},          \* the language of the text
          default : Langs \cup {NoLang},
          contact : {"keep", "clear", "new"},
          seen : Langs]                        \* the default in the request's snapshot

Statements == {"open", "write", "insert", "contact", "info", "default", "update", "delete", "commit"}
Rows == Things \cup {Contact} \cup (Things \X Langs)

ASSUME NullAssumption == NoLang \notin Langs /\ NoImage \notin Requests /\ NoOrder \notin Order
ASSUME MostAssumption == MostFields \in Nat

TypeOK == /\ ImagesTypeOK
          /\ made \subseteq Things
          /\ texts \in [Things -> SUBSET Langs]
          /\ image \in [Things -> Requests \cup {NoImage}]
          /\ default \in Langs /\ contact \in BOOLEAN
          /\ order \in [Requests -> Order \cup {NoOrder}]
          /\ pc \in [Requests -> Statements \cup {"idle", "done", "failed"}]
          /\ locks \subseteq Requests \X {"S", "X"} \X Rows
          /\ drawn \in [Things -> Langs]

\* No project, or one that may have sites, each with a text in the default language.
Init == /\ ImagesInit
        /\ default \in Langs
        /\ made \in SUBSET Things /\ (made # {} => Project \in made)
        /\ texts = [x \in Things |-> IF x \in made THEN {default} ELSE {}]
        /\ image = [x \in Things |-> NoImage]
        /\ contact = FALSE
        /\ order = [r \in Requests |-> NoOrder]
        /\ pc = [r \in Requests |-> "idle"]
        /\ locks = {}
        /\ drawn = [x \in Things |-> default]
-----------------------------------------------------------------------------
(* The statements of a request *)

\* ProjectRepo and SiteRepo: create, modify and delete, in the order of the code.
Plan(o) ==
    CASE o.op = "delete" -> <<"delete", "commit">>
      [] o.op = "create" /\ o.x = Project ->
            <<"open", "write", "insert", "info", "contact", "commit">>
      [] o.op = "modify" /\ o.x = Project ->
            <<"open", "write", "contact", "info", "update", "commit">>
      [] o.op = "create" /\ o.x # Project ->
            <<"open", "write", "insert", "info", "default", "commit">>
      [] o.op = "modify" /\ o.x # Project ->
            <<"open", "write", "update", "info", "commit">>

\* Mutant: the text of a PATCH is written also when there is none.
Involves_NoneToo(o, s) ==
    CASE s \in {"open", "write"} -> o.image = "new"
      [] s = "contact" -> o.contact # "keep"
      [] s = "default" -> o.seen # o.info
      [] s = "update" -> o.image # "keep" \/ o.default # NoLang
      [] OTHER -> TRUE

\* Mutant: a site is not given a text in the default language.
Involves_NoDefault(o, s) ==
    CASE s \in {"open", "write"} -> o.image = "new"
      [] s = "contact" -> o.contact # "keep"
      [] s = "info" -> o.info # NoLang
      [] s = "default" -> FALSE
      [] s = "update" -> o.image # "keep" \/ o.default # NoLang
      [] OTHER -> TRUE

\* A statement is skipped when the request has nothing for it.
Involves(o, s) ==
    CASE s \in {"open", "write"} -> o.image = "new"
      [] s = "contact" -> o.contact # "keep"
      [] s = "info" -> o.info # NoLang
      [] s = "default" -> o.seen # o.info
      [] s = "update" -> o.image # "keep" \/ o.default # NoLang
      [] OTHER -> TRUE

Executes(o, s) == Involves(o, s) /\ \E k \in DOMAIN Plan(o) : Plan(o)[k] = s

\* The rows that a statement reads and writes, with the locks it takes: an INSERT
\* or REPLACE ... SELECT, a subquery of a DELETE and a foreign key share the rows
\* they look at.
Wants(o, s) ==
    CASE s = "insert" -> {<<"X", o.x>>} \cup (IF o.x = Project THEN {} ELSE {<<"S", Project>>})
      [] s = "contact" -> {<<"S", Project>>, <<"X", Contact>>}
      [] s = "info" -> {<<"S", o.x>>, <<"X", <<o.x, o.info>>>>}
      [] s = "default" -> {<<"S", o.x>>, <<"X", <<o.x, o.seen>>>>}
      [] s = "update" -> {<<"X", o.x>>}
      [] s = "delete" -> {<<"X", o.x>>} \cup {<<"X", <<o.x, l>>>> : l \in Langs}
      [] OTHER -> {}

\* The requests whose locks keep r from taking this one.
Holders(r, want) == {s \in Requests \ {r} : \/ <<s, "X", want[2]>> \in locks
                                            \/ want[1] = "X" /\ <<s, "S", want[2]>> \in locks}

Under(r) == pc[r] \in Statements
Blockers(r) == UNION {Holders(r, want) : want \in Wants(order[r], pc[r])}

\* A cycle: everyone in it waits for one of it, and no part of it does so.
Stuck(D) == \A r \in D : Under(r) /\ Blockers(r) \cap D # {}
Deadlock(D) == Stuck(D) /\ \A E \in SUBSET D : E # {} /\ Stuck(E) => E = D

\* Mutant: the connection goes back to the pool in the middle of its transaction.
Release_Never(r) == locks

\* The end of a transaction.
Release(r) == {lock \in locks : lock[1] # r}

Ends(r, how) == pc' = [pc EXCEPT ![r] = how] /\ locks' = Release(r)

\* r, asked for o, comes to the next statement after the k-th that is not skipped.
GoesOn(r, o, k) ==
    \E n \in DOMAIN Plan(o) :
        /\ n > k /\ Involves(o, Plan(o)[n])
        /\ \A m \in DOMAIN Plan(o) : k < m /\ m < n => ~Involves(o, Plan(o)[m])
        /\ pc' = [pc EXCEPT ![r] = Plan(o)[n]]

\* r has executed this statement.
Executed(r, s) ==
    /\ pc[r] = s
    /\ \E k \in DOMAIN Plan(order[r]) : Plan(order[r])[k] = s /\ GoesOn(r, order[r], k)
-----------------------------------------------------------------------------
(* What a request does *)

\* The check of require_status, which takes the snapshot of the transaction.
Arrive(r, o) ==
    /\ pc[r] = "idle" /\ o.seen = default
    /\ IF o.op = "create" THEN o.x \notin made /\ (o.x # Project => Project \in made)
                          ELSE o.x \in made
    /\ order' = [order EXCEPT ![r] = o]
    /\ GoesOn(r, o, 0)
    /\ UNCHANGED <<images, contents, locks>>

Open(r) == /\ Executed(r, "open") /\ OpenFile(r)
           /\ UNCHANGED <<contents, order, locks>>

Write(r) == /\ Executed(r, "write") /\ WriteFile(r)
            /\ UNCHANGED <<contents, order, locks>>

\* A statement of SQL.  The name of a new site is taken, or that of the project.
Execute(r, s) ==
    /\ Executed(r, s)
    /\ Blockers(r) = {}
    /\ s = "insert" => order[r].x \notin made
    /\ locks' = locks \cup {<<r, want[1], want[2]>> : want \in Wants(order[r], s)}
    /\ UNCHANGED <<images, contents, order>>

\* It reads a row, and waits for the one that it is to write.
Wait(r) ==
    /\ Under(r) /\ Blockers(r) # {}
    /\ \E want \in Wants(order[r], pc[r]) :
          /\ want[1] = "S" /\ Holders(r, want) = {} /\ <<r, "S", want[2]>> \notin locks
          /\ locks' = locks \cup {<<r, "S", want[2]>>}
    /\ UNCHANGED <<images, contents, order, pc>>

\* The unique key refuses the second row of a name (409).
Refuse(r) ==
    /\ pc[r] = "insert" /\ Blockers(r) = {} /\ order[r].x \in made
    /\ Ends(r, "failed")
    /\ UNCHANGED <<images, contents, order>>

\* The database picks a request out of a deadlock.
Victim(r) ==
    /\ \E D \in SUBSET Requests : r \in D /\ Deadlock(D)
    /\ Ends(r, "failed")
    /\ UNCHANGED <<images, contents, order>>

\* An error, a worker that dies, a commit that is refused.
Fail(r) ==
    /\ Under(r) /\ Ends(r, "failed")
    /\ UNCHANGED <<images, contents, order>>
-----------------------------------------------------------------------------
(* The commit *)

\* The languages of the texts that a request has written.
Written(o) == (IF Executes(o, "info") THEN {o.info} ELSE {})
         \cup (IF Executes(o, "default") THEN {o.seen} ELSE {})

CommitImage(r) == IF order[r].image = "new" THEN CommitRow(r) ELSE UNCHANGED images

ImageAfter(r, x) == CASE order[r].image = "new" -> r
                      [] order[r].image = "clear" -> NoImage
                      [] OTHER -> image[x]

Contacted(o) == IF o.contact = "keep" THEN contact ELSE o.contact = "new"

Commits(r, op) == /\ pc[r] = "commit" /\ order[r].op = op
                  /\ Ends(r, "done")
                  /\ UNCHANGED order

CommitCreate(r) ==
    /\ Commits(r, "create") /\ CommitImage(r)
    /\ LET o == order[r]
           lang == IF o.x = Project THEN o.info ELSE o.seen
       IN /\ made' = made \cup {o.x}
          /\ texts' = [texts EXCEPT ![o.x] = Written(o)]
          /\ image' = [image EXCEPT ![o.x] = ImageAfter(r, o.x)]
          /\ default' = IF o.x = Project THEN o.info ELSE default
          /\ contact' = Contacted(o)
          /\ drawn' = [drawn EXCEPT ![o.x] = lang]

\* Nothing is found to be changed of a site that was deleted in the meantime.
CommitModify(r) ==
    /\ Commits(r, "modify") /\ CommitImage(r)
    /\ LET o == order[r]
       IN IF o.x \notin made THEN UNCHANGED contents
          ELSE /\ texts' = [texts EXCEPT ![o.x] = @ \cup Written(o)]
               /\ image' = [image EXCEPT ![o.x] = ImageAfter(r, o.x)]
               /\ default' = IF o.default = NoLang THEN default ELSE o.default
               /\ contact' = Contacted(o)
               /\ UNCHANGED <<made, drawn>>

\* The texts go with the site, the row of its image stays.
CommitDelete(r) ==
    /\ Commits(r, "delete")
    /\ LET x == order[r].x
       IN /\ made' = made \ {x}
          /\ texts' = [texts EXCEPT ![x] = {}]
          /\ image' = [image EXCEPT ![x] = NoImage]
    /\ UNCHANGED <<images, default, contact, drawn>>
-----------------------------------------------------------------------------
\* A project or a site can be read if it has a text in the default language;
\* else it is missing from the list, and answers 406.
Readable(x) == x \in made /\ default \in texts[x]

\* A GET, whose response shows the name of the image.
Read(x) == /\ IF Readable(x) /\ image[x] # NoImage THEN Show(image[x]) ELSE UNCHANGED images
           /\ UNCHANGED <<contents, order, pc, locks>>

\* What may be asked, up to the bound on the fields that a PATCH names.
Sensible(o) ==
    CASE o.op = "create" -> /\ o.image # "clear" /\ o.info # NoLang /\ o.default = NoLang
                            /\ o.contact # "clear" /\ (o.x # Project => o.contact = "keep")
      [] o.op = "delete" -> /\ o.x # Project /\ o.image = "keep" /\ o.info = NoLang
                            /\ o.default = NoLang /\ o.contact = "keep"
      [] o.op = "modify" ->
            LET fields == (IF o.image = "keep" THEN 0 ELSE 1) + (IF o.info = NoLang THEN 0 ELSE 1)
                        + (IF o.default = NoLang THEN 0 ELSE 1) + (IF o.contact = "keep" THEN 0 ELSE 1)
            IN /\ fields \in 1..MostFields
               /\ o.x # Project => o.default = NoLang /\ o.contact = "keep"

Asks == {o \in Order : Sensible(o)}

SQL == {"insert", "contact", "info", "default", "update", "delete"}

Proceed(r) == \/ Open(r) \/ Write(r) \/ Wait(r) \/ Refuse(r) \/ Victim(r)
              \/ \E s \in SQL : Execute(r, s)
              \/ CommitCreate(r) \/ CommitModify(r) \/ CommitDelete(r)

Next == \/ \E r \in Requests : Proceed(r) \/ Fail(r) \/ \E o \in Asks : Arrive(r, o)
        \/ \E x \in Things : Read(x)
        \/ \E w \in Workers, i \in Requests :
              (GetImage(w, i) \/ Forget(w, i)) /\ UNCHANGED <<contents, order, pc, locks>>

Fairness == \A r \in Requests : WF_vars(Proceed(r))
Spec == Init /\ [][Next]_vars /\ Fairness
-----------------------------------------------------------------------------
\* Every row of an image has its whole file, and a file without a row is the
\* leftover of a request that is under way or has failed (nothing removes it).
LeftoversOfFailures ==
    \A i \in Requests : /\ i \in rows => file[i] = "whole"
                        /\ file[i] # "none" /\ i \notin rows => Under(i) \/ pc[i] = "failed"

\* A project or a site can be read for as long as the default language is the one
\* that was in force when the request that made it came, whatever overlapped.
ReadableAsMade == \A x \in made : default = drawn[x] => Readable(x)

\* Every request comes to an end: nobody waits for a lock for ever, although a
\* PATCH of a project first shares its row and then wants it alone.
AllEnd == \A r \in Requests : Under(r) ~> ~Under(r)
=============================================================================
