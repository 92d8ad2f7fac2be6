----------------------------- MODULE ReportsProofs -----------------------------
(***************************************************************************)
(* Theorems about Reports, for every set of requests, users, names and ids *)
(* and every bound on reports: no memory without its site and no report    *)
(* without its thing, the words of a memory are its author's, an id never  *)
(* names a second memory, nothing is hidden without a reason or shown      *)
(* without an admin, what is hidden is not found by others, and the        *)
(* watchdog leaves out nothing it should hide.                             *)
(***************************************************************************)
EXTENDS Reports, FiniteSetTheorems, TLAPS

\* A memory has an id that was given, a site, and its author's words.
MemoriesOK == \A m \in Ids : memory[m] # NoMemory => /\ m \in issued
                                                     /\ site[memory[m].site] # NoSite
                                                     /\ memory[m].words = memory[m].author

\* Only what is there has reports.
ReportsOK == /\ \A n \in Names : reports[n] # {} => site[n] # NoSite
             /\ \A m \in Ids : reports[m] # {} => memory[m] # NoMemory

\* What the check of an order has established, and no later step takes back:
\* an id is never given again, so the author found by the check stays.
Checked(o) ==
    /\ o.op \in MemoryOps \ {"create_memory"} => o.m \in Ids
    /\ o.op = "modify_memory" =>
         /\ o.m \in issued
         /\ memory[o.m] # NoMemory => memory[o.m].author = o.by
    /\ o.op \in {"publish_site", "hide_site", "publish_memory", "hide_memory"} =>
         o.by \in ProjectAdmins

OrdersOK == \A r \in Requests : order[r] # NoOrder => Checked(order[r])

Inv == TypeOK /\ MemoriesOK /\ ReportsOK /\ OrdersOK
-----------------------------------------------------------------------------
(* Sites and memories as things *)

\* What exists and what is published, for a site ...
LEMMA SiteThing ==
    ASSUME NEW n \in Names
    PROVE  /\ Exists(n) <=> site[n] # NoSite
           /\ Published(n) <=> site[n] # NoSite /\ site[n].published
  BY DEF Exists, Published

\* ... and for a memory.
LEMMA MemoryThing ==
    ASSUME NEW m \in Ids
    PROVE  /\ Exists(m) <=> memory[m] # NoMemory
           /\ Published(m) <=> memory[m] # NoMemory /\ memory[m].published
           /\ \A n : Of(m, n) <=> memory[m] # NoMemory /\ memory[m].site = n
  BY ThingAssumption DEF Exists, Published, Of
-----------------------------------------------------------------------------
(* What a check that passed has established *)

\* OWN is for the author of a memory, ADMIN for the admins of the project.
LEMMA MemoryRights ==
    ASSUME NEW u \in Users, NEW n \in Names, NEW m \in Ids \cup {NoMemory}
    PROVE  /\ "OWN" \in MemoryFlags(u, n, m) =>
                m \in Ids /\ memory[m] # NoMemory /\ memory[m].author = u
           /\ "ADMIN" \in MemoryFlags(u, n, m) => u \in ProjectAdmins
  <1>1. "OWN" \in MemoryFlags(u, n, m) => m # NoMemory /\ Of(m, n) /\ memory[m].author = u
    BY DEF MemoryFlags, RolesOf, Derived
  <1>2. "ADMIN" \in MemoryFlags(u, n, m) => u \in ProjectAdmins
    BY DEF MemoryFlags, RolesOf, Derived
  <1>3. QED
    BY <1>1, <1>2, MemoryThing

\* The same for a site.
LEMMA SiteRights ==
    ASSUME NEW u \in Users, NEW n \in Names
    PROVE  "ADMIN" \in SiteFlags(u, n) => u \in ProjectAdmins
  BY DEF SiteFlags, RolesOf, Derived

\* Whatever the route, a check that passes establishes Checked.
LEMMA Granted ==
    ASSUME TypeOK, MemoriesOK, NEW o \in Order,
           o.op \in MemoryOps \ {"create_memory"} => o.m \in Ids,
           RepoAllows(o) \/ OrderAllows(o)
    PROVE  Checked(o)
  <1>0. o.by \in Users /\ o.n \in Names /\ o.m \in Ids \cup {NoMemory}
    BY DEF Order
  <1>1. ASSUME OrderAllows(o) PROVE Checked(o)
    <2>1. o.op \in OrderOps
          /\ (o.op \notin {"report_site", "report_memory"} => o.by \in ProjectAdmins)
      BY <1>1 DEF OrderAllows
    <2>2. QED
      BY <2>1 DEF Checked, OrderOps, MemoryOps
  <1>2. ASSUME RepoAllows(o) PROVE Checked(o)
    <2> DEFINE flags == MemoryFlags(o.by, o.n, o.m)
    <2>1. CASE o.op = "modify_memory"
      <3>1. Acceptable(o.op) = Authors /\ o.op \notin SiteOps
        BY <2>1 DEF Acceptable, SiteOps
      <3>2. "OWN" \in flags
        BY <1>2, <3>1 DEF RepoAllows, Meets, Authors
      <3>3. QED
        BY <1>0, <2>1, <3>2, MemoryRights DEF Checked, MemoriesOK, MemoryOps
    <2>2. CASE o.op \in {"publish_memory", "hide_memory"}
      <3>1. Acceptable(o.op) = Admins /\ o.op \notin SiteOps
        BY <2>2 DEF Acceptable, SiteOps
      <3>2. "ADMIN" \in flags
        BY <1>2, <3>1 DEF RepoAllows, Meets, Admins
      <3>3. QED
        BY <1>0, <2>2, <3>2, MemoryRights DEF Checked, MemoryOps
    <2>3. CASE o.op \in {"publish_site", "hide_site"}
      <3>1. Acceptable(o.op) = Admins /\ o.op \in SiteOps
        BY <2>3 DEF Acceptable, SiteOps
      <3>2. "ADMIN" \in SiteFlags(o.by, o.n)
        BY <1>2, <3>1 DEF RepoAllows, Meets, Admins
      <3>3. QED
        BY <1>0, <2>3, <3>2, SiteRights DEF Checked, MemoryOps
    <2>4. CASE o.op \notin {"modify_memory", "publish_memory", "hide_memory",
                            "publish_site", "hide_site"}
      BY <2>4 DEF Checked
    <2>5. QED
      BY <2>1, <2>2, <2>3, <2>4
  <1>3. QED
    BY <1>1, <1>2

\* What arrives is an order, and one about a memory has its id.
LEMMA Arriving ==
    ASSUME NEW r \in Requests, NEW u \in Users, NEW n \in Names, Arrive(r, u, n)
    PROVE  \E o \in Order : /\ Check(r, o)
                            /\ o.op \in MemoryOps \ {"create_memory"} => o.m \in Ids
  <1> USE DEF Ask, Order, SiteOps, MemoryOps, Routes
  <1>1. ASSUME NEW op \in SiteOps \cup {"create_memory"}, NEW route \in Routes,
               Check(r, Ask(op, route, u, n, NoMemory))
        PROVE  \E o \in Order : /\ Check(r, o)
                                /\ o.op \in MemoryOps \ {"create_memory"} => o.m \in Ids
    <2> DEFINE o == Ask(op, route, u, n, NoMemory)
    <2>1. o \in Order /\ o.op \notin MemoryOps \ {"create_memory"}
      OBVIOUS
    <2>2. QED
      BY ONLY <1>1, <2>1
  <1>2. ASSUME NEW op \in MemoryOps \ {"create_memory"}, NEW route \in Routes, NEW m \in Ids,
               Check(r, Ask(op, route, u, n, m))
        PROVE  \E o \in Order : /\ Check(r, o)
                                /\ o.op \in MemoryOps \ {"create_memory"} => o.m \in Ids
    <2> DEFINE o == Ask(op, route, u, n, m)
    <2>1. o \in Order /\ o.m \in Ids
      OBVIOUS
    <2>2. QED
      BY ONLY <1>2, <2>1
  <1>3. "repo" \in Routes
    OBVIOUS
  <1>4. QED
    BY ONLY <1>1, <1>2, <1>3, Arrive(r, u, n) DEF Arrive
-----------------------------------------------------------------------------
(* What every step keeps *)

\* A memory that was there before keeps its author.
AuthorsStay ==
    /\ issued \subseteq issued'
    /\ \A m \in issued : memory'[m] # NoMemory =>
          memory[m] # NoMemory /\ memory'[m].author = memory[m].author

\* The order that a step carries out, and those that it leaves.
LEMMA Acting ==
    ASSUME TypeOK, NEW r \in Requests, NEW ops, Acts(r, ops)
    PROVE  /\ order[r] \in Order /\ order[r] # NoOrder /\ order[r].op \in ops
           /\ order[r].by \in Users /\ order[r].n \in Names
           /\ order' \in [Requests -> Order \cup {NoOrder}]
           /\ \A q \in Requests : order'[q] # NoOrder => order'[q] = order[q]
           /\ watchdog' = watchdog /\ order'[r] # order[r]
  <1>1. order[r] \in Order /\ order[r] # NoOrder /\ order[r].op \in ops
    BY DEF Acts, TypeOK
  <1>2. order[r].by \in Users /\ order[r].n \in Names
    BY <1>1 DEF Order
  <1>3. QED
    BY <1>1, <1>2 DEF Acts, TypeOK

LEMMA OrdersKept ==
    ASSUME TypeOK, OrdersOK, AuthorsStay,
           \A q \in Requests : order'[q] # NoOrder => order'[q] = order[q]
    PROVE  OrdersOK'
  <1> SUFFICES ASSUME NEW q \in Requests, order'[q] # NoOrder
               PROVE  Checked(order[q])'
    BY DEF OrdersOK
  <1> PICK o \in Order : o = order[q] /\ o = order'[q]
    BY DEF TypeOK
  <1>1. Checked(o)
    BY DEF OrdersOK
  <1>2. Checked(o)'
    BY <1>1 DEF Checked, AuthorsStay
  <1>3. QED
    BY <1>2 DEF Checked
-----------------------------------------------------------------------------
LEMMA InvInit == Init => Inv
  BY DEF Init, Inv, TypeOK, MemoriesOK, ReportsOK, OrdersOK, Things

\* A check adds one order, which is as the check found it.
LEMMA CheckKeeps ==
    ASSUME Inv, NEW r \in Requests, NEW o \in Order, Check(r, o),
           o.op \in MemoryOps \ {"create_memory"} => o.m \in Ids
    PROVE  Inv'
  <1> USE DEF Inv
  <1>1. Checked(o)
    BY Granted DEF Check
  <1>2. UNCHANGED <<site, memory, issued, reports, watchdog>> /\ order' = [order EXCEPT ![r] = o]
    BY DEF Check
  <1>3. TypeOK' /\ MemoriesOK' /\ ReportsOK'
    BY <1>2 DEF TypeOK, MemoriesOK, ReportsOK
  <1>4. OrdersOK'
    <2> SUFFICES ASSUME NEW q \in Requests, order'[q] # NoOrder
                 PROVE  Checked(order[q])'
      BY DEF OrdersOK
    <2>1. Checked(order'[q])
      BY <1>1, <1>2 DEF OrdersOK, TypeOK
    <2>2. QED
      BY <1>2, <2>1 DEF Checked
  <1>5. QED
    BY <1>3, <1>4

\* Making, removing and publishing a site.
LEMMA SitesKeep ==
    ASSUME Inv, NEW r \in Requests, CreateSite(r) \/ DeleteSite(r) \/ PublishSite(r)
    PROVE  Inv'
  <1> DEFINE o == order[r]
             ops == {"create_site", "delete_site", "publish_site", "hide_site"}
  <1> USE DEF Inv
  <1>1. Acts(r, ops)
    BY DEF CreateSite, DeleteSite, PublishSite, Acts
  <1>2. /\ o.by \in Users /\ o.n \in Names
        /\ order' \in [Requests -> Order \cup {NoOrder}]
        /\ \A q \in Requests : order'[q] # NoOrder => order'[q] = order[q]
        /\ UNCHANGED watchdog
    BY <1>1, Acting
  <1> HIDE DEF o
  <1>3. CASE CreateSite(r)
    <2>1. /\ site' = IF site[o.n] # NoSite THEN site
                     ELSE [site EXCEPT ![o.n] = [creator |-> o.by, published |-> AutoPublish]]
          /\ UNCHANGED <<memory, issued, reports>>
      BY <1>2, <1>3, SiteThing DEF CreateSite, o
    <2>2. site' \in [Names -> Site \cup {NoSite}] /\ \A n \in Names : site[n] # NoSite => site'[n] # NoSite
      BY <1>2, <2>1, NumberAssumption DEF TypeOK, Site
    <2>3. TypeOK' /\ AuthorsStay
      BY <1>2, <2>1, <2>2 DEF TypeOK, AuthorsStay
    <2>4. MemoriesOK' /\ ReportsOK'
      BY <2>1, <2>2 DEF MemoriesOK, ReportsOK, TypeOK, Memory
    <2>5. QED
      BY <1>2, <2>3, <2>4, OrdersKept
  <1>4. CASE DeleteSite(r)
    <2> DEFINE gone(m) == memory[m] # NoMemory /\ memory[m].site = o.n
    <2>1. /\ site' = [site EXCEPT ![o.n] = NoSite] /\ issued' = issued
          /\ memory' \in [Ids -> Memory \cup {NoMemory}]
          /\ \A m \in Ids : memory'[m] = IF gone(m) THEN NoMemory ELSE memory[m]
      <3>1. /\ site' = [site EXCEPT ![o.n] = NoSite] /\ issued' = issued
            /\ memory' = [m \in Ids |-> IF Of(m, o.n) THEN NoMemory ELSE memory[m]]
        BY <1>4 DEF DeleteSite, o
      <3>2. QED
        BY <3>1, MemoryThing DEF TypeOK
    <2>2. /\ reports' \in [Things -> SUBSET Users]
          /\ reports'[o.n] = {}
          /\ \A n \in Names \ {o.n} : reports'[n] = reports[n]
          /\ \A m \in Ids : reports'[m] = IF gone(m) THEN {} ELSE reports[m]
      <3>1. reports' = [x \in Things |-> IF x = o.n \/ (x \in Ids /\ Of(x, o.n)) THEN {}
                                         ELSE reports[x]]
        BY <1>4 DEF DeleteSite, o
      <3>2. QED
        BY <1>2, <3>1, MemoryThing, ThingAssumption DEF TypeOK, Things
    <2> HIDE DEF gone
    <2>3. TypeOK' /\ AuthorsStay
      BY <1>2, <2>1, <2>2 DEF TypeOK, AuthorsStay
    <2>4. MemoriesOK'
      BY <1>2, <2>1 DEF MemoriesOK, TypeOK, Memory, gone
    <2>5. ReportsOK'
      BY <1>2, <2>1, <2>2 DEF ReportsOK, TypeOK
    <2>6. QED
      BY <1>2, <2>3, <2>4, <2>5, OrdersKept
  <1>5. CASE PublishSite(r)
    <2>1. PICK b \in BOOLEAN :
            site' = IF site[o.n] # NoSite THEN [site EXCEPT ![o.n].published = b] ELSE site
      BY <1>2, <1>5, SiteThing DEF PublishSite, o
    <2>2. UNCHANGED <<memory, issued, reports>>
      BY <1>5 DEF PublishSite
    <2>3. site' \in [Names -> Site \cup {NoSite}] /\ \A n \in Names : site[n] # NoSite => site'[n] # NoSite
      BY <1>2, <2>1, NullAssumption DEF TypeOK, Site
    <2>4. TypeOK' /\ AuthorsStay
      BY <1>2, <2>2, <2>3 DEF TypeOK, AuthorsStay
    <2>5. MemoriesOK' /\ ReportsOK'
      BY <2>2, <2>3 DEF MemoriesOK, ReportsOK, TypeOK, Memory
    <2>6. QED
      BY <1>2, <2>4, <2>5, OrdersKept
  <1>6. QED
    BY <1>3, <1>4, <1>5

\* Making, rewriting, publishing and removing a memory.
LEMMA MemoriesKeep ==
    ASSUME Inv, NEW r \in Requests,
           CreateMemory(r) \/ ModifyMemory(r) \/ PublishMemory(r) \/ DeleteMemory(r)
    PROVE  Inv'
  <1> DEFINE o == order[r]
             ops == {"create_memory", "modify_memory", "publish_memory", "hide_memory",
                     "delete_memory"}
  <1> USE DEF Inv
  <1>1. Acts(r, ops)
    BY DEF CreateMemory, ModifyMemory, PublishMemory, DeleteMemory, Acts
  <1>2. /\ o.by \in Users /\ o.n \in Names /\ Checked(o)
        /\ order' \in [Requests -> Order \cup {NoOrder}]
        /\ \A q \in Requests : order'[q] # NoOrder => order'[q] = order[q]
        /\ UNCHANGED watchdog
    BY <1>1, Acting DEF OrdersOK
  <1>3. ASSUME ModifyMemory(r) \/ PublishMemory(r) \/ DeleteMemory(r) PROVE o.m \in Ids
    <2>1. o.op \in {"modify_memory", "publish_memory", "hide_memory", "delete_memory"}
      BY <1>3 DEF ModifyMemory, PublishMemory, DeleteMemory, Acts
    <2>2. QED
      BY <1>2, <2>1 DEF Checked, MemoryOps
  <1>4. ModifyMemory(r) => o.op = "modify_memory"
    BY DEF ModifyMemory, Acts
  <1> HIDE DEF o
  <1>5. CASE CreateMemory(r)
    <2>1. CASE site[o.n] = NoSite
      <3>1. UNCHANGED <<site, memory, issued, reports>>
        BY <1>2, <1>5, <2>1, SiteThing DEF CreateMemory, o
      <3>2. TypeOK' /\ MemoriesOK' /\ ReportsOK' /\ AuthorsStay
        BY <1>2, <3>1 DEF TypeOK, MemoriesOK, ReportsOK, AuthorsStay
      <3>3. QED
        BY <1>2, <3>2, OrdersKept
    <2>2. CASE site[o.n] # NoSite
      <3> DEFINE new == [site |-> o.n, author |-> o.by, published |-> AutoPublish, words |-> o.by]
      <3>1. PICK m \in Ids \ issued :
              /\ memory' = [memory EXCEPT ![m] = new]
              /\ issued' = issued \cup {m} /\ UNCHANGED <<site, reports>>
        BY <1>2, <1>5, <2>2, SiteThing DEF CreateMemory, o
      <3>2. new \in Memory /\ new.site = o.n /\ new.words = new.author /\ new # NoMemory
        BY <1>2, NumberAssumption, NullAssumption DEF Memory
      <3> HIDE DEF new
      <3>3. TypeOK'
        BY <1>2, <3>1, <3>2 DEF TypeOK
      <3>4. AuthorsStay
        BY <3>1 DEF AuthorsStay, TypeOK
      <3>5. MemoriesOK' /\ ReportsOK'
        BY <2>2, <3>1, <3>2 DEF MemoriesOK, ReportsOK, TypeOK
      <3>6. QED
        BY <1>2, <3>3, <3>4, <3>5, OrdersKept
    <2>3. QED
      BY <2>1, <2>2
  <1>6. CASE ModifyMemory(r)
    <2>1. /\ memory' = IF memory[o.m] # NoMemory THEN [memory EXCEPT ![o.m].words = o.by] ELSE memory
          /\ UNCHANGED <<site, issued, reports>>
      BY <1>3, <1>6, MemoryThing DEF ModifyMemory, o
    <2>2. memory[o.m] # NoMemory => memory[o.m].author = o.by
      BY <1>2, <1>4, <1>6 DEF Checked
    <2>3. /\ memory' \in [Ids -> Memory \cup {NoMemory}]
          /\ \A m \in Ids : memory'[m] # NoMemory =>
                /\ memory[m] # NoMemory
                /\ memory'[m].site = memory[m].site /\ memory'[m].author = memory[m].author
                /\ memory'[m].words \in {memory[m].words, memory[m].author}
          /\ \A m \in Ids : memory[m] # NoMemory => memory'[m] # NoMemory
      BY <1>2, <1>3, <1>6, <2>1, <2>2, NullAssumption DEF TypeOK, Memory
    <2>4. TypeOK' /\ AuthorsStay /\ MemoriesOK' /\ ReportsOK'
      BY <1>2, <2>1, <2>3 DEF TypeOK, AuthorsStay, MemoriesOK, ReportsOK
    <2>5. QED
      BY <1>2, <2>4, OrdersKept
  <1>7. CASE PublishMemory(r)
    <2>1. PICK b \in BOOLEAN : memory' = IF memory[o.m] # NoMemory
                                           THEN [memory EXCEPT ![o.m].published = b] ELSE memory
      BY <1>3, <1>7, MemoryThing DEF PublishMemory, o
    <2>2. UNCHANGED <<site, issued, reports>>
      BY <1>7 DEF PublishMemory
    <2>3. /\ memory' \in [Ids -> Memory \cup {NoMemory}]
          /\ \A m \in Ids : memory'[m] # NoMemory =>
                /\ memory[m] # NoMemory
                /\ memory'[m].site = memory[m].site /\ memory'[m].author = memory[m].author
                /\ memory'[m].words = memory[m].words
          /\ \A m \in Ids : memory[m] # NoMemory => memory'[m] # NoMemory
      BY <1>3, <1>7, <2>1, NullAssumption DEF TypeOK, Memory
    <2>4. TypeOK' /\ AuthorsStay /\ MemoriesOK' /\ ReportsOK'
      BY <1>2, <2>2, <2>3 DEF TypeOK, AuthorsStay, MemoriesOK, ReportsOK
    <2>5. QED
      BY <1>2, <2>4, OrdersKept
  <1>8. CASE DeleteMemory(r)
    <2>1. /\ memory' = [memory EXCEPT ![o.m] = NoMemory]
          /\ reports' = [reports EXCEPT ![o.m] = {}] /\ UNCHANGED <<site, issued>>
      BY <1>8 DEF DeleteMemory, o
    <2>2. TypeOK' /\ AuthorsStay /\ MemoriesOK'
      BY <1>2, <1>3, <1>8, <2>1 DEF TypeOK, AuthorsStay, MemoriesOK
    <2>3. ReportsOK'
      BY <1>3, <1>8, <2>1, ThingAssumption DEF TypeOK, ReportsOK, Things
    <2>4. QED
      BY <1>2, <2>2, <2>3, OrdersKept
  <1>9. QED
    BY <1>5, <1>6, <1>7, <1>8

\* A report is written only for what is there.
LEMMA ReportKeeps ==
    ASSUME Inv, NEW r \in Requests, Report(r)
    PROVE  Inv'
  <1> DEFINE o == order[r]
             x == IF o.op = "report_site" THEN o.n ELSE o.m
  <1> USE DEF Inv
  <1>1. Acts(r, {"report_site", "report_memory"})
    BY DEF Report
  <1>2. /\ o.by \in Users /\ o.n \in Names /\ Checked(o)
        /\ order' \in [Requests -> Order \cup {NoOrder}]
        /\ \A q \in Requests : order'[q] # NoOrder => order'[q] = order[q]
        /\ UNCHANGED watchdog
        /\ o.op \in {"report_site", "report_memory"}
    BY <1>1, Acting DEF OrdersOK
  <1>3. x \in Things
    BY <1>2 DEF Checked, MemoryOps, Things
  <1>4. /\ reports' = IF Exists(x) THEN [reports EXCEPT ![x] = @ \cup {o.by}] ELSE reports
        /\ UNCHANGED <<site, memory, issued>>
    BY DEF Report
  <1> HIDE DEF x, o
  <1>5. TypeOK' /\ AuthorsStay /\ MemoriesOK'
    BY <1>2, <1>3, <1>4 DEF TypeOK, AuthorsStay, MemoriesOK
  <1>6. ReportsOK'
    <2>1. ASSUME NEW n \in Names, reports'[n] # {} PROVE site[n] # NoSite
      BY <1>3, <1>4, <2>1, SiteThing DEF TypeOK, ReportsOK, Things
    <2>2. ASSUME NEW m \in Ids, reports'[m] # {} PROVE memory[m] # NoMemory
      BY <1>3, <1>4, <2>2, MemoryThing DEF TypeOK, ReportsOK, Things
    <2>3. QED
      BY <1>4, <2>1, <2>2 DEF ReportsOK
  <1>7. QED
    BY <1>2, <1>5, <1>6, OrdersKept

\* The watchdog hides, and does nothing else.
LEMMA WatchdogKeeps ==
    ASSUME Inv, HideMemories \/ HideSites
    PROVE  Inv'
  <1> USE DEF Inv
  <1>1. CASE HideMemories
    <2>1. /\ memory' = [m \in Ids |-> IF memory[m] # NoMemory /\ Many(m)
                                         THEN [memory[m] EXCEPT !.published = FALSE] ELSE memory[m]]
          /\ watchdog' = "sites" /\ UNCHANGED <<site, issued, reports, order>>
      BY <1>1, MemoryThing DEF HideMemories
    <2>2. /\ memory' \in [Ids -> Memory \cup {NoMemory}]
          /\ \A m \in Ids : memory'[m] # NoMemory =>
                /\ memory[m] # NoMemory
                /\ memory'[m].site = memory[m].site /\ memory'[m].author = memory[m].author
                /\ memory'[m].words = memory[m].words
          /\ \A m \in Ids : memory[m] # NoMemory => memory'[m] # NoMemory
      BY <2>1, NullAssumption DEF TypeOK, Memory
    <2>3. TypeOK' /\ AuthorsStay /\ MemoriesOK' /\ ReportsOK'
      BY <2>1, <2>2 DEF TypeOK, AuthorsStay, MemoriesOK, ReportsOK
    <2>4. QED
      BY <2>1, <2>3, OrdersKept
  <1>2. CASE HideSites
    <2>1. /\ site' = [n \in Names |-> IF site[n] # NoSite /\ Many(n)
                                         THEN [site[n] EXCEPT !.published = FALSE] ELSE site[n]]
          /\ watchdog' = "asleep" /\ UNCHANGED <<memory, issued, reports, order>>
      BY <1>2, SiteThing DEF HideSites
    <2>2. /\ site' \in [Names -> Site \cup {NoSite}]
          /\ \A n \in Names : site[n] # NoSite => site'[n] # NoSite
      BY <2>1, NullAssumption DEF TypeOK, Site
    <2>3. TypeOK' /\ AuthorsStay
      BY <2>1, <2>2 DEF TypeOK, AuthorsStay
    <2>4. MemoriesOK' /\ ReportsOK'
      BY <2>1, <2>2 DEF TypeOK, MemoriesOK, ReportsOK, Memory
    <2>5. QED
      BY <2>1, <2>3, <2>4, OrdersKept
  <1>3. QED
    BY <1>1, <1>2

LEMMA InvStep == Inv /\ [Next]_vars => Inv'
  <1> SUFFICES ASSUME Inv, [Next]_vars PROVE Inv'
    OBVIOUS
  <1>1. ASSUME NEW r \in Requests, Write(r) PROVE Inv'
    BY <1>1, SitesKeep, MemoriesKeep, ReportKeeps DEF Write
  <1>2. ASSUME NEW r \in Requests, NEW u \in Users, NEW n \in Names, Arrive(r, u, n) PROVE Inv'
    BY <1>2, Arriving, CheckKeeps
  <1>3. CASE HideMemories \/ HideSites
    BY <1>3, WatchdogKeeps
  <1>4. CASE UNCHANGED vars
    <2>1. UNCHANGED <<site, memory, issued, reports, order, watchdog>>
      BY <1>4 DEF vars
    <2>2. TypeOK' /\ MemoriesOK' /\ ReportsOK' /\ AuthorsStay
      BY <2>1 DEF Inv, TypeOK, MemoriesOK, ReportsOK, AuthorsStay
    <2>3. OrdersOK'
      BY <2>1, <2>2, OrdersKept DEF Inv
    <2>4. QED
      BY <2>2, <2>3 DEF Inv
  <1>5. QED
    BY <1>1, <1>2, <1>3, <1>4 DEF Next

LEMMA InvAlways == Spec => []Inv
  BY InvInit, InvStep, PTL DEF Spec
-----------------------------------------------------------------------------
\* The tables, the orders and the watchdog keep their types.
THEOREM ReportsTypeCorrect == Spec => []TypeOK
  <1>1. Inv => TypeOK
    BY DEF Inv
  <1>2. QED
    BY <1>1, InvAlways, PTL

\* A memory is written and a report made after an await, when its site or memory may
\* be gone: then nothing is written (memory.py:125, publish.py:283).
THEOREM NeverOrphans == Spec => []NoOrphans
  <1>1. Inv => NoOrphans
    <2> SUFFICES ASSUME Inv PROVE NoOrphans
      OBVIOUS
    <2>1. ASSUME NEW m \in Ids, Exists(m) PROVE Exists(memory[m].site)
      <3>1. memory[m] # NoMemory
        BY <2>1, MemoryThing
      <3>2. memory[m].site \in Names /\ site[memory[m].site] # NoSite
        BY <3>1 DEF Inv, TypeOK, Memory, MemoriesOK
      <3>3. QED
        BY <3>2, SiteThing
    <2>2. ASSUME NEW x \in Things, reports[x] # {} PROVE Exists(x)
      BY <2>2, SiteThing, MemoryThing DEF Inv, ReportsOK, Things
    <2>3. QED
      BY <2>1, <2>2 DEF NoOrphans
  <1>2. QED
    BY <1>1, InvAlways, PTL

\* modify finds a memory by its id alone, after a check that asked for its author: the
\* words of a memory are its author's all the same.
THEOREM AlwaysOwnWords == Spec => []OwnWords
  <1>1. Inv => OwnWords
    BY MemoryThing DEF Inv, MemoriesOK, OwnWords
  <1>2. QED
    BY <1>1, InvAlways, PTL

\* An order that shows or hides is an admin's, and its request ends with it.
LEMMA AdminsPublish ==
    ASSUME Inv, NEW r \in Requests, PublishSite(r) \/ PublishMemory(r)
    PROVE  order'[r] # order[r] /\ order[r].by \in ProjectAdmins
  <1> DEFINE ops == {"publish_site", "hide_site", "publish_memory", "hide_memory"}
  <1>1. Acts(r, ops)
    BY DEF PublishSite, PublishMemory, Acts
  <1>2. order'[r] # order[r] /\ order[r] # NoOrder /\ order[r].op \in ops
    BY <1>1, Acting DEF Inv
  <1>3. QED
    BY <1>2 DEF Inv, OrdersOK, Checked

\* What was published is hidden by an admin's order or because of its reports, although
\* the order was checked earlier and the watchdog looks at one table after the other.
THEOREM HiddenWithReason == Spec => HiddenForAReason
  <1> DEFINE Reason ==
        \A x \in Things : Published(x) /\ ~Published(x)' /\ Exists(x)' =>
           \/ Many(x)
           \/ \E r \in Requests : order'[r] # order[r] /\ order[r].by \in ProjectAdmins
  <1>1. Inv /\ [Next]_vars => [Reason]_vars
    <2> SUFFICES ASSUME Inv, Next, NEW x \in Things, Published(x), ~Published(x)', Exists(x)',
                        ~Many(x)
                 PROVE  \E r \in Requests : order'[r] # order[r] /\ order[r].by \in ProjectAdmins
      BY DEF vars
    <2>1. x \in Names => /\ site[x] # NoSite /\ site[x].published
                         /\ site'[x] # NoSite /\ ~site'[x].published
      BY DEF Published, Exists
    <2>2. x \in Ids => /\ memory[x] # NoMemory /\ memory[x].published
                       /\ memory'[x] # NoMemory /\ ~memory'[x].published
      BY ThingAssumption DEF Published, Exists
    <2>3. ASSUME NEW r \in Requests, PublishSite(r) \/ PublishMemory(r)
          PROVE  order'[r] # order[r] /\ order[r].by \in ProjectAdmins
      BY <2>3, AdminsPublish
    <2>4. ASSUME NEW r \in Requests,
                 \/ CreateSite(r) \/ DeleteSite(r)
                 \/ CreateMemory(r) \/ ModifyMemory(r) \/ DeleteMemory(r) \/ Report(r)
          PROVE  FALSE
      <3> USE DEF Inv, TypeOK
      <3>0. order[r].n \in Names
        BY <2>4, Acting DEF CreateSite, DeleteSite, CreateMemory, ModifyMemory, DeleteMemory, Report
      <3>1. CASE CreateSite(r)
        BY <2>1, <2>2, <3>0, <3>1, SiteThing DEF CreateSite, Things
      <3>2. CASE DeleteSite(r)
        BY <2>1, <2>2, <3>0, <3>2 DEF DeleteSite, Things
      <3>3. CASE CreateMemory(r)
        BY <2>1, <2>2, <3>3 DEF CreateMemory, Things, MemoriesOK
      <3>4. CASE ModifyMemory(r)
        BY <2>1, <2>2, <3>4 DEF ModifyMemory, Things, Memory
      <3>5. CASE DeleteMemory(r)
        BY <2>1, <2>2, <3>5 DEF DeleteMemory, Things
      <3>6. CASE Report(r)
        BY <2>1, <2>2, <3>6 DEF Report, Things
      <3>7. QED
        BY <2>4, <3>1, <3>2, <3>3, <3>4, <3>5, <3>6
    <2>5. ASSUME NEW r \in Requests, NEW u \in Users, NEW n \in Names, Arrive(r, u, n) PROVE FALSE
      BY <2>1, <2>2, <2>5, Arriving DEF Check, Things
    <2>6. CASE HideMemories
      BY <2>1, <2>2, <2>6 DEF HideMemories, Things
    <2>7. CASE HideSites
      BY <2>1, <2>2, <2>7 DEF HideSites, Things
    <2>8. QED
      BY <2>3, <2>4, <2>5, <2>6, <2>7 DEF Next, Write
  <1>2. QED
    BY <1>1, InvAlways, PTL DEF Spec, HiddenForAReason

\* A refusal is never 200.
LEMMA RefusalCode ==
    ASSUME NEW acceptable, NEW flags
    PROVE  Refusal(acceptable, flags) # 200
  BY DEF Refusal

\* What the flags of a reader say.
LEMMA ViewerSays ==
    ASSUME NEW u \in Users \cup {Visitor}, NEW n \in Names, NEW m \in Ids
    PROVE  /\ "EXISTS" \in ViewerFlags(u, n, m) <=> Of(m, n)
           /\ "PUBLISHED" \in ViewerFlags(u, n, m) <=> Of(m, n) /\ Published(m)
           /\ "OWN" \in ViewerFlags(u, n, m) <=> u # Visitor /\ Of(m, n) /\ memory[m].author = u
           /\ "ADMIN" \in ViewerFlags(u, n, m) <=> u # Visitor /\ u \in ProjectAdmins
  <1>1. m # NoMemory
    BY ThingAssumption
  <1>2. QED
    BY <1>1 DEF ViewerFlags, Visiting, MemoryFlags, RolesOf, Derived

\* A memory answers 200 to the readers whose list has it.
LEMMA AnswerListed ==
    ASSUME NEW u \in Users \cup {Visitor}, NEW n \in Names, NEW m \in Ids
    PROVE  Answer(u, n, m) = 200 <=> m \in Listed(u, n)
  <1> DEFINE flags == ViewerFlags(u, n, m)
  <1>1. Meets(Viewers, flags) <=>
          \/ "PUBLISHED" \in flags
          \/ "EXISTS" \in flags /\ "ADMIN" \in flags
          \/ "EXISTS" \in flags /\ "OWN" \in flags
    BY DEF Meets, Viewers
  <1>2. Answer(u, n, m) = 200 <=> SiteVisible(u, n) /\ Meets(Viewers, flags)
    BY RefusalCode DEF Answer
  <1>3. u \in ProjectAdmins => u # Visitor
    BY UserAssumption
  <1>4. QED
    BY <1>1, <1>2, <1>3, ViewerSays DEF Listed

\* The list of memories is what can be read, and what can be acted on is in it.
THEOREM ListedAlwaysReadable == Spec => []ListedIsReadable
  <1>1. ASSUME NEW u \in Users \cup {Visitor}, NEW n \in Names
        PROVE  Listed(u, n) = {m \in Ids : Answer(u, n, m) = 200}
    <2>1. Listed(u, n) \subseteq Ids
      BY DEF Listed
    <2>2. QED
      BY <2>1, AnswerListed
  <1>2. ASSUME NEW u \in Users, NEW n \in Names, NEW op \in MemoryOps, NEW m \in Ids,
               Of(m, n), op # "create_memory", RepoAllows(Ask(op, "repo", u, n, m))
        PROVE  m \in Listed(u, n)
    <2> DEFINE flags == MemoryFlags(u, n, m)
    <2>1. u # Visitor /\ ViewerFlags(u, n, m) = flags
      BY UserAssumption DEF ViewerFlags
    <2>2. op \notin SiteOps
      BY DEF SiteOps, MemoryOps
    <2>3. SiteVisible(u, n) /\ Meets(Acceptable(op), flags)
      BY <1>2, <2>2 DEF RepoAllows, Ask
    <2>4. Acceptable(op) \in {Removers, Authors, Readers, Admins}
      BY <1>2 DEF Acceptable, MemoryOps
    <2>5. "ADMIN" \in flags \/ "OWN" \in flags \/ "PUBLISHED" \in flags
      BY <2>3, <2>4 DEF Meets, Removers, Authors, Readers, Admins
    <2>6. QED
      BY <1>2, <2>1, <2>3, <2>5, ViewerSays DEF Listed
  <1>3. ASSUME NEW u \in Users, NEW n \in Names, NEW op \in MemoryOps, NEW m \in Ids,
               Of(m, n), OrderAllows(Ask(op, "order", u, n, m))
        PROVE  m \in Listed(u, n)
    <2>1. Exists(n)
      BY <1>3 DEF OrderAllows, Ask
    <2>2. u \in ProjectAdmins \/ (Published(n) /\ Published(m))
      <3>1. CASE op = "report_memory"
        BY <1>3, <3>1 DEF OrderAllows, Ask
      <3>2. CASE op # "report_memory"
        <4>1. op \notin {"report_site", "report_memory"}
          BY <3>2 DEF MemoryOps
        <4>2. QED
          BY <1>3, <4>1 DEF OrderAllows, Ask
      <3>3. QED
        BY <3>1, <3>2
    <2>3. QED
      BY <1>3, <2>1, <2>2 DEF Listed, SiteVisible
  <1>4. ListedIsReadable
    BY <1>1, <1>2, <1>3, UserAssumption DEF ListedIsReadable
  <1>5. QED
    BY <1>4, PTL

\* A hidden memory is, to all but its author and the admins, like one that never
\* was: it answers 404 to who reads it, by neither route can anything be done to
\* it, and the repo refuses each operation with 404 (never with a 403, which would
\* tell that it is there).
HiddenMemoriesNotFound ==
    \A n \in Names, m \in Ids : Of(m, n) /\ ~Published(m) =>
        /\ Answer(Visitor, n, m) = 404
        /\ \A u \in Users \ (ProjectAdmins \cup {memory[m].author}) :
              /\ Answer(u, n, m) = 404
              /\ \A op \in MemoryOps \ {"create_memory"} :
                    /\ ~RepoAllows(Ask(op, "repo", u, n, m))
                    /\ ~OrderAllows(Ask(op, "order", u, n, m))
                    /\ Refusal(Acceptable(op), MemoryFlags(u, n, m)) = 404

\* Flags that are refused with 404, whatever was asked for.
LEMMA HiddenRefused ==
    ASSUME NEW flags \in {{"NONE", "AUTHENTICATED", "EXISTS", "NOT_PUBLISHED"},
                          {"NONE", "ANONYMOUS", "EXISTS", "NOT_PUBLISHED"}},
           NEW acceptable \in {Admins, Removers, Authors, Readers, Viewers}
    PROVE  ~Meets(acceptable, flags) /\ Refusal(acceptable, flags) = 404
  <1>1. /\ \A f \in {"PUBLISHED", "ADMIN", "SUPERUSER", "OWN"} : f \notin flags
        /\ flags \cap {"DOES_NOT_EXIST", "NOT_PUBLISHED"} # {}
    OBVIOUS
  <1>2. ~Meets(acceptable, flags)
    BY <1>1 DEF Meets, Admins, Removers, Authors, Readers, Viewers
  <1>3. ~Meets(PrivilegeErrors(acceptable), flags)
    <2>1. PrivilegeErrors(acceptable) \subseteq
            {{"EXISTS", "PUBLISHED", "ANONYMOUS"}, {"EXISTS", "PUBLISHED", "AUTHENTICATED"},
             {"EXISTS", "SUPERUSER"}, {"EXISTS", "ADMIN"}}
      BY DEF PrivilegeErrors
    <2>2. QED
      BY <1>1, <2>1 DEF Meets
  <1>4. QED
    BY ONLY <1>1, <1>2, <1>3 DEF Refusal

\* Hidden memories answer like memories that are not there, at all times.
THEOREM HiddenMemoriesAlwaysNotFound == Spec => []HiddenMemoriesNotFound
  <1>1. ASSUME NEW n \in Names, NEW m \in Ids, Of(m, n), ~Published(m)
        PROVE  Answer(Visitor, n, m) = 404
    <2>1. ViewerFlags(Visitor, n, m) = {"NONE", "ANONYMOUS", "EXISTS", "NOT_PUBLISHED"}
      BY <1>1 DEF ViewerFlags, Visiting, Derived
    <2>2. ~Meets(Viewers, ViewerFlags(Visitor, n, m)) /\ Refusal(Viewers, ViewerFlags(Visitor, n, m)) = 404
      BY <2>1, HiddenRefused
    <2>3. QED
      BY ONLY <2>2 DEF Answer
  <1>2. ASSUME NEW n \in Names, NEW m \in Ids, Of(m, n), ~Published(m),
               NEW u \in Users \ (ProjectAdmins \cup {memory[m].author})
        PROVE  /\ Answer(u, n, m) = 404
               /\ \A op \in MemoryOps \ {"create_memory"} :
                     /\ ~RepoAllows(Ask(op, "repo", u, n, m))
                     /\ ~OrderAllows(Ask(op, "order", u, n, m))
                     /\ Refusal(Acceptable(op), MemoryFlags(u, n, m)) = 404
    <2>1. MemoryFlags(u, n, m) = {"NONE", "AUTHENTICATED", "EXISTS", "NOT_PUBLISHED"}
      BY <1>2, ThingAssumption DEF MemoryFlags, RolesOf, Derived
    <2>2. \A acceptable \in {Admins, Removers, Authors, Readers, Viewers} :
            ~Meets(acceptable, MemoryFlags(u, n, m)) /\ Refusal(acceptable, MemoryFlags(u, n, m)) = 404
      BY <2>1, HiddenRefused
    <2>3. Answer(u, n, m) = 404
      <3>1. ViewerFlags(u, n, m) = MemoryFlags(u, n, m)
        BY UserAssumption DEF ViewerFlags
      <3>2. QED
        BY ONLY <2>2, <3>1 DEF Answer
    <2>4. ASSUME NEW op \in MemoryOps \ {"create_memory"}
          PROVE  /\ ~RepoAllows(Ask(op, "repo", u, n, m))
                 /\ ~OrderAllows(Ask(op, "order", u, n, m))
                 /\ Refusal(Acceptable(op), MemoryFlags(u, n, m)) = 404
      <3>1. op \notin SiteOps /\ Acceptable(op) \in {Admins, Removers, Authors, Readers, Viewers}
        BY DEF MemoryOps, SiteOps, Acceptable
      <3>2. ~RepoAllows(Ask(op, "repo", u, n, m))
        BY <2>2, <3>1 DEF RepoAllows, Ask
      <3>3. ~OrderAllows(Ask(op, "order", u, n, m))
        <4>1. CASE op = "report_memory"
          BY <1>2, <4>1 DEF OrderAllows, Ask
        <4>2. CASE op \notin {"report_site", "report_memory"}
          BY <1>2, <4>2 DEF OrderAllows, Ask
        <4>3. QED
          BY <3>1, <4>1, <4>2 DEF SiteOps
      <3>4. QED
        BY <2>2, <3>1, <3>2, <3>3
    <2>5. QED
      BY <2>3, <2>4
  <1>3. HiddenMemoriesNotFound
    BY <1>1, <1>2 DEF HiddenMemoriesNotFound
  <1>4. QED
    BY <1>3, PTL
-----------------------------------------------------------------------------
(* What orders and the watchdog can bring about *)

\* What was hidden is shown by an admin's order, never by its author, a rewrite or the
\* watchdog, although the admin was checked earlier (publish.py, site.py, memory.py).
OnlyAdminsShow ==
    [][\A x \in Things : Exists(x) /\ ~Published(x) /\ Published(x)' =>
         \E r \in Requests : order'[r] # order[r] /\ order[r].by \in ProjectAdmins]_vars

THEOREM ShownByAdmins == Spec => OnlyAdminsShow
  <1> DEFINE Shown ==
        \A x \in Things : Exists(x) /\ ~Published(x) /\ Published(x)' =>
           \E r \in Requests : order'[r] # order[r] /\ order[r].by \in ProjectAdmins
  <1>1. Inv /\ [Next]_vars => [Shown]_vars
    <2> SUFFICES ASSUME Inv, Next, NEW x \in Things, Exists(x), ~Published(x), Published(x)'
                 PROVE  \E r \in Requests : order'[r] # order[r] /\ order[r].by \in ProjectAdmins
      BY DEF vars
    <2>1. x \in Names => /\ site[x] # NoSite /\ ~site[x].published
                         /\ site'[x] # NoSite /\ site'[x].published
      BY DEF Published, Exists
    <2>2. x \in Ids => /\ memory[x] # NoMemory /\ ~memory[x].published
                       /\ memory'[x] # NoMemory /\ memory'[x].published
      BY ThingAssumption DEF Published, Exists
    <2>3. ASSUME NEW r \in Requests,
                 \/ CreateSite(r) \/ DeleteSite(r)
                 \/ CreateMemory(r) \/ ModifyMemory(r) \/ DeleteMemory(r) \/ Report(r)
          PROVE  FALSE
      <3> USE DEF Inv, TypeOK
      <3>0. order[r].n \in Names
        BY <2>3, Acting DEF CreateSite, DeleteSite, CreateMemory, ModifyMemory, DeleteMemory, Report
      <3>1. CASE CreateSite(r)
        BY <2>1, <2>2, <3>0, <3>1, SiteThing DEF CreateSite, Things
      <3>2. CASE DeleteSite(r)
        BY <2>1, <2>2, <3>0, <3>2 DEF DeleteSite, Things
      <3>3. CASE CreateMemory(r)
        BY <2>1, <2>2, <3>3 DEF CreateMemory, Things, MemoriesOK
      <3>4. CASE ModifyMemory(r)
        BY <2>1, <2>2, <3>4 DEF ModifyMemory, Things, Memory
      <3>5. CASE DeleteMemory(r)
        BY <2>1, <2>2, <3>5 DEF DeleteMemory, Things
      <3>6. CASE Report(r)
        BY <2>1, <2>2, <3>6 DEF Report, Things
      <3>7. QED
        BY <2>3, <3>1, <3>2, <3>3, <3>4, <3>5, <3>6
    <2>4. ASSUME NEW r \in Requests, NEW u \in Users, NEW n \in Names, Arrive(r, u, n) PROVE FALSE
      BY <2>1, <2>2, <2>4, Arriving DEF Check, Things
    <2>5. ~HideMemories
      BY <2>1, <2>2 DEF HideMemories, Things, Inv, TypeOK, Memory
    <2>6. ~HideSites
      BY <2>1, <2>2 DEF HideSites, Things, Inv, TypeOK, Site
    <2>7. QED
      BY <2>3, <2>4, <2>5, <2>6, AdminsPublish DEF Next, Write
  <1>2. QED
    BY <1>1, InvAlways, PTL DEF Spec, OnlyAdminsShow

\* An order checked for a memory that is gone by its write can never meet another
\* memory: when the one of an id is deleted, nothing comes under that id again.
IdsNameOne == [][\A m \in issued : ~Exists(m) => ~Exists(m)']_vars

THEOREM IdsNameOneMemory == Spec => IdsNameOne
  <1> DEFINE Gone == \A m \in issued : ~Exists(m) => ~Exists(m)'
  <1>1. Inv /\ [Next]_vars => [Gone]_vars
    <2> SUFFICES ASSUME Inv, Next, NEW m \in issued, ~Exists(m)
                 PROVE  ~Exists(m)'
      BY DEF vars
    <2>1. m \in Ids /\ memory[m] = NoMemory
      BY MemoryThing DEF Inv, TypeOK
    <2>2. memory'[m] = NoMemory => ~Exists(m)'
      BY <2>1, ThingAssumption DEF Exists
    <2>3. ASSUME NEW r \in Requests, Write(r) PROVE memory'[m] = NoMemory
      <3> USE DEF Inv, TypeOK
      <3>1. CASE CreateSite(r) \/ PublishSite(r) \/ Report(r)
        BY <2>1, <3>1 DEF CreateSite, PublishSite, Report
      <3>2. CASE DeleteSite(r)
        BY <2>1, <3>2 DEF DeleteSite
      <3>3. CASE CreateMemory(r)
        BY <2>1, <3>3 DEF CreateMemory
      <3>4. CASE ModifyMemory(r)
        BY <2>1, <3>4, MemoryThing DEF ModifyMemory
      <3>5. CASE PublishMemory(r)
        <4>1. Acts(r, {"publish_memory", "hide_memory"})
          BY <3>5 DEF PublishMemory
        <4>2. order[r].m \in Ids
          BY <4>1, Acting DEF OrdersOK, Checked, MemoryOps
        <4>3. QED
          BY <2>1, <3>5, <4>2, MemoryThing DEF PublishMemory
      <3>6. CASE DeleteMemory(r)
        BY <2>1, <3>6 DEF DeleteMemory
      <3>7. QED
        BY <2>3, <3>1, <3>2, <3>3, <3>4, <3>5, <3>6 DEF Write
    <2>4. ASSUME NEW r \in Requests, NEW u \in Users, NEW n \in Names, Arrive(r, u, n)
          PROVE  memory'[m] = NoMemory
      BY <2>1, <2>4, Arriving DEF Check
    <2>5. HideMemories => memory'[m] = NoMemory
      BY <2>1, MemoryThing DEF HideMemories
    <2>6. HideSites => memory'[m] = NoMemory
      BY <2>1 DEF HideSites
    <2>7. QED
      BY <2>2, <2>3, <2>4, <2>5, <2>6 DEF Next
  <1>2. QED
    BY <1>1, InvAlways, PTL DEF Spec, IdsNameOne

\* No step takes a report back but the one that takes its thing.
LEMMA ReportsStay ==
    ASSUME Inv, Next, NEW x \in Things, Exists(x)'
    PROVE  reports[x] \subseteq reports'[x]
  <1> USE DEF Inv, TypeOK
  <1>1. /\ x \in Names => site'[x] # NoSite
        /\ x \in Ids => memory'[x] # NoMemory
    BY ThingAssumption DEF Exists
  <1>2. ASSUME NEW r \in Requests, Write(r) PROVE reports[x] \subseteq reports'[x]
    <2>1. CASE \/ CreateSite(r) \/ PublishSite(r) \/ CreateMemory(r)
               \/ ModifyMemory(r) \/ PublishMemory(r)
      BY <2>1 DEF CreateSite, PublishSite, CreateMemory, ModifyMemory, PublishMemory
    <2>2. CASE DeleteSite(r)
      <3>1. order[r].n \in Names
        BY <2>2, Acting DEF DeleteSite
      <3>2. x # order[r].n
        BY <1>1, <2>2, <3>1 DEF DeleteSite
      <3>3. ~(x \in Ids /\ Of(x, order[r].n))
        BY <1>1, <2>2 DEF DeleteSite
      <3>4. QED
        BY <2>2, <3>2, <3>3 DEF DeleteSite
    <2>3. CASE DeleteMemory(r)
      <3>1. Acts(r, {"delete_memory"})
        BY <2>3 DEF DeleteMemory
      <3>2. order[r].m \in Ids
        BY <3>1, Acting DEF OrdersOK, Checked, MemoryOps
      <3>3. x # order[r].m
        BY <1>1, <2>3, <3>2 DEF DeleteMemory
      <3>4. QED
        BY <2>3, <3>3 DEF DeleteMemory
    <2>4. CASE Report(r)
      BY <2>4 DEF Report
    <2>5. QED
      BY <1>2, <2>1, <2>2, <2>3, <2>4 DEF Write
  <1>3. ASSUME NEW r \in Requests, NEW u \in Users, NEW n \in Names, Arrive(r, u, n)
        PROVE  reports[x] \subseteq reports'[x]
    BY <1>3, Arriving DEF Check
  <1>4. HideMemories \/ HideSites => reports[x] \subseteq reports'[x]
    BY DEF HideMemories, HideSites
  <1>5. QED
    BY <1>2, <1>3, <1>4 DEF Next

\* Only the watchdog's own steps move it on.
LEMMA Asleep ==
    ASSUME Inv, Next, watchdog # watchdog'
    PROVE  \/ watchdog = "asleep" /\ HideMemories
           \/ watchdog = "sites" /\ HideSites
  <1>1. \A r \in Requests : ~Write(r)
    BY DEF Write, CreateSite, DeleteSite, PublishSite, CreateMemory, ModifyMemory,
           PublishMemory, DeleteMemory, Report, Acts
  <1>2. \A r \in Requests, u \in Users, n \in Names : ~Arrive(r, u, n)
    BY Arriving DEF Check
  <1>3. QED
    BY <1>1, <1>2 DEF Next, HideMemories, HideSites

\* What ReportedIsHidden rests on, whatever comes between the two UPDATEs of the event:
\* what many have reported stays reported by many while it is there, and after its step
\* the watchdog leaves nothing published of its table that many have reported.
WatchedWell ==
    [][/\ \A x \in Things : Many(x) /\ Exists(x)' => Many(x)'
       /\ watchdog # watchdog' =>
            \A x \in (IF watchdog = "asleep" THEN Ids ELSE Names) : Many(x) => ~Published(x)']_vars

THEOREM HidesWhatManyReported ==
    ASSUME IsFiniteSet(Users)
    PROVE  Spec => WatchedWell
  <1> DEFINE Watched ==
        /\ \A x \in Things : Many(x) /\ Exists(x)' => Many(x)'
        /\ watchdog # watchdog' =>
             \A x \in (IF watchdog = "asleep" THEN Ids ELSE Names) : Many(x) => ~Published(x)'
  <1>1. Inv /\ [Next]_vars => [Watched]_vars
    <2> SUFFICES ASSUME Inv, Next PROVE Watched
      BY DEF vars
    <2>1. Inv'
      BY InvStep
    <2>2. ASSUME NEW x \in Things, Many(x), Exists(x)' PROVE Many(x)'
      <3>1. reports[x] \subseteq reports'[x] /\ reports'[x] \subseteq Users
        BY <2>1, <2>2, ReportsStay DEF Inv, TypeOK
      <3>2. IsFiniteSet(reports'[x]) /\ IsFiniteSet(reports[x])
        BY <3>1, FS_Subset
      <3>3. Cardinality(reports[x]) =< Cardinality(reports'[x])
        BY <3>1, <3>2, FS_Subset
      <3>4. Cardinality(reports[x]) \in Nat /\ Cardinality(reports'[x]) \in Nat
        BY <3>2, FS_CardinalityType
      <3>5. QED
        BY <2>2, <3>3, <3>4, NumberAssumption DEF Many
    <2>3. ASSUME HideMemories, NEW x \in Ids, Many(x) PROVE ~Published(x)'
      <3>1. memory'[x] # NoMemory => ~memory'[x].published
        BY <2>3, MemoryThing DEF HideMemories, Inv, TypeOK, Memory
      <3>2. QED
        BY <3>1, ThingAssumption DEF Published, Exists
    <2>4. ASSUME HideSites, NEW x \in Names, Many(x) PROVE ~Published(x)'
      <3>1. site'[x] # NoSite => ~site'[x].published
        BY <2>4, SiteThing DEF HideSites, Inv, TypeOK, Site
      <3>2. QED
        BY <3>1 DEF Published, Exists
    <2>5. QED
      BY <2>2, <2>3, <2>4, Asleep
  <1>2. QED
    BY <1>1, InvAlways, PTL DEF Spec, WatchedWell
=============================================================================
