------------------------------ MODULE SitesProofs ------------------------------
(***************************************************************************)
(* Theorems about Sites, for every set of requests, users, projects and    *)
(* names: who publishes, changes and makes a site, and who appoints the    *)
(* admins, however old a session is and whatever happens between the check *)
(* of a request and its write; and what the one route that trusts an old   *)
(* session lets through.                                                   *)
(***************************************************************************)
EXTENDS Sites, TLAPS

\* The rights that a session and the tables speak of were given once.
RightsOK ==
    /\ \A p \in Projects : admins[p] \subseteq ever[p]
    /\ \A u \in Users, p \in Projects : p \in copy[u] => u \in ever[p]

NamesOK == \A n \in Names : site[n] # NoSite => n \in used

\* What the check of an order has established, and no later step takes back.
CheckedProject(o) ==
    /\ o.op \in AdminOps => o.by \in InCharge(o.p)
    /\ o.op \in {"publish_project", "hide_project"} => o.p \in made
    /\ o.op = "create_site" /\ o.p \in AdminPosting => o.by \in InCharge(o.p)

\* The site it was about is the one that has the name, unless a second had it.
CheckedSite(o) ==
    o.op \in SiteOps =>
      /\ o.n \in Names
      /\ o.op # "create_site" => o.n \in used
      /\ o.op # "create_site" /\ o.n \notin reused /\ site[o.n] # NoSite =>
           /\ site[o.n].project = o.p
           /\ o.op \in {"modify_site", "delete_site"} =>
                o.by \in {site[o.n].creator} \cup InCharge(o.p)

OrdersOK == \A r \in Requests : order[r] # NoOrder => CheckedProject(order[r]) /\ CheckedSite(order[r])

Inv == TypeOK /\ RightsOK /\ NamesOK /\ OrdersOK /\ OnlyAdminsPost
-----------------------------------------------------------------------------
(* What the flags of a status mean *)

\* Who meets the status of an admin is one, or a superuser, and the project exists.
LEMMA ProjectAdmin ==
    ASSUME NEW u \in Users, NEW p \in Projects, Meets(Admins, ProjectFlags(u, p))
    PROVE  p \in made /\ u \in admins[p] \cup Superusers
  BY DEF Meets, Admins, ProjectFlags, RolesOf, Derived

\* EXISTS: there is such a site in the project.
LEMMA SiteExists ==
    ASSUME NEW u \in Users, NEW p \in Projects, NEW n \in Names
    PROVE  "EXISTS" \in SiteFlags(u, p, n) => Exists(n, p)
  BY DEF SiteFlags, RolesOf, Derived

\* ADMIN comes from the table or from the session's scopes.
LEMMA SiteAdmin ==
    ASSUME NEW u \in Users, NEW p \in Projects, NEW n \in Names
    PROVE  "ADMIN" \in SiteFlags(u, p, n) => u \in admins[p] \cup Superusers
  BY DEF SiteFlags, RolesOf, Derived

\* OWN: the user made the site.
LEMMA SiteOwn ==
    ASSUME NEW u \in Users, NEW p \in Projects, NEW n \in Names
    PROVE  "OWN" \in SiteFlags(u, p, n) => Exists(n, p) /\ site[n].creator = u
  BY DEF SiteFlags, RolesOf, Derived
-----------------------------------------------------------------------------
(* What a check that passed has established *)

\* An order that a repo lets pass.
LEMMA RepoGrants ==
    ASSUME TypeOK, RightsOK, NamesOK, NEW o \in Order, o.op \in SiteOps => o.n \in Names,
           RepoAllows(o)
    PROVE  CheckedProject(o) /\ CheckedSite(o)
  <1> USE DEF Order, ProjectOps, SiteOps, AdminOps, PublishOps, InCharge
  <1>1. ASSUME o.op \in ProjectOps PROVE CheckedProject(o) /\ CheckedSite(o)
    <2>1. o.op # "create_project" => o.p \in made /\ o.by \in admins[o.p] \cup Superusers
      <3> SUFFICES ASSUME o.op # "create_project"
                   PROVE  o.p \in made /\ o.by \in admins[o.p] \cup Superusers
        OBVIOUS
      <3>1. Acceptable(o.op) = Admins
        BY <1>1 DEF Acceptable
      <3>2. Meets(Admins, ProjectFlags(o.by, o.p))
        BY <1>1, <3>1 DEF RepoAllows
      <3>3. QED
        BY <3>2, ProjectAdmin
    <2>2. QED
      BY <1>1, <2>1 DEF CheckedProject, CheckedSite, RightsOK
  <1>2. ASSUME o.op \in SiteOps PROVE CheckedProject(o) /\ CheckedSite(o)
    <2> DEFINE flags == SiteFlags(o.by, o.p, o.n)
    <2>1. /\ o.n \in Names /\ o.by \in Users /\ o.p \in Projects
          /\ Meets(Acceptable(o.op), flags) /\ PostingAllowed(o)
      BY <1>2 DEF RepoAllows
    <2>2. "EXISTS" \in flags => Exists(o.n, o.p)
      BY <2>1, SiteExists
    <2>3. "ADMIN" \in flags => o.by \in InCharge(o.p)
      BY <2>1, SiteAdmin DEF RightsOK
    <2>4. "OWN" \in flags => Exists(o.n, o.p) /\ site[o.n].creator = o.by
      BY <2>1, SiteOwn
    <2> HIDE DEF flags
    <2>5. CASE o.op = "create_site"
      <3>1. o.p \in AdminPosting => "ADMIN" \in flags
        BY <2>1, <2>5 DEF PostingAllowed, flags
      <3>2. QED
        BY <2>1, <2>3, <2>5, <3>1 DEF CheckedProject, CheckedSite
    <2>6. CASE o.op \in {"publish_site", "hide_site"}
      <3>1. "EXISTS" \in flags /\ "ADMIN" \in flags
        BY <2>1, <2>6 DEF Acceptable, Meets, Admins
      <3>2. QED
        BY <2>1, <2>2, <2>3, <2>6, <3>1 DEF CheckedProject, CheckedSite, Exists, NamesOK
    <2>7. CASE o.op \in {"modify_site", "delete_site"}
      <3>1. \/ "EXISTS" \in flags /\ "ADMIN" \in flags
            \/ "OWN" \in flags
        BY <2>1, <2>7 DEF Acceptable, Meets, Editors, Removers
      <3>2. /\ Exists(o.n, o.p)
            /\ o.by \in {site[o.n].creator} \cup InCharge(o.p)
        BY <2>2, <2>3, <2>4, <3>1
      <3>3. QED
        BY <2>1, <2>7, <3>2 DEF CheckedProject, CheckedSite, Exists, NamesOK
    <2>8. QED
      BY <1>2, <2>5, <2>6, <2>7
  <1>3. QED
    BY <1>1, <1>2

\* An order that POST /admin/publish lets pass.
LEMMA OrderGrants ==
    ASSUME TypeOK, RightsOK, NamesOK, NEW o \in Order, o.op \in SiteOps => o.n \in Names,
           OrderAllows(o)
    PROVE  CheckedProject(o) /\ CheckedSite(o)
  <1>1. /\ o.op \in PublishOps /\ o.by \in Users /\ o.p \in made /\ o.p \in Projects
        /\ o.op \in SiteOps => o.n \in Names /\ Exists(o.n, o.p)
    BY DEF OrderAllows, Order, TypeOK
  <1>2. o.by \in InCharge(o.p)
    BY <1>1 DEF OrderAllows, RightsOK, InCharge
  <1>3. QED
    BY <1>1, <1>2 DEF CheckedProject, CheckedSite, PublishOps, SiteOps, Exists, NamesOK
-----------------------------------------------------------------------------
(* What every step keeps *)

\* Histories grow, projects stay, and a site keeps its project and its creator.
Grows == /\ made \subseteq made' /\ used \subseteq used' /\ reused \subseteq reused'
         /\ \A p \in Projects : ever[p] \subseteq ever'[p]

SitesStay ==
    \A n \in Names : site'[n] # NoSite =>
        /\ site[n] # NoSite
        /\ site'[n].project = site[n].project /\ site'[n].creator = site[n].creator

\* The order that a step carries out, and those that it leaves.
LEMMA Acting ==
    ASSUME TypeOK, NEW r \in Requests, NEW ops, Acts(r, ops)
    PROVE  /\ order[r] \in Order /\ order[r] # NoOrder /\ order[r].op \in ops
           /\ order' \in [Requests -> Order \cup {NoOrder}]
           /\ \A q \in Requests : order'[q] # NoOrder => order'[q] = order[q]
           /\ served' = served /\ copy' = copy
  BY DEF Acts, TypeOK

\* A step that makes no site keeps what the checks established.
LEMMA OrdersKept ==
    ASSUME TypeOK, TypeOK', OrdersOK, Grows, SitesStay,
           \A q \in Requests : order'[q] # NoOrder => order'[q] = order[q]
    PROVE  OrdersOK'
  <1> SUFFICES ASSUME NEW q \in Requests, order'[q] # NoOrder
               PROVE  (CheckedProject(order[q]) /\ CheckedSite(order[q]))'
    BY DEF OrdersOK
  <1> PICK o \in Order : o = order[q] /\ o = order'[q]
    BY DEF TypeOK
  <1>1. CheckedProject(o) /\ CheckedSite(o)
    BY DEF OrdersOK
  <1>2. o.p \in Projects /\ ever[o.p] \subseteq ever'[o.p]
    BY DEF Order, Grows
  <1>3. CheckedProject(o)'
    BY <1>1, <1>2 DEF CheckedProject, Grows, InCharge
  <1>4. CheckedSite(o)'
    BY <1>1, <1>2 DEF CheckedSite, Grows, SitesStay, InCharge
  <1>5. QED
    BY <1>3, <1>4 DEF CheckedProject, CheckedSite

\* Nor does it open a project with admin_posting to others.
LEMMA PostsKept ==
    ASSUME TypeOK, OnlyAdminsPost, Grows, SitesStay
    PROVE  OnlyAdminsPost'
  <1> SUFFICES ASSUME NEW n \in Names, site'[n] # NoSite, site'[n].project \in AdminPosting
               PROVE  site'[n].creator \in ever'[site'[n].project] \cup Superusers
    BY DEF OnlyAdminsPost, InCharge
  <1>1. /\ site[n] # NoSite /\ site[n] \in Site
        /\ site'[n].project = site[n].project /\ site'[n].creator = site[n].creator
    BY DEF SitesStay, TypeOK
  <1>2. site[n].creator \in InCharge(site[n].project)
    BY <1>1 DEF OnlyAdminsPost
  <1>3. QED
    BY <1>1, <1>2 DEF InCharge, Grows, Site
-----------------------------------------------------------------------------
LEMMA InvInit == Init => Inv
  <1> SUFFICES ASSUME Init PROVE Inv
    OBVIOUS
  <1>1. TypeOK
    BY SubsetAssumption DEF Init, TypeOK
  <1>2. RightsOK /\ NamesOK /\ OrdersOK
    BY DEF Init, RightsOK, NamesOK, OrdersOK
  <1>3. OnlyAdminsPost
    BY DEF Init, OnlyAdminsPost, InCharge
  <1>4. QED
    BY <1>1, <1>2, <1>3 DEF Inv

\* What arrives is an order, and one about a site names it.
LEMMA Arriving ==
    ASSUME NEW r \in Requests, NEW u \in Users, NEW p \in Projects, Arrive(r, u, p)
    PROVE  \E o \in Order : Check(r, o) /\ (o.op \in SiteOps => o.n \in Names)
  <1> USE DEF Ask, Order, ProjectOps, SiteOps, Routes
  <1>1. ASSUME NEW op \in {"create_project", "add_admin", "delete_admin"}, NEW v \in Users,
               Check(r, Ask(op, "repo", u, p, NoName, {v}))
        PROVE  \E o \in Order : Check(r, o) /\ (o.op \in SiteOps => o.n \in Names)
    <2> DEFINE o == Ask(op, "repo", u, p, NoName, {v})
    <2>1. o \in Order /\ o.op \notin SiteOps
      OBVIOUS
    <2>2. QED
      BY ONLY <1>1, <2>1
  <1>2. ASSUME NEW op \in {"create_project", "publish_project", "hide_project"},
               NEW route \in Routes, Check(r, Ask(op, route, u, p, NoName, {}))
        PROVE  \E o \in Order : Check(r, o) /\ (o.op \in SiteOps => o.n \in Names)
    <2> DEFINE o == Ask(op, route, u, p, NoName, {})
    <2>1. o \in Order /\ o.op \notin SiteOps
      OBVIOUS
    <2>2. QED
      BY ONLY <1>2, <2>1
  <1>3. ASSUME NEW op \in SiteOps, NEW route \in Routes, NEW n \in Names,
               Check(r, Ask(op, route, u, p, n, {}))
        PROVE  \E o \in Order : Check(r, o) /\ (o.op \in SiteOps => o.n \in Names)
    <2> DEFINE o == Ask(op, route, u, p, n, {})
    <2>1. o \in Order /\ o.n \in Names
      OBVIOUS
    <2>2. QED
      BY ONLY <1>3, <2>1
  <1>4. "repo" \in Routes
    OBVIOUS
  <1>5. QED
    BY ONLY <1>1, <1>2, <1>3, <1>4, Arrive(r, u, p) DEF Arrive

\* A check adds one order, which is as the check found it.
LEMMA CheckKeeps ==
    ASSUME Inv, NEW r \in Requests, NEW o \in Order, Check(r, o), o.op \in SiteOps => o.n \in Names
    PROVE  Inv'
  <1> USE DEF Inv
  <1>1. CheckedProject(o) /\ CheckedSite(o)
    BY RepoGrants, OrderGrants DEF Check
  <1>2. /\ UNCHANGED <<made, open, admins, ever, site, used, reused, copy>>
        /\ order' = [order EXCEPT ![r] = o] /\ served' = served \cup {r}
    BY DEF Check, projects, sites
  <1>3. TypeOK'
    BY <1>2 DEF TypeOK
  <1>4. RightsOK' /\ NamesOK' /\ OnlyAdminsPost'
    BY <1>2 DEF RightsOK, NamesOK, OnlyAdminsPost, InCharge
  <1>5. CheckedProject(o)' /\ CheckedSite(o)'
    BY <1>1, <1>2 DEF CheckedProject, CheckedSite, InCharge
  <1>6. OrdersOK'
    <2> SUFFICES ASSUME NEW q \in Requests, order'[q] # NoOrder
                 PROVE  (CheckedProject(order[q]) /\ CheckedSite(order[q]))'
      BY DEF OrdersOK
    <2>1. CASE q = r
      <3>1. order'[q] = o
        BY <1>2, <2>1 DEF TypeOK
      <3>2. QED
        BY <1>5, <3>1 DEF CheckedProject, CheckedSite
    <2>2. CASE q # r
      <3>1. order'[q] = order[q]
        BY <1>2, <2>2 DEF TypeOK
      <3>2. CheckedProject(order[q]) /\ CheckedSite(order[q])
        BY <3>1 DEF OrdersOK
      <3>3. QED
        BY <1>2, <3>1, <3>2 DEF CheckedProject, CheckedSite, InCharge
    <2>3. QED
      BY <2>1, <2>2
  <1>7. QED
    BY <1>3, <1>4, <1>6

\* The operations of ProjectRepo.
LEMMA ProjectsKeep ==
    ASSUME Inv, NEW r \in Requests,
           CreateProject(r) \/ PublishProject(r) \/ AddAdmin(r) \/ DeleteAdmin(r)
    PROVE  Inv'
  <1> DEFINE o == order[r]
             ops == {"create_project", "publish_project", "hide_project", "add_admin", "delete_admin"}
  <1> USE DEF Inv
  <1>1. Acts(r, ops) /\ UNCHANGED sites
    BY DEF CreateProject, PublishProject, AddAdmin, DeleteAdmin, Acts
  <1>2. /\ o \in Order /\ o # NoOrder
        /\ order' \in [Requests -> Order \cup {NoOrder}]
        /\ \A q \in Requests : order'[q] # NoOrder => order'[q] = order[q]
        /\ UNCHANGED <<served, copy, site, used, reused>>
    BY <1>1, Acting DEF sites
  <1>3. o.p \in Projects /\ o.whom \in SUBSET Users
    BY <1>2 DEF Order
  <1>4. o.op \in {"publish_project", "hide_project"} => o.p \in made
    BY <1>2 DEF OrdersOK, CheckedProject
  <1> HIDE DEF o
  <1>5. /\ made' \subseteq Projects /\ made \subseteq made' /\ open' \subseteq made'
        /\ admins' \in [Projects -> SUBSET Users] /\ ever' \in [Projects -> SUBSET Users]
        /\ \A p \in Projects : ever[p] \subseteq ever'[p] /\ admins'[p] \subseteq ever'[p]
    <2> USE <1>3 DEF TypeOK, RightsOK, projects, sites, o
    <2>1. CASE CreateProject(r)
      BY <2>1 DEF CreateProject
    <2>2. CASE PublishProject(r)
      BY <2>2, <1>4 DEF PublishProject, Acts
    <2>3. CASE AddAdmin(r)
      BY <2>3 DEF AddAdmin
    <2>4. CASE DeleteAdmin(r)
      BY <2>4 DEF DeleteAdmin
    <2>5. QED
      BY <2>1, <2>2, <2>3, <2>4
  <1>6. TypeOK'
    BY <1>2, <1>5 DEF TypeOK
  <1>7. RightsOK' /\ NamesOK'
    BY <1>2, <1>5 DEF RightsOK, NamesOK
  <1>8. Grows /\ SitesStay
    BY <1>2, <1>5 DEF Grows, SitesStay
  <1>9. OrdersOK' /\ OnlyAdminsPost'
    BY <1>2, <1>6, <1>8, OrdersKept, PostsKept
  <1>10. QED
    BY <1>6, <1>7, <1>9

\* The operations of SiteRepo on a site that may be there.
LEMMA SitesKeep ==
    ASSUME Inv, NEW r \in Requests, ModifySite(r) \/ DeleteSite(r) \/ PublishSite(r)
    PROVE  Inv'
  <1> DEFINE o == order[r]
             ops == {"modify_site", "delete_site", "publish_site", "hide_site"}
  <1> USE DEF Inv
  <1>1. Acts(r, ops) /\ UNCHANGED <<made, open, admins, ever, used, reused>>
    BY DEF ModifySite, DeleteSite, PublishSite, Acts, projects
  <1>2. /\ o \in Order /\ o # NoOrder /\ o.op \in SiteOps
        /\ order' \in [Requests -> Order \cup {NoOrder}]
        /\ \A q \in Requests : order'[q] # NoOrder => order'[q] = order[q]
        /\ UNCHANGED <<served, copy>>
    BY <1>1, Acting DEF SiteOps
  <1>3. o.n \in Names /\ o.by \in Users
    BY <1>2 DEF OrdersOK, CheckedSite, Order
  <1> HIDE DEF o
  <1>4. site' \in [Names -> Site \cup {NoSite}] /\ SitesStay
    <2> USE <1>3, NullAssumption DEF TypeOK, SitesStay, Site, o
    <2>1. CASE ModifySite(r)
      BY <2>1 DEF ModifySite
    <2>2. CASE DeleteSite(r)
      BY <2>2 DEF DeleteSite
    <2>3. CASE PublishSite(r)
      <3>1. PICK b \in BOOLEAN : site' = IF site[o.n] = NoSite THEN site
                                        ELSE [site EXCEPT ![o.n].published = b]
        BY <2>3 DEF PublishSite
      <3>2. QED
        BY <3>1
    <2>4. QED
      BY <2>1, <2>2, <2>3
  <1>5. TypeOK'
    BY <1>1, <1>2, <1>4 DEF TypeOK
  <1>6. RightsOK' /\ NamesOK'
    BY <1>1, <1>2, <1>4 DEF RightsOK, NamesOK, SitesStay
  <1>7. Grows
    BY <1>1 DEF Grows
  <1>8. OrdersOK' /\ OnlyAdminsPost'
    BY <1>2, <1>4, <1>5, <1>7, OrdersKept, PostsKept
  <1>9. QED
    BY <1>5, <1>6, <1>8

\* The site that SiteRepo.create makes.
New(o) == [project |-> o.p, creator |-> o.by, published |-> o.p \in AutoPublish, modifier |-> o.by]

LEMMA CreateSiteKeeps ==
    ASSUME Inv, NEW r \in Requests, CreateSite(r)
    PROVE  Inv'
  <1> DEFINE o == order[r]
  <1> USE DEF Inv
  <1>1. Acts(r, {"create_site"}) /\ UNCHANGED <<made, open, admins, ever>>
    BY DEF CreateSite, projects
  <1>2. /\ o \in Order /\ o # NoOrder /\ o.op = "create_site"
        /\ order' \in [Requests -> Order \cup {NoOrder}]
        /\ \A q \in Requests : order'[q] # NoOrder => order'[q] = order[q]
        /\ UNCHANGED <<served, copy>>
    BY <1>1, Acting
  <1>3. /\ o.n \in Names /\ o.by \in Users /\ o.p \in Projects
        /\ o.p \in AdminPosting => o.by \in InCharge(o.p)
    BY <1>2 DEF OrdersOK, CheckedSite, CheckedProject, Order, SiteOps
  <1>4. CASE site[o.n] # NoSite
    <2>1. UNCHANGED <<site, used, reused>>
      BY <1>4 DEF CreateSite, sites
    <2>2. TypeOK' /\ Grows /\ SitesStay
      BY <1>1, <1>2, <2>1 DEF TypeOK, Grows, SitesStay
    <2>3. RightsOK' /\ NamesOK'
      BY <1>1, <1>2, <2>1 DEF RightsOK, NamesOK
    <2>4. OrdersOK' /\ OnlyAdminsPost'
      BY <1>2, <2>2, OrdersKept, PostsKept
    <2>5. QED
      BY <2>2, <2>3, <2>4
  <1>5. CASE site[o.n] = NoSite
    <2>1. /\ site' = [site EXCEPT ![o.n] = New(o)]
          /\ used' = used \cup {o.n}
          /\ reused' = IF o.n \in used THEN reused \cup {o.n} ELSE reused
      BY <1>5 DEF CreateSite, New
    <2>2. /\ New(o) \in Site /\ New(o).project = o.p /\ New(o).creator = o.by
          /\ New(o) # NoSite
      <3> DEFINE published == o.p \in AutoPublish
      <3>1. published \in BOOLEAN
        OBVIOUS
      <3>2. New(o) = [project |-> o.p, creator |-> o.by, published |-> published, modifier |-> o.by]
        BY DEF New
      <3> HIDE DEF published
      <3>3. QED
        BY <1>3, <3>1, <3>2, NullAssumption DEF Site
    <2> HIDE DEF o
    <2>3. TypeOK'
      <3>1. site' \in [Names -> Site \cup {NoSite}]
        BY <1>3, <2>1, <2>2 DEF TypeOK
      <3>2. used' \subseteq Names /\ reused' \subseteq used'
        BY <1>3, <2>1 DEF TypeOK
      <3>3. QED
        BY <1>1, <1>2, <3>1, <3>2 DEF TypeOK
    <2>4. RightsOK'
      BY <1>1, <1>2 DEF RightsOK
    <2>5. NamesOK'
      BY <1>3, <2>1 DEF NamesOK, TypeOK
    <2>6. OnlyAdminsPost'
      <3> SUFFICES ASSUME NEW n \in Names, site'[n] # NoSite, site'[n].project \in AdminPosting
                   PROVE  site'[n].creator \in ever'[site'[n].project] \cup Superusers
        BY DEF OnlyAdminsPost, InCharge
      <3>1. CASE n = o.n
        BY <1>1, <1>3, <2>1, <2>2, <3>1 DEF InCharge, TypeOK
      <3>2. CASE n # o.n
        BY <1>1, <2>1, <3>2 DEF OnlyAdminsPost, InCharge, TypeOK
      <3>3. QED
        BY <3>1, <3>2
    <2>7. OrdersOK'
      <3> SUFFICES ASSUME NEW q \in Requests, order'[q] # NoOrder
                   PROVE  (CheckedProject(order[q]) /\ CheckedSite(order[q]))'
        BY DEF OrdersOK
      <3> PICK c \in Order : c = order[q] /\ c = order'[q]
        BY <1>2 DEF TypeOK
      <3>1. CheckedProject(c) /\ CheckedSite(c)
        BY <1>2 DEF OrdersOK
      <3>2. CheckedProject(c)'
        BY <1>1, <3>1 DEF CheckedProject, InCharge
      <3>3. CheckedSite(c)'
        <4>1. CASE c.n = o.n
          BY <1>1, <1>3, <2>1, <3>1, <4>1 DEF CheckedSite, InCharge
        <4>2. CASE c.n # o.n
          BY <1>1, <1>3, <2>1, <3>1, <4>2 DEF CheckedSite, InCharge, TypeOK
        <4>3. QED
          BY <4>1, <4>2
      <3>4. QED
        BY <3>2, <3>3 DEF CheckedProject, CheckedSite
    <2>8. QED
      BY <2>3, <2>4, <2>5, <2>6, <2>7
  <1>6. QED
    BY <1>4, <1>5

LEMMA InvStep == Inv /\ [Next]_vars => Inv'
  <1> SUFFICES ASSUME Inv, [Next]_vars PROVE Inv'
    OBVIOUS
  <1>1. ASSUME NEW r \in Requests, Write(r) PROVE Inv'
    BY <1>1, ProjectsKeep, SitesKeep, CreateSiteKeeps DEF Write
  <1>2. ASSUME NEW r \in Requests, NEW u \in Users, NEW p \in Projects, Arrive(r, u, p) PROVE Inv'
    BY <1>2, Arriving, CheckKeeps
  <1>3. ASSUME NEW u \in Users, Login(u) PROVE Inv'
    <2>1. /\ UNCHANGED <<made, open, admins, ever, site, used, reused, order, served>>
          /\ copy' = [copy EXCEPT ![u] = {p \in Projects : u \in admins[p]}]
      BY <1>3 DEF Login, projects, sites
    <2>2. TypeOK'
      BY <2>1 DEF Inv, TypeOK
    <2>3. RightsOK'
      BY <2>1 DEF Inv, RightsOK, TypeOK
    <2>4. NamesOK' /\ OnlyAdminsPost' /\ Grows /\ SitesStay
      BY <2>1 DEF Inv, NamesOK, OnlyAdminsPost, InCharge, Grows, SitesStay
    <2>5. OrdersOK'
      BY <2>1, <2>2, <2>4, OrdersKept DEF Inv
    <2>6. QED
      BY <2>2, <2>3, <2>4, <2>5 DEF Inv
  <1>4. CASE UNCHANGED vars
    <2>1. UNCHANGED <<made, open, admins, ever, site, used, reused, order, served, copy>>
      BY <1>4 DEF vars
    <2>2. TypeOK' /\ RightsOK' /\ NamesOK' /\ OnlyAdminsPost' /\ Grows /\ SitesStay
      BY <2>1 DEF Inv, TypeOK, RightsOK, NamesOK, OnlyAdminsPost, InCharge, Grows, SitesStay
    <2>3. OrdersOK'
      BY <2>1, <2>2, OrdersKept DEF Inv
    <2>4. QED
      BY <2>2, <2>3 DEF Inv
  <1>5. QED
    BY <1>1, <1>2, <1>3, <1>4 DEF Next

LEMMA InvAlways == Spec => []Inv
  BY InvInit, InvStep, PTL DEF Spec
-----------------------------------------------------------------------------
\* The tables, the sessions' copies and the orders keep their types.
THEOREM SitesTypeCorrect == Spec => []TypeOK
  <1>1. Inv => TypeOK
    BY DEF Inv
  <1>2. QED
    BY <1>1, InvAlways, PTL

\* Every site of a project with admin_posting was made by a superuser or by one who
\* is or has been an admin of it, whatever became of the rights after the check.
THEOREM OnlyAdminsAlwaysPost == Spec => []OnlyAdminsPost
  <1>1. Inv => OnlyAdminsPost
    BY DEF Inv
  <1>2. QED
    BY <1>1, InvAlways, PTL

\* Only those in charge of a project appoint its admins (add_admin), although the
\* rights are read in one step and the admin is added in another.
THEOREM AdminsAlwaysAppointed == Spec => AdminsAppointed
  <1> DEFINE Appointed ==
        \A p \in made : ever'[p] # ever[p] =>
           \E r \in Requests : order[r] # order'[r] /\ order[r].by \in InCharge(p)
  <1>1. Inv /\ [Next]_vars => [Appointed]_vars
    <2> SUFFICES ASSUME Inv, Next, NEW p \in made, ever'[p] # ever[p]
                 PROVE  \E r \in Requests : order[r] # order'[r] /\ order[r].by \in InCharge(p)
      BY DEF vars
    <2>1. p \in Projects
      BY DEF Inv, TypeOK
    <2>2. ever' # ever
      OBVIOUS
    <2>3. PICK r \in Requests : CreateProject(r) \/ AddAdmin(r)
      <3>1. ASSUME NEW r \in Requests, NEW u \in Users, NEW q \in Projects, Arrive(r, u, q)
            PROVE  FALSE
        BY <2>2, <3>1, Arriving DEF Check, projects
      <3>2. ASSUME NEW u \in Users, Login(u) PROVE FALSE
        BY <2>2, <3>2 DEF Login, projects
      <3>3. ASSUME NEW r \in Requests, Write(r) PROVE CreateProject(r) \/ AddAdmin(r)
        BY <2>2, <3>3
           DEF Write, PublishProject, DeleteAdmin, CreateSite, ModifySite, DeleteSite,
               PublishSite, projects
      <3>4. QED
        BY <3>1, <3>2, <3>3 DEF Next
    <2> DEFINE o == order[r]
    <2>4. Acts(r, {"create_project", "add_admin"})
      BY <2>3 DEF CreateProject, AddAdmin, Acts
    <2>5. /\ o \in Order /\ o # NoOrder /\ CheckedProject(o)
          /\ order'[r] = NoOrder
      BY <2>4, Acting DEF Inv, OrdersOK, Acts, TypeOK
    <2>6. CASE CreateProject(r)
      BY <2>1, <2>6 DEF CreateProject, Inv, TypeOK, projects
    <2>7. CASE AddAdmin(r)
      <3>1. p = o.p
        BY <2>1, <2>7 DEF AddAdmin, Inv, TypeOK
      <3>2. o.op = "add_admin"
        BY <2>7 DEF AddAdmin, Acts
      <3>3. QED
        BY <2>5, <3>1, <3>2 DEF CheckedProject, AdminOps
    <2>8. QED
      BY <2>3, <2>6, <2>7
  <1>2. QED
    BY <1>1, InvAlways, PTL DEF Spec, AdminsAppointed

\* "The access control is double-checked" (README.md:213): an operation for admins
\* is let in for who is an admin of that project or a superuser at that moment,
\* but for one way: POST /admin/publish believes a session that still has the
\* project of a former admin.
OldRightsOnlyPublish ==
    [][\A r \in Requests :
         order[r] = NoOrder /\ order'[r] # NoOrder /\ order'[r].op \in AdminOps =>
           LET o == order'[r]
           IN \/ o.by \in admins[o.p] \cup Superusers
              \/ /\ o.route = "order" /\ o.op \in PublishOps
                 /\ o.p \in copy[o.by] /\ o.by \in ever[o.p]]_vars

\* DoubleChecked, which the run SitesStale refutes, fails in no other way: through
\* the repos never, and through /admin/publish only for those whose rights were
\* taken after they logged in.
THEOREM OnlyPublishTrustsOldRights == Spec => OldRightsOnlyPublish
  <1> DEFINE A == \A r \in Requests :
        order[r] = NoOrder /\ order'[r] # NoOrder /\ order'[r].op \in AdminOps =>
          LET o == order'[r]
          IN \/ o.by \in admins[o.p] \cup Superusers
             \/ /\ o.route = "order" /\ o.op \in PublishOps
                /\ o.p \in copy[o.by] /\ o.by \in ever[o.p]
  <1>1. ASSUME Inv, [Next]_vars PROVE A
    <2> SUFFICES ASSUME NEW r \in Requests, order[r] = NoOrder, order'[r] # NoOrder,
                        NEW o, o = order'[r], o.op \in AdminOps
                 PROVE  \/ o.by \in admins[o.p] \cup Superusers
                        \/ /\ o.route = "order" /\ o.op \in PublishOps
                           /\ o.p \in copy[o.by] /\ o.by \in ever[o.p]
      OBVIOUS
    <2>1. PICK q \in Requests, u \in Users, p \in Projects : Arrive(q, u, p)
      <3>1. ASSUME NEW q \in Requests, Write(q) PROVE FALSE
        <4>1. order'[q] = NoOrder /\ \A s \in Requests \ {q} : order'[s] = order[s]
          BY <1>1, <3>1 DEF Write, CreateProject, PublishProject, AddAdmin, DeleteAdmin, CreateSite,
             ModifySite, DeleteSite, PublishSite, Acts, Inv, TypeOK
        <4>2. QED
          BY <4>1
      <3>2. order' # order
        OBVIOUS
      <3>3. QED
        BY <1>1, <3>1, <3>2 DEF Next, Login, vars
    <2>2. PICK c \in Order : Check(q, c) /\ (c.op \in SiteOps => c.n \in Names)
      BY <2>1, Arriving
    <2>3. c = o /\ o \in Order
      BY <1>1, <2>2 DEF Check, Inv, TypeOK
    <2>4. o.by \in Users /\ o.p \in Projects /\ (o.op \in SiteOps => o.n \in Names)
      BY <2>2, <2>3 DEF Order
    <2>5. CASE o.route # "repo"
      <3>1. o.route = "order" /\ OrderAllows(o)
        BY <2>2, <2>3, <2>5 DEF Check, Order, Routes
      <3>2. QED
        BY <1>1, <2>4, <3>1 DEF OrderAllows, Inv, RightsOK
    <2>6. CASE o.route = "repo" /\ o.op \in ProjectOps
      <3>1. Acceptable(o.op) = Admins
        BY <2>6 DEF Acceptable, AdminOps, PublishOps
      <3>2. Meets(Admins, ProjectFlags(o.by, o.p))
        BY <2>2, <2>3, <2>6, <3>1 DEF Check, RepoAllows
      <3>3. QED
        BY <2>4, <3>2, ProjectAdmin
    <2>7. CASE o.route = "repo" /\ o.op \notin ProjectOps
      <3>1. Acceptable(o.op) = Admins /\ o.op \in SiteOps
        BY <2>7 DEF Acceptable, AdminOps, PublishOps, ProjectOps, SiteOps
      <3>2. Meets(Admins, SiteFlags(o.by, o.p, o.n))
        BY <2>2, <2>3, <2>7, <3>1 DEF Check, RepoAllows
      <3>3. "ADMIN" \in SiteFlags(o.by, o.p, o.n)
        BY <3>2 DEF Meets, Admins
      <3>4. QED
        BY <2>4, <3>1, <3>3, SiteAdmin
    <2>8. QED
      BY <2>5, <2>6, <2>7
  <1>2. QED
    BY <1>1, InvAlways, PTL DEF Spec, OldRightsOnlyPublish
-----------------------------------------------------------------------------
(* Who changes a site *)

\* A site changes by one of the four operations of SiteRepo that write.
LEMMA SiteSteps ==
    ASSUME Next, site' # site
    PROVE  \E r \in Requests : CreateSite(r) \/ ModifySite(r) \/ DeleteSite(r) \/ PublishSite(r)
  <1>1. ASSUME NEW r \in Requests, NEW u \in Users, NEW p \in Projects, Arrive(r, u, p)
        PROVE  FALSE
    BY <1>1, Arriving DEF Check, sites
  <1>2. ASSUME NEW u \in Users, Login(u) PROVE FALSE
    BY <1>2 DEF Login, sites
  <1>3. ASSUME NEW r \in Requests, Write(r)
        PROVE  CreateSite(r) \/ ModifySite(r) \/ DeleteSite(r) \/ PublishSite(r)
    BY <1>3 DEF Write, CreateProject, PublishProject, AddAdmin, DeleteAdmin, sites
  <1>4. QED
    BY <1>1, <1>2, <1>3 DEF Next

\* An operation on a site that is there: the order it is done for, and its right.
LEMMA OnSite ==
    ASSUME Inv, NEW r \in Requests, ModifySite(r) \/ DeleteSite(r) \/ PublishSite(r),
           NEW n \in Names, site'[n] # site[n], n \notin reused
    PROVE  /\ order'[r] # order[r] /\ order[r].n = n /\ site[n] # NoSite
           /\ order[r].by \in {site[n].creator} \cup InCharge(site[n].project)
           /\ order[r].op \in {"publish_site", "hide_site"} =>
                order[r].by \in InCharge(site[n].project)
           /\ reused' = reused
  <1> DEFINE o == order[r]
             ops == {"modify_site", "delete_site", "publish_site", "hide_site"}
  <1>1. Acts(r, ops) /\ reused' = reused
    BY DEF ModifySite, DeleteSite, PublishSite, Acts
  <1>2. o \in Order /\ o # NoOrder /\ o.op \in ops /\ order'[r] = NoOrder
    BY <1>1, Acting DEF Inv, Acts, TypeOK
  <1>3. CheckedProject(o) /\ CheckedSite(o) /\ o.n \in Names
    BY <1>2 DEF Inv, OrdersOK, CheckedSite, SiteOps
  <1>4. n = o.n /\ site[n] # NoSite
    <2> USE <1>3 DEF Inv, TypeOK
    <2>1. CASE ModifySite(r)
      BY <2>1 DEF ModifySite
    <2>2. CASE DeleteSite(r)
      BY <2>2 DEF DeleteSite
    <2>3. CASE PublishSite(r)
      BY <2>3 DEF PublishSite
    <2>4. QED
      BY <2>1, <2>2, <2>3
  <1>5. site[n].project = o.p
    BY <1>2, <1>3, <1>4 DEF CheckedSite, SiteOps
  <1>6. CASE o.op \in {"publish_site", "hide_site"}
    BY <1>1, <1>2, <1>3, <1>4, <1>5, <1>6 DEF CheckedProject, AdminOps, PublishOps
  <1>7. CASE o.op \in {"modify_site", "delete_site"}
    BY <1>1, <1>2, <1>3, <1>4, <1>5, <1>7 DEF CheckedSite, SiteOps
  <1>8. QED
    BY <1>2, <1>6, <1>7

\* A site whose name was not given again is changed and removed only by who made it
\* and by those in charge of its project, on every route.
THEOREM OwnersChange == Spec => ChangedByOwners
  <1> DEFINE Owned ==
        \A n \in Names \ reused :
           site[n] # NoSite /\ site'[n] # site[n] =>
             \E r \in Requests : /\ order[r] # order'[r] /\ order[r].n = n
                                 /\ order[r].by \in {site[n].creator} \cup InCharge(site[n].project)
  <1>1. Inv /\ [Next]_vars => [Owned]_vars
    <2> SUFFICES ASSUME Inv, Next, NEW n \in Names \ reused, site[n] # NoSite, site'[n] # site[n]
                 PROVE  \E r \in Requests :
                          /\ order[r] # order'[r] /\ order[r].n = n
                          /\ order[r].by \in {site[n].creator} \cup InCharge(site[n].project)
      BY DEF vars
    <2>1. PICK r \in Requests : CreateSite(r) \/ ModifySite(r) \/ DeleteSite(r) \/ PublishSite(r)
      BY SiteSteps
    <2>2. CASE CreateSite(r)
      BY <2>2 DEF CreateSite, sites, Inv, TypeOK
    <2>3. CASE ModifySite(r) \/ DeleteSite(r) \/ PublishSite(r)
      BY <2>3, OnSite
    <2>4. QED
      BY <2>1, <2>2, <2>3
  <1>2. QED
    BY <1>1, InvAlways, PTL DEF Spec, ChangedByOwners

\* A site comes to be published by those who are or have been in charge of its
\* project, or by being made in a project with auto_publish; a stale session gives
\* no other right.  A name that was given again is excepted: an order that was
\* checked for one site may publish the next.
THEOREM AdminsPublish == Spec => PublishedByAdmins
  <1> DEFINE Published ==
        \A n \in Names \ reused' :
           site'[n] # NoSite /\ site'[n].published /\ site'[n] # site[n] =>
             \/ site[n] # NoSite /\ site[n].published
             \/ site[n] = NoSite /\ site'[n].project \in AutoPublish
             \/ \E r \in Requests : order[r] # order'[r] /\ order[r].by \in InCharge(site[n].project)
  <1>1. Inv /\ [Next]_vars => [Published]_vars
    <2> SUFFICES ASSUME Inv, Next, NEW n \in Names \ reused',
                        site'[n] # NoSite, site'[n].published, site'[n] # site[n],
                        ~(site[n] # NoSite /\ site[n].published),
                        ~(site[n] = NoSite /\ site'[n].project \in AutoPublish)
                 PROVE  \E r \in Requests :
                          order[r] # order'[r] /\ order[r].by \in InCharge(site[n].project)
      BY DEF vars
    <2>1. PICK r \in Requests : CreateSite(r) \/ ModifySite(r) \/ DeleteSite(r) \/ PublishSite(r)
      BY SiteSteps
    <2>2. CASE CreateSite(r)
      <3> DEFINE o == order[r]
      <3>1. site[o.n] = NoSite /\ site' = [site EXCEPT ![o.n] = New(o)]
        BY <2>2 DEF CreateSite, New, sites
      <3>2. n = o.n /\ site[n] = NoSite /\ site'[n] = New(o)
        BY <3>1 DEF Inv, TypeOK
      <3>3. New(o).project = o.p /\ (New(o).published <=> o.p \in AutoPublish)
        BY DEF New
      <3>4. QED
        BY <3>2, <3>3
    <2>3. CASE ModifySite(r) \/ DeleteSite(r) \/ PublishSite(r)
      <3>1. n \notin reused
        BY <2>3 DEF ModifySite, DeleteSite, PublishSite
      <3>2. /\ order'[r] # order[r] /\ order[r].n = n /\ site[n] # NoSite
            /\ order[r].op \in {"publish_site", "hide_site"} =>
                 order[r].by \in InCharge(site[n].project)
        BY <2>3, <3>1, OnSite
      <3>3. CASE ModifySite(r)
        BY <3>2, <3>3 DEF ModifySite, Inv, TypeOK, Site
      <3>4. CASE DeleteSite(r)
        BY <3>2, <3>4 DEF DeleteSite, Inv, TypeOK
      <3>5. CASE PublishSite(r)
        BY <3>2, <3>5 DEF PublishSite, Acts
      <3>6. QED
        BY <2>3, <3>3, <3>4, <3>5
    <2>4. QED
      BY <2>1, <2>2, <2>3
  <1>2. QED
    BY <1>1, InvAlways, PTL DEF Spec, PublishedByAdmins
-----------------------------------------------------------------------------
(* What a refusal tells *)

\* require_status: to who has no part in it an unpublished site is refused as one
\* that does not exist, whatever was asked.
THEOREM HiddenAlwaysNotFound == Spec => []HiddenIsNotFound
  <1> DEFINE hidden == {"NONE", "AUTHENTICATED", "EXISTS", "NOT_PUBLISHED"}
             none == {"DOES_NOT_EXIST", "NOT_PUBLISHED"}
  <1>1. ASSUME NEW acceptable \in {Admins, Editors, Removers, Readers, Viewers}
        PROVE  ~Meets(acceptable, hidden) /\ Refusal(acceptable, hidden) = 404
    <2>1. ~Meets(acceptable, hidden)
      BY <1>1 DEF Meets, Admins, Editors, Removers, Readers, Viewers
    <2>2. ~Meets(PrivilegeErrors(acceptable), hidden)
      <3>1. PrivilegeErrors(acceptable) \subseteq
              {{"EXISTS", "PUBLISHED", "ANONYMOUS"}, {"EXISTS", "PUBLISHED", "AUTHENTICATED"},
               {"EXISTS", "SUPERUSER"}, {"EXISTS", "ADMIN"}}
        BY DEF PrivilegeErrors
      <3>2. QED
        BY <3>1 DEF Meets
    <2>3. hidden \cap none # {}
      OBVIOUS
    <2> HIDE DEF hidden
    <2>4. Refusal(acceptable, hidden) = 404
      BY <2>2, <2>3 DEF Refusal
    <2>5. QED
      BY <2>1, <2>4
  <1>2. ASSUME NEW u \in Users \ Superusers, NEW p \in Projects, NEW n \in Names,
               Exists(n, p), ~site[n].published, u # site[n].creator, u \notin admins[p]
        PROVE  SiteFlags(u, p, n) = hidden
    BY <1>2 DEF SiteFlags, RolesOf, Derived
  <1>3. ASSUME NEW p \in Projects, NEW n \in Names, Exists(n, p), ~site[n].published
        PROVE  Answer(Visitor, p, n) = 404
    <2> DEFINE flags == {"NONE", "ANONYMOUS", "EXISTS", "NOT_PUBLISHED"}
    <2>1. ViewerFlags(Visitor, p, n) = flags
      BY <1>3 DEF ViewerFlags, Visiting, Derived
    <2>2. ~Meets(Viewers, flags)
      BY DEF Meets, Viewers
    <2>3. ~Meets(PrivilegeErrors(Viewers), flags)
      <3>1. PrivilegeErrors(Viewers) \subseteq
              {{"EXISTS", "PUBLISHED", "ANONYMOUS"}, {"EXISTS", "PUBLISHED", "AUTHENTICATED"},
               {"EXISTS", "SUPERUSER"}, {"EXISTS", "ADMIN"}}
        BY DEF PrivilegeErrors
      <3>2. QED
        BY <3>1 DEF Meets
    <2>4. flags \cap {"DOES_NOT_EXIST", "NOT_PUBLISHED"} # {}
      OBVIOUS
    <2> HIDE DEF flags
    <2>5. Refusal(Viewers, flags) = 404
      BY <2>3, <2>4 DEF Refusal
    <2>6. QED
      BY <2>1, <2>2, <2>5 DEF Answer
  <1>4. HiddenIsNotFound
    BY <1>1, <1>2, <1>3 DEF HiddenIsNotFound
  <1>5. QED
    BY <1>4, PTL

\* A refusal is never 200.
LEMMA RefusalCode ==
    ASSUME NEW acceptable, NEW flags
    PROVE  Refusal(acceptable, flags) # 200
  BY DEF Refusal

\* What the flags of a reader say.
LEMMA ViewerExists ==
    ASSUME NEW u \in Users \cup {Visitor}, NEW p \in Projects, NEW n \in Names
    PROVE  /\ "EXISTS" \in ViewerFlags(u, p, n) <=> Exists(n, p)
           /\ "PUBLISHED" \in ViewerFlags(u, p, n) <=> Exists(n, p) /\ site[n].published
           /\ "OWN" \in ViewerFlags(u, p, n) <=>
                 u # Visitor /\ Exists(n, p) /\ site[n].creator = u
  BY DEF ViewerFlags, Visiting, SiteFlags, RolesOf, Derived

\* A site answers 200 to the readers whose list has it.
LEMMA AnswerListed ==
    ASSUME NEW u \in Users \cup {Visitor}, NEW p \in Projects, NEW n \in Names
    PROVE  Answer(u, p, n) = 200 <=> n \in Listed(u, p)
  <1> DEFINE flags == ViewerFlags(u, p, n)
  <1>1. Meets(Viewers, flags) <=>
          \/ "PUBLISHED" \in flags
          \/ "EXISTS" \in flags /\ "ADMIN" \in flags
          \/ "EXISTS" \in flags /\ "OWN" \in flags
    BY DEF Meets, Viewers
  <1>2. Answer(u, p, n) = 200 <=> ProjectVisible(u, p) /\ Meets(Viewers, flags)
    BY RefusalCode DEF Answer
  <1>3. QED
    BY <1>1, <1>2, ViewerExists DEF Listed

\* The list of sites is what can be read, and what can be operated on is in it.
THEOREM ListedAlwaysReadable == Spec => []ListedIsReadable
  <1>1. ASSUME NEW u \in Users \cup {Visitor}, NEW p \in Projects
        PROVE  Listed(u, p) = {n \in Names : Answer(u, p, n) = 200}
    <2>1. Listed(u, p) \subseteq Names
      BY DEF Listed
    <2>2. QED
      BY <2>1, AnswerListed
  <1>2. ASSUME NEW u \in Users, NEW p \in Projects, NEW op \in SiteOps, NEW n \in Names,
               Exists(n, p), RepoAllows(Ask(op, "repo", u, p, n, {}))
        PROVE  n \in Listed(u, p)
    <2> DEFINE flags == SiteFlags(u, p, n)
    <2>1. u # Visitor /\ ViewerFlags(u, p, n) = flags
      BY NameAssumption DEF ViewerFlags
    <2>2. op \notin ProjectOps
      BY DEF SiteOps, ProjectOps
    <2>3. ProjectVisible(u, p) /\ Meets(Acceptable(op), flags)
      BY <1>2, <2>2 DEF RepoAllows, Ask
    <2>4. Acceptable(op) \in {Creators, Admins, Editors, Removers}
      BY DEF Acceptable
    <2>5. "DOES_NOT_EXIST" \notin flags
      BY <1>2 DEF SiteFlags, RolesOf, Derived
    <2>6. "ADMIN" \in flags \/ "OWN" \in flags
      BY <2>3, <2>4, <2>5 DEF Meets, Creators, Admins, Editors, Removers
    <2>7. QED
      BY <1>2, <2>1, <2>3, <2>6, ViewerExists DEF Listed
  <1>3. ListedIsReadable
    BY <1>1, <1>2 DEF ListedIsReadable
  <1>4. QED
    BY <1>3, PTL
=============================================================================
