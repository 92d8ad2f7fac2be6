-------------------------------- MODULE Sites ---------------------------------
(***************************************************************************)
(* Projects, their admins and their sites: the operations of ProjectRepo   *)
(* and SiteRepo that change something (src/muistot/backend/repos), and     *)
(* POST /admin/publish (backend/api/publish.py).                           *)
(*                                                                         *)
(* A request reads the rights of its user, awaits, and then acts.  The     *)
(* SELECT of the check sees its transaction's snapshot; the write acts on  *)
(* the newest rows, which it finds by NAME, and becomes visible with the   *)
(* commit.  So a request has two steps: Check, which also stands for its   *)
(* arrival (what the session says may be old, that the check comes later   *)
(* adds nothing), and its write with the commit.  A request that is        *)
(* refused changes nothing, and takes no step.                             *)
(*                                                                         *)
(* A session copies the user's rights at login and keeps them.             *)
(***************************************************************************)
EXTENDS Access

CONSTANTS Requests,
          Users, Projects, Names,  \* Names: the names of sites
          Superusers,              \* the table superusers, which no code writes
          AutoPublish,             \* projects made with auto_publish: both are
          AdminPosting,            \* ... set at the creation and never changed
          Visitor,                 \* a reader without a session
          NoName, NoSite, NoOrder

ASSUME SubsetAssumption == /\ Superusers \subseteq Users
                           /\ AutoPublish \subseteq Projects
                           /\ AdminPosting \subseteq Projects
ASSUME NameAssumption == NoName \notin Names /\ Visitor \notin Users

VARIABLES
    made,    \* the projects that exist
    open,    \* those that are published
    admins,  \* admins[p]: the table project_admins
    site,    \* site[n]: the site with this name, or NoSite
    copy,    \* copy[u]: the admin projects in the session of u
    order,   \* order[r]: what request r, whose check has passed, will do
    served,  \* the requests that have come (each comes once)
    ever,    \* history: ever[p] are the users that were ever admins of p
    used,    \* history: the names that a site had ...
    reused   \* ... and those that a second site was given

projects == <<made, open, admins, ever>>
sites    == <<site, used, reused>>
vars     == <<made, open, admins, site, copy, order, served, ever, used, reused>>

Routes == {"repo", "order"}  \* an endpoint of its own, or POST /admin/publish
ProjectOps == {"create_project", "publish_project", "hide_project", "add_admin", "delete_admin"}
SiteOps == {"create_site", "modify_site", "delete_site", "publish_site", "hide_site"}
PublishOps == {"publish_project", "hide_project", "publish_site", "hide_site"}
AdminOps == PublishOps \cup {"add_admin", "delete_admin"}

Site == [project : Projects, creator : Users, published : BOOLEAN, modifier : Users]
Order == [op : ProjectOps \cup SiteOps, route : Routes, by : Users, p : Projects,
          n : Names \cup {NoName}, whom : SUBSET Users]

ASSUME NullAssumption == NoSite \notin Site /\ NoOrder \notin Order

TypeOK == /\ made \subseteq Projects /\ open \subseteq made
          /\ admins \in [Projects -> SUBSET Users]
          /\ site \in [Names -> Site \cup {NoSite}]
          /\ copy \in [Users -> SUBSET Projects]
          /\ order \in [Requests -> Order \cup {NoOrder}]
          /\ served \subseteq Requests
          /\ ever \in [Projects -> SUBSET Users]
          /\ used \subseteq Names /\ reused \subseteq used

Exists(n, p) == site[n] # NoSite /\ site[n].project = p

\* Published projects with at most one admin each, any sites, sessions of before.
Init == /\ made \in SUBSET Projects /\ open = made
        /\ admins \in [Projects -> {{}} \cup {{u} : u \in Users}]
        /\ \A p \in Projects : p \notin made => admins[p] = {}
        /\ site \in [Names -> Site \cup {NoSite}]
        /\ \A n \in Names : site[n] # NoSite =>
              LET p == site[n].project
              IN /\ p \in made /\ site[n].modifier = site[n].creator
                 /\ p \in AdminPosting => site[n].creator \in admins[p] \cup Superusers
        /\ copy = [u \in Users |-> {p \in Projects : u \in admins[p]}]
        /\ order = [r \in Requests |-> NoOrder]
        /\ served = {}
        /\ ever = admins
        /\ used = {n \in Names : site[n] # NoSite} /\ reused = {}
-----------------------------------------------------------------------------
\* ProjectStatus and SiteStatus
ProjectFlags(u, p) ==
    RolesOf(u \in Superusers) \cup
    (IF p \in made THEN Derived(TRUE, p \in open, FALSE, u \in admins[p])
                   ELSE {"DOES_NOT_EXIST"})

SiteFlags(u, p, n) ==
    RolesOf(u \in Superusers) \cup
    Derived(Exists(n, p), Exists(n, p) /\ site[n].published,
            Exists(n, p) /\ site[n].creator = u, u \in admins[p])

\* SiteStatus answers 404 before any flag counts.  A superuser is no exception.
ProjectVisible(u, p) == p \in made /\ (p \in open \/ u \in admins[p])

Acceptable(op) == CASE op \in {"create_project", "create_site"} -> Creators
                    [] op = "modify_site" -> Editors
                    [] op = "delete_site" -> Removers
                    [] OTHER -> Admins

\* Mutant: "admin_posting" is only looked at when a site is modified.
PostingAllowed_NotCreate(o) ==
    o.op = "modify_site" /\ o.p \in AdminPosting
        => "ADMIN" \in SiteFlags(o.by, o.p, o.n)

\* check_admin_posting
PostingAllowed(o) ==
    o.op \in {"create_site", "modify_site"} /\ o.p \in AdminPosting
        => "ADMIN" \in SiteFlags(o.by, o.p, o.n)

\* Mutant: the creator of a site may do what an admin may.
RepoAllows_OwnerPublishes(o) ==
    IF o.op \in ProjectOps
      THEN /\ Meets(Acceptable(o.op), ProjectFlags(o.by, o.p))
           /\ o.op = "add_admin" => o.whom \cap admins[o.p] = {}
      ELSE /\ ProjectVisible(o.by, o.p)
           /\ Meets(Acceptable(o.op) \cup {{"OWN"}}, SiteFlags(o.by, o.p, o.n))
           /\ PostingAllowed(o)

\* Mutant: anybody who is logged in may appoint an admin.
RepoAllows_AnyoneAppoints(o) ==
    IF o.op \in ProjectOps
      THEN /\ \/ Meets(Acceptable(o.op), ProjectFlags(o.by, o.p))
              \/ o.op = "add_admin" /\ o.p \in made
           /\ o.op = "add_admin" => o.whom \cap admins[o.p] = {}
      ELSE /\ ProjectVisible(o.by, o.p)
           /\ Meets(Acceptable(o.op), SiteFlags(o.by, o.p, o.n))
           /\ PostingAllowed(o)

\* The methods of the repos, up to their first write.
RepoAllows(o) ==
    IF o.op \in ProjectOps
      THEN /\ Meets(Acceptable(o.op), ProjectFlags(o.by, o.p))
           /\ o.op = "add_admin" => o.whom \cap admins[o.p] = {}
      ELSE /\ ProjectVisible(o.by, o.p)
           /\ Meets(Acceptable(o.op), SiteFlags(o.by, o.p, o.n))
           /\ PostingAllowed(o)

\* Mutant: the site is not looked for in the project that the order names.
OrderAllows_AnyParent(o) ==
    /\ o.op \in PublishOps
    /\ o.p \in copy[o.by] \/ o.by \in Superusers
    /\ o.p \in made
    /\ o.op \in SiteOps => /\ site[o.n] # NoSite
                           /\ o.p \in open \/ o.by \in admins[o.p] \cup Superusers

\* publish and check_exists(check_published=False): the session must know the
\* project, the rows must exist, and only an admin gets at an unpublished project.
OrderAllows(o) ==
    /\ o.op \in PublishOps
    /\ o.p \in copy[o.by] \/ o.by \in Superusers
    /\ o.p \in made
    /\ o.op \in SiteOps => /\ Exists(o.n, o.p)
                           /\ o.p \in open \/ o.by \in admins[o.p] \cup Superusers

\* require_auth: the scopes in the session.
ScopeAllows(o) == o.op \in AdminOps => copy[o.by] # {} \/ o.by \in Superusers

Check(r, o) ==
    /\ r \notin served
    /\ ScopeAllows(o)
    /\ IF o.route = "repo" THEN RepoAllows(o) ELSE OrderAllows(o)
    /\ order' = [order EXCEPT ![r] = o]
    /\ served' = served \cup {r}
    /\ UNCHANGED <<projects, sites, copy>>

\* The order of r for one of these operations, whose step this is.
Acts(r, ops) == /\ order[r] # NoOrder /\ order[r].op \in ops
                /\ order' = [order EXCEPT ![r] = NoOrder]
                /\ UNCHANGED <<served, copy>>
-----------------------------------------------------------------------------
(* ProjectRepo *)

\* A project name that came into use is refused by its unique key (409).
CreateProject(r) ==
    /\ Acts(r, {"create_project"})
    /\ LET o == order[r]
       IN IF o.p \in made THEN UNCHANGED projects
          ELSE /\ made' = made \cup {o.p}
               /\ admins' = [admins EXCEPT ![o.p] = o.whom]
               /\ ever' = [ever EXCEPT ![o.p] = @ \cup o.whom]
               /\ UNCHANGED open
    /\ UNCHANGED sites

\* toggle_publish, also behind DELETE /projects/{project}.
PublishProject(r) ==
    /\ Acts(r, {"publish_project", "hide_project"})
    /\ LET o == order[r]
       IN open' = IF o.op = "publish_project" THEN open \cup {o.p} ELSE open \ {o.p}
    /\ UNCHANGED <<made, admins, ever, sites>>

\* One who became an admin in the meantime is a duplicate (409).
AddAdmin(r) ==
    /\ Acts(r, {"add_admin"})
    /\ LET o == order[r]
       IN /\ admins' = [admins EXCEPT ![o.p] = @ \cup o.whom]
          /\ ever' = [ever EXCEPT ![o.p] = @ \cup o.whom]
    /\ UNCHANGED <<made, open, sites>>

DeleteAdmin(r) ==
    /\ Acts(r, {"delete_admin"})
    /\ LET o == order[r] IN admins' = [admins EXCEPT ![o.p] = @ \ o.whom]
    /\ UNCHANGED <<made, open, ever, sites>>
-----------------------------------------------------------------------------
(* SiteRepo *)

\* Site names are unique over all projects: one in use is refused (409).
CreateSite(r) ==
    /\ Acts(r, {"create_site"})
    /\ LET o == order[r]
       IN IF site[o.n] # NoSite THEN UNCHANGED sites
          ELSE /\ site' = [site EXCEPT ![o.n] =
                             [project |-> o.p, creator |-> o.by,
                              published |-> o.p \in AutoPublish, modifier |-> o.by]]
               /\ used' = used \cup {o.n}
               /\ reused' = IF o.n \in used THEN reused \cup {o.n} ELSE reused
    /\ UNCHANGED projects

\* The image, the location and the texts; each notes who wrote it.
ModifySite(r) ==
    /\ Acts(r, {"modify_site"})
    /\ LET o == order[r]
       IN site' = IF site[o.n] = NoSite THEN site
                  ELSE [site EXCEPT ![o.n].modifier = o.by]
    /\ UNCHANGED <<projects, used, reused>>

DeleteSite(r) ==
    /\ Acts(r, {"delete_site"})
    /\ site' = [site EXCEPT ![order[r].n] = NoSite]
    /\ UNCHANGED <<projects, used, reused>>

\* toggle_publish, and the UPDATE of /admin/publish.
PublishSite(r) ==
    /\ Acts(r, {"publish_site", "hide_site"})
    /\ LET o == order[r]
       IN site' = IF site[o.n] = NoSite THEN site
                  ELSE [site EXCEPT ![o.n].published = (o.op = "publish_site")]
    /\ UNCHANGED <<projects, used, reused>>
-----------------------------------------------------------------------------
(* Reading sites *)

\* SiteStatus for a visitor has no columns for a creator and an admin.
ViewerFlags(u, p, n) ==
    IF u # Visitor THEN SiteFlags(u, p, n)
    ELSE Visiting \cup Derived(Exists(n, p), Exists(n, p) /\ site[n].published, FALSE, FALSE)

\* SiteRepo.one: the status that is answered (texts are the subject of Contents).
Answer(u, p, n) ==
    IF ~ProjectVisible(u, p) THEN 404
    ELSE IF Meets(Viewers, ViewerFlags(u, p, n)) THEN 200
    ELSE Refusal(Viewers, ViewerFlags(u, p, n))

\* Mutant: what an admin gets is what everybody gets.
Listed_NotAdmins(u, p) ==
    {n \in Names : /\ ProjectVisible(u, p) /\ Exists(n, p)
                   /\ site[n].published \/ site[n].creator = u}

\* SiteRepo.all: the WHERE of an admin, of a user and of a visitor.
Listed(u, p) ==
    {n \in Names : /\ ProjectVisible(u, p) /\ Exists(n, p)
                   /\ \/ "ADMIN" \in ViewerFlags(u, p, n)
                      \/ site[n].published
                      \/ u # Visitor /\ site[n].creator = u}
-----------------------------------------------------------------------------
\* A login copies the rights of u into the session.
Login(u) ==
    /\ copy' = [copy EXCEPT ![u] = {p \in Projects : u \in admins[p]}]
    /\ UNCHANGED <<projects, sites, order, served>>

Ask(op, route, u, p, n, whom) ==
    [op |-> op, route |-> route, by |-> u, p |-> p, n |-> n, whom |-> whom]

\* The bound on a new project's admins is one.
Arrive(r, u, p) ==
    \/ \E op \in {"create_project", "add_admin", "delete_admin"}, v \in Users :
          Check(r, Ask(op, "repo", u, p, NoName, {v}))
    \/ Check(r, Ask("create_project", "repo", u, p, NoName, {}))
    \/ \E op \in {"publish_project", "hide_project"}, route \in Routes :
          Check(r, Ask(op, route, u, p, NoName, {}))
    \/ \E op \in SiteOps, route \in Routes, n \in Names : Check(r, Ask(op, route, u, p, n, {}))

Write(r) == \/ CreateProject(r) \/ PublishProject(r) \/ AddAdmin(r) \/ DeleteAdmin(r)
            \/ CreateSite(r) \/ ModifySite(r) \/ DeleteSite(r) \/ PublishSite(r)

Next == \/ \E r \in Requests : Write(r) \/ \E u \in Users, p \in Projects : Arrive(r, u, p)
        \/ \E u \in Users : Login(u)

Spec == Init /\ [][Next]_vars
-----------------------------------------------------------------------------
\* In charge of p, now or once: a request that was checked in time still acts.
InCharge(p) == ever[p] \cup Superusers

\* A site comes to be published by somebody who is, or was, in charge of its
\* project, or by being made in a project with auto_publish, whatever the route
\* and however old the session.  (A name that a second site has is excepted: the
\* request that was checked for the first acts on the second.)
PublishedByAdmins ==
    [][\A n \in Names \ reused' :
         site'[n] # NoSite /\ site'[n].published /\ site'[n] # site[n] =>
           \/ site[n] # NoSite /\ site[n].published
           \/ site[n] = NoSite /\ site'[n].project \in AutoPublish
           \/ \E r \in Requests : order[r] # order'[r] /\ order[r].by \in InCharge(site[n].project)]_vars

\* A site is changed and removed only by its creator and those in charge.
ChangedByOwners ==
    [][\A n \in Names \ reused :
         site[n] # NoSite /\ site'[n] # site[n] =>
           \E r \in Requests : /\ order[r] # order'[r] /\ order[r].n = n
                               /\ order[r].by \in {site[n].creator} \cup InCharge(site[n].project)]_vars

\* Once a project exists its admins are appointed by those in charge of it.
AdminsAppointed ==
    [][\A p \in made : ever'[p] # ever[p] =>
         \E r \in Requests : order[r] # order'[r] /\ order[r].by \in InCharge(p)]_vars

\* "True if only admins can post" (models/project.py:73).
OnlyAdminsPost ==
    \A n \in Names : site[n] # NoSite /\ site[n].project \in AdminPosting =>
        site[n].creator \in InCharge(site[n].project)

\* To who is neither its creator nor an admin nor a superuser, an unpublished
\* site answers every operation as if it did not exist; and to a visitor.
HiddenIsNotFound ==
    /\ \A p \in Projects, n \in Names :
          Exists(n, p) /\ ~site[n].published => Answer(Visitor, p, n) = 404
    /\ \A u \in Users \ Superusers, p \in Projects, n \in Names :
          ProjectVisible(u, p) /\ Exists(n, p) /\ ~site[n].published
            /\ u # site[n].creator /\ u \notin admins[p] =>
              \A acceptable \in {Admins, Editors, Removers, Readers, Viewers} :
                  /\ ~Meets(acceptable, SiteFlags(u, p, n))
                  /\ Refusal(acceptable, SiteFlags(u, p, n)) = 404

\* Everybody has in the list of a project the sites that answer to him one by
\* one, and whoever an operation of SiteRepo is open to can read its site.
ListedIsReadable ==
    \A u \in Users \cup {Visitor}, p \in Projects :
        /\ Listed(u, p) = {n \in Names : Answer(u, p, n) = 200}
        /\ u # Visitor => \A op \in SiteOps, n \in Names :
              Exists(n, p) /\ RepoAllows(Ask(op, "repo", u, p, n, {})) => n \in Listed(u, p)

\* "The access control is double-checked, once at the resource level to prevent
\* grossly illegal calls and a second time at the repo level to fetch the
\* up-to-date information." (README.md:213)
DoubleChecked ==
    [][\A r \in Requests :
         order[r] = NoOrder /\ order'[r] # NoOrder /\ order'[r].op \in AdminOps =>
           order'[r].by \in admins[order'[r].p] \cup Superusers]_vars
=============================================================================
