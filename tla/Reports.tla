-------------------------------- MODULE Reports -------------------------------
(***************************************************************************)
(* Sites and memories of one published project, the reports against them,  *)
(* and the watchdog that hides what many have reported: SiteRepo,          *)
(* MemoryRepo (src/muistot/backend/repos), POST /report and /admin/publish *)
(* (backend/api/publish.py), and the event report_watchdog of the database *)
(* (database/schemas/schema_data_audit.sql).                               *)
(*                                                                         *)
(* As in Sites a request is two steps, its check and its write with the    *)
(* commit.  Sites are found by name, and a name may be given again;        *)
(* memories by an id that the database never gives again.                  *)
(***************************************************************************)
EXTENDS Access, FiniteSets

CONSTANTS Requests,     \* requests under way at a time
          Users, ProjectAdmins,
          Visitor,      \* a reader without a session
          Names, Ids,   \* names of sites; ids of memories (the bound on them)
          AutoPublish,  \* does the project publish its children at once?
          HideAbove,    \* hidden with more reports than this (10 in the code)
          NoSite, NoMemory, NoOrder

ASSUME UserAssumption == ProjectAdmins \subseteq Users /\ Visitor \notin Users
ASSUME ThingAssumption == Names \cap Ids = {} /\ NoMemory \notin Ids
ASSUME NumberAssumption == AutoPublish \in BOOLEAN /\ HideAbove \in Nat

VARIABLES
    site,      \* site[n]: the site with this name, or NoSite
    memory,    \* memory[m]: the memory with this id, or NoMemory
    issued,    \* the ids that were given
    reports,   \* reports[x]: who reported site or memory x (audit_sites, audit_memories)
    order,     \* order[r]: what request r, whose check has passed, will do
    watchdog   \* "asleep", or the table that hide_reported_things looks at next

vars == <<site, memory, issued, reports, order, watchdog>>

Things == Names \cup Ids
SiteOps == {"create_site", "delete_site", "publish_site", "hide_site", "report_site"}
MemoryOps == {"create_memory", "modify_memory", "delete_memory", "publish_memory",
              "hide_memory", "report_memory"}
\* What /admin/publish and /report do; the other route is an endpoint of its own.
OrderOps == {"publish_site", "hide_site", "report_site",
             "publish_memory", "hide_memory", "report_memory"}
Routes == {"repo", "order"}

Site == [creator : Users, published : BOOLEAN]
Memory == [site : Names, author : Users, published : BOOLEAN, words : Users]
Order == [op : SiteOps \cup MemoryOps, route : Routes, by : Users, n : Names,
          m : Ids \cup {NoMemory}]

ASSUME NullAssumption == NoSite \notin Site /\ NoMemory \notin Memory /\ NoOrder \notin Order

TypeOK == /\ site \in [Names -> Site \cup {NoSite}]
          /\ memory \in [Ids -> Memory \cup {NoMemory}]
          /\ issued \subseteq Ids
          /\ reports \in [Things -> SUBSET Users]
          /\ order \in [Requests -> Order \cup {NoOrder}]
          /\ watchdog \in {"asleep", "sites"}

Init == /\ site = [n \in Names |-> NoSite]
        /\ memory = [m \in Ids |-> NoMemory]
        /\ issued = {}
        /\ reports = [x \in Things |-> {}]
        /\ order = [r \in Requests |-> NoOrder]
        /\ watchdog = "asleep"
-----------------------------------------------------------------------------
Exists(x) == IF x \in Names THEN site[x] # NoSite ELSE memory[x] # NoMemory
Published(x) == Exists(x) /\ (IF x \in Names THEN site[x].published ELSE memory[x].published)
Of(m, n) == Exists(m) /\ memory[m].site = n

\* SiteStatus, MemoryStatus.  Nobody is a superuser here: one has an admin's flags.
SiteFlags(u, n) ==
    RolesOf(FALSE) \cup
    Derived(Exists(n), Published(n), Exists(n) /\ site[n].creator = u, u \in ProjectAdmins)

MemoryFlags(u, n, m) ==
    RolesOf(FALSE) \cup
    Derived(m # NoMemory /\ Of(m, n), m # NoMemory /\ Of(m, n) /\ Published(m),
            m # NoMemory /\ Of(m, n) /\ memory[m].author = u, u \in ProjectAdmins)

\* MemoryStatus answers 404 before any flag counts, to the site's creator also.
SiteVisible(u, n) == Exists(n) /\ (Published(n) \/ u \in ProjectAdmins)

Acceptable(op) ==
    CASE op = "create_site" -> Creators
      [] op \in {"delete_site", "delete_memory"} -> Removers
      [] op = "create_memory" -> Anybody
      [] op = "modify_memory" -> Authors
      [] op \in {"report_site", "report_memory"} -> Readers
      [] OTHER -> Admins

\* Mutant: an admin may rewrite a memory.
RepoAllows_AdminsRewrite(o) ==
    IF o.op \in SiteOps THEN Meets(Acceptable(o.op), SiteFlags(o.by, o.n))
    ELSE /\ SiteVisible(o.by, o.n)
         /\ Meets(Acceptable(o.op) \cup (IF o.op = "modify_memory" THEN Admins ELSE {}),
                  MemoryFlags(o.by, o.n, o.m))

\* The methods of the repos, up to their first write.
RepoAllows(o) ==
    IF o.op \in SiteOps THEN Meets(Acceptable(o.op), SiteFlags(o.by, o.n))
    ELSE /\ SiteVisible(o.by, o.n)
         /\ Meets(Acceptable(o.op), MemoryFlags(o.by, o.n, o.m))

\* publish and report, with check_exists: an admin may even report what is hidden.
OrderAllows(o) ==
    /\ o.op \in OrderOps
    /\ Exists(o.n) /\ (o.op \in MemoryOps => Of(o.m, o.n))
    /\ IF o.op \in {"report_site", "report_memory"}
         THEN \/ o.by \in ProjectAdmins
              \/ Published(o.n) /\ (o.op = "report_memory" => Published(o.m))
         ELSE o.by \in ProjectAdmins

Check(r, o) ==
    /\ order[r] = NoOrder
    /\ IF o.route = "repo" THEN RepoAllows(o) ELSE OrderAllows(o)
    /\ order' = [order EXCEPT ![r] = o]
    /\ UNCHANGED <<site, memory, issued, reports, watchdog>>

Acts(r, ops) == /\ order[r] # NoOrder /\ order[r].op \in ops
                /\ order' = [order EXCEPT ![r] = NoOrder]
                /\ UNCHANGED watchdog
-----------------------------------------------------------------------------
(* Sites *)

CreateSite(r) ==
    /\ Acts(r, {"create_site"})
    /\ LET o == order[r]
       IN site' = IF Exists(o.n) THEN site
                  ELSE [site EXCEPT ![o.n] = [creator |-> o.by, published |-> AutoPublish]]
    /\ UNCHANGED <<memory, issued, reports>>

\* Mutant: the reports do not go with the rows they are about.
DeleteSite_KeepsReports(r) ==
    /\ Acts(r, {"delete_site"})
    /\ LET n == order[r].n
       IN /\ site' = [site EXCEPT ![n] = NoSite]
          /\ memory' = [m \in Ids |-> IF Of(m, n) THEN NoMemory ELSE memory[m]]
    /\ UNCHANGED <<issued, reports>>

\* The foreign keys: the site's memories go with it, and all the reports.
DeleteSite(r) ==
    /\ Acts(r, {"delete_site"})
    /\ LET n == order[r].n
       IN /\ site' = [site EXCEPT ![n] = NoSite]
          /\ memory' = [m \in Ids |-> IF Of(m, n) THEN NoMemory ELSE memory[m]]
          /\ reports' = [x \in Things |-> IF x = n \/ (x \in Ids /\ Of(x, n)) THEN {}
                                          ELSE reports[x]]
    /\ UNCHANGED <<issued>>

PublishSite(r) ==
    /\ Acts(r, {"publish_site", "hide_site"})
    /\ LET o == order[r]
       IN site' = IF Exists(o.n) THEN [site EXCEPT ![o.n].published = (o.op = "publish_site")]
                  ELSE site
    /\ UNCHANGED <<memory, issued, reports>>
-----------------------------------------------------------------------------
(* Memories *)

\* INSERT ... SELECT from the sites of that name: without one, nothing.
CreateMemory(r) ==
    /\ Acts(r, {"create_memory"})
    /\ LET o == order[r]
       IN IF ~Exists(o.n) THEN UNCHANGED <<memory, issued>>
          ELSE \E m \in Ids \ issued :
                 /\ memory' = [memory EXCEPT ![m] =
                       [site |-> o.n, author |-> o.by, published |-> AutoPublish, words |-> o.by]]
                 /\ issued' = issued \cup {m}
    /\ UNCHANGED <<site, reports>>

\* The title, the story, the image.
ModifyMemory(r) ==
    /\ Acts(r, {"modify_memory"})
    /\ LET o == order[r]
       IN memory' = IF Exists(o.m) THEN [memory EXCEPT ![o.m].words = o.by] ELSE memory
    /\ UNCHANGED <<site, issued, reports>>

PublishMemory(r) ==
    /\ Acts(r, {"publish_memory", "hide_memory"})
    /\ LET o == order[r]
       IN memory' = IF Exists(o.m)
                      THEN [memory EXCEPT ![o.m].published = (o.op = "publish_memory")]
                      ELSE memory
    /\ UNCHANGED <<site, issued, reports>>

DeleteMemory(r) ==
    /\ Acts(r, {"delete_memory"})
    /\ memory' = [memory EXCEPT ![order[r].m] = NoMemory]
    /\ reports' = [reports EXCEPT ![order[r].m] = {}]
    /\ UNCHANGED <<site, issued>>
-----------------------------------------------------------------------------
(* Reports *)

\* INSERT IGNORE: one row for a user and a thing, none for a thing that is gone.
Report(r) ==
    /\ Acts(r, {"report_site", "report_memory"})
    /\ LET o == order[r]
           x == IF o.op = "report_site" THEN o.n ELSE o.m
       IN reports' = IF Exists(x) THEN [reports EXCEPT ![x] = @ \cup {o.by}] ELSE reports
    /\ UNCHANGED <<site, memory, issued>>

Many(x) == Cardinality(reports[x]) > HideAbove

\* Mutant: hidden with as many reports as the bound.
HideMemories_AtLeast ==
    /\ watchdog = "asleep"
    /\ watchdog' = "sites"
    /\ memory' = [m \in Ids |-> IF Exists(m) /\ Cardinality(reports[m]) >= HideAbove
                                  THEN [memory[m] EXCEPT !.published = FALSE] ELSE memory[m]]
    /\ UNCHANGED <<site, issued, reports, order>>

\* hide_reported_things: an UPDATE of memories ...
HideMemories ==
    /\ watchdog = "asleep"
    /\ watchdog' = "sites"
    /\ memory' = [m \in Ids |-> IF Exists(m) /\ Many(m)
                                  THEN [memory[m] EXCEPT !.published = FALSE] ELSE memory[m]]
    /\ UNCHANGED <<site, issued, reports, order>>

\* Mutant: the second UPDATE is about the memories again.
HideSites_Forgotten ==
    /\ watchdog = "sites"
    /\ watchdog' = "asleep"
    /\ UNCHANGED <<site, memory, issued, reports, order>>

\* ... and one of sites, each its own transaction.
HideSites ==
    /\ watchdog = "sites"
    /\ watchdog' = "asleep"
    /\ site' = [n \in Names |-> IF Exists(n) /\ Many(n)
                                  THEN [site[n] EXCEPT !.published = FALSE] ELSE site[n]]
    /\ UNCHANGED <<memory, issued, reports, order>>
-----------------------------------------------------------------------------
(* Reading memories *)

\* MemoryStatus for a visitor has no columns for an author and an admin.
ViewerFlags(u, n, m) ==
    IF u # Visitor THEN MemoryFlags(u, n, m)
    ELSE Visiting \cup Derived(Of(m, n), Of(m, n) /\ Published(m), FALSE, FALSE)

\* MemoryRepo.one: the status that is answered.
Answer(u, n, m) ==
    IF ~SiteVisible(u, n) THEN 404
    ELSE IF Meets(Viewers, ViewerFlags(u, n, m)) THEN 200
    ELSE Refusal(Viewers, ViewerFlags(u, n, m))

\* Mutant: the rows of a user are those of everybody.
Listed_NotOwn(u, n) ==
    {m \in Ids : /\ SiteVisible(u, n) /\ Of(m, n)
                 /\ u \in ProjectAdmins \/ Published(m)}

\* MemoryRepo.all: _select_for_admin, _select_for_user and _select.
Listed(u, n) ==
    {m \in Ids : /\ SiteVisible(u, n) /\ Of(m, n)
                 /\ \/ u \in ProjectAdmins
                    \/ Published(m)
                    \/ u # Visitor /\ memory[m].author = u}
-----------------------------------------------------------------------------
Ask(op, route, u, n, m) == [op |-> op, route |-> route, by |-> u, n |-> n, m |-> m]

\* The bound on memories: one is asked for while there are ids left.
IdsLeft == Cardinality({r \in Requests : order[r] # NoOrder /\ order[r].op = "create_memory"})
             < Cardinality(Ids \ issued)

Arrive(r, u, n) ==
    \/ \E op \in SiteOps, route \in Routes : Check(r, Ask(op, route, u, n, NoMemory))
    \/ IdsLeft /\ Check(r, Ask("create_memory", "repo", u, n, NoMemory))
    \/ \E op \in MemoryOps \ {"create_memory"}, route \in Routes, m \in Ids :
          Check(r, Ask(op, route, u, n, m))

Write(r) == \/ CreateSite(r) \/ DeleteSite(r) \/ PublishSite(r)
            \/ CreateMemory(r) \/ ModifyMemory(r) \/ PublishMemory(r) \/ DeleteMemory(r)
            \/ Report(r)

Next == \/ \E r \in Requests : Write(r) \/ \E u \in Users, n \in Names : Arrive(r, u, n)
        \/ HideMemories \/ HideSites

\* The database runs the event every 12 hours.
Spec == Init /\ [][Next]_vars /\ WF_vars(HideMemories) /\ WF_vars(HideSites)
-----------------------------------------------------------------------------
\* A memory has its site, and a report its thing, whatever is deleted between
\* the check and the write of another request.
NoOrphans == /\ \A m \in Ids : Exists(m) => Exists(memory[m].site)
             /\ \A x \in Things : reports[x] # {} => Exists(x)

\* The words of a memory are always its author's.
OwnWords == \A m \in Ids : Exists(m) => memory[m].words = memory[m].author

\* Everybody has in the list of a site the memories that answer to him one by
\* one, and whoever may do something to a memory, by either route, can read it.
ListedIsReadable ==
    \A u \in Users \cup {Visitor}, n \in Names :
        /\ Listed(u, n) = {m \in Ids : Answer(u, n, m) = 200}
        /\ u # Visitor => \A op \in MemoryOps, m \in Ids :
              /\ Of(m, n) /\ op # "create_memory"
              /\ \/ RepoAllows(Ask(op, "repo", u, n, m))
                 \/ OrderAllows(Ask(op, "order", u, n, m))
              => m \in Listed(u, n)

\* What was published is hidden by an admin, or with more than HideAbove reports.
HiddenForAReason ==
    [][\A x \in Things : Published(x) /\ ~Published(x)' /\ Exists(x)' =>
         \/ Many(x)
         \/ \E r \in Requests : order'[r] # order[r] /\ order[r].by \in ProjectAdmins]_vars

\* What many have reported gets hidden, also when admins publish it again.
ReportedIsHidden == \A x \in Things : Many(x) ~> ~Published(x)
=============================================================================
